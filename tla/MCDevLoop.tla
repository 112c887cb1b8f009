----------------------------- MODULE MCDevLoop -----------------------------
(* The imported file is in a directory of its own. *)
EXTENDS DevLoop

CONSTANTS project, shared, services

MCDir == [f \in {main, lib, seed} |->
            CASE f = main -> project [] f = lib -> shared [] f = seed -> services]
AnyTime == (Positions \ {"stopped"}) \cup {"first"}
WhileWatching == AnyTime \ {"first"}
=============================================================================
