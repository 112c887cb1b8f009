------------------------------ MODULE DevLoop ------------------------------
(***************************************************************************)
(* `ciac dev` (crates/ciac/src/dev.rs): one thread that waits for file     *)
(* events, absorbs the burst, rebuilds and restarts the stack, while the   *)
(* user keeps saving and the watcher reports what it saw when it likes.    *)
(*                                                                         *)
(* The program is the entry file and one file it may import. Which file of *)
(* a burst is reported first does not matter to the loop, so the channel   *)
(* holds a set of paths. A handler is edited and not deleted.              *)
(***************************************************************************)
EXTENDS Integers, FiniteSets

CONSTANTS
  main, lib,    \* the entry file and a file it may import
  seed,         \* the generated project's seeded handler
  Missing,      \* in the place of a file that is not there
  Dir,          \* file -> its directory
  SavesDuring,  \* where a save may find the loop, see Position
  MaxSaves      \* bound on saves

VARIABLES
  out,          \* how the --out of the session relates to the seeded handler
  src,          \* the source files on disk
  seeded,       \* has a build created the seeded handler
  unseen,       \* changed paths the watcher has not reported yet
  queue,        \* the channel rx
  watch,        \* watch_set
  registered,   \* directories the watcher was told to watch
  pc,           \* where the loop is
  newset,       \* the watch set the running rebuild will return
  tried,        \* what the last rebuild read, and how many saves it saw
  built, up,    \* the sources of the last build, and of the running stack
  saves         \* saves so far

vars == <<out, src, seeded, unseen, queue, watch, registered, pc, newset, tried, built, up, saves>>

Source == {main, lib}
Content == [rev : 0..MaxSaves, ok : BOOLEAN, imports : BOOLEAN]
Sources == [Source -> Content \cup {Missing}]

\* The watcher is told of two directories, <out>/app/services and <out>/src/services, and an
\* event counts if its canonical path begins with one of them as it was written. "canonical":
\* the handler is in one of the two, and --out is its own canonical path; "relative": it is in
\* one of the two, and --out is relative or passes through a link; "elsewhere": it is in neither
\* (a Go or Java project, a program of several services).
Outs == {"canonical", "relative", "elsewhere"}
Positions == {"load", "generate", "start", "register", "drain", "idle", "debounce", "stopped"}

------------------------------------------------------------------------------
(* The front end, as far as the loop can tell.                             *)

Loaded(s) == {main} \cup IF s[main] # Missing /\ s[main].imports THEN {lib} ELSE {}

\* An entry file or an import that cannot be read is an io::Error, not a
\* diagnostic.
Readable(s) == \A f \in Loaded(s) : s[f] # Missing
Compiles(s) == Readable(s) /\ \A f \in Loaded(s) : s[f].ok

Relevant_FaultyEntryOnly(paths) == paths \cap {main}

\* is_relevant: a watched source file, or a seeded handler whose path matches.
Relevant(paths) == paths \cap (watch \cup IF out = "canonical" THEN {seed} ELSE {})

\* Once the watcher exists it sees changes in the directories registered.
Seen(f) == IF Dir[f] \in registered THEN {f} ELSE {}

\* `tried` after the front end has read the sources.
Attempt == [src |-> src, at |-> saves]

------------------------------------------------------------------------------
Init ==
  /\ out \in Outs
  /\ saves = 0
  /\ src \in Sources
  /\ src[main] # Missing
  /\ \A f \in Source : src[f] # Missing => src[f].rev = 0 /\ (f = lib => ~src[f].imports)
  /\ seeded = FALSE
  /\ unseen = {} /\ queue = {} /\ watch = {} /\ registered = {} /\ newset = {}
  /\ pc = "load"
  /\ tried = Attempt
  /\ built = Missing /\ up = Missing

\* The first rebuild runs before there is a watcher; its error ends `ciac dev`.
First == registered = {}
Failed == IF First THEN "stopped" ELSE "drain"

\* rebuild(): the front end once for the watch set ...
Load ==
  /\ pc = "load"
  /\ tried' = Attempt
  /\ newset' = IF Readable(src) THEN Loaded(src) ELSE newset
  /\ pc' = IF ~Readable(src) THEN Failed ELSE IF Compiles(src) THEN "generate" ELSE "register"
  /\ UNCHANGED <<out, src, seeded, unseen, queue, watch, registered, built, up, saves>>

Buildable == Compiles(src)

Touches_FaultyRewritesSeed == TRUE

\* A build writes the seeded handler when there is none.
Touches == ~seeded

\* ... and again inside build_inner, which reads the sources for itself and
\* may fail for reasons of its own, with an exit code or with an error.
Generate ==
  /\ pc = "generate"
  /\ tried' = Attempt
  /\ \/ /\ Buildable
        /\ built' = src
        /\ unseen' = unseen \cup IF Touches THEN Seen(seed) ELSE {}
        /\ seeded' = TRUE
        /\ pc' = "start"
     \/ pc' = "register" /\ Readable(src) /\ UNCHANGED <<built, unseen, seeded>>
     \/ pc' = Failed /\ UNCHANGED <<built, unseen, seeded>>
  /\ UNCHANGED <<out, src, queue, watch, registered, newset, up, saves>>

\* docker compose up: it may fail, and there may be no docker to run.
Start ==
  /\ pc = "start"
  /\ \/ up' = built /\ pc' = "register"
     \/ pc' \in {"register", Failed} /\ UNCHANGED up
  /\ UNCHANGED <<out, src, seeded, unseen, queue, watch, registered, newset, tried, built, saves>>

\* A seeded directory is registered if it is one of the two and a build has created it.
Register ==
  /\ pc = "register"
  /\ watch' = newset
  /\ registered' = registered \cup {Dir[f] : f \in newset}
                              \cup IF seeded /\ out # "elsewhere" THEN {Dir[seed]} ELSE {}
  /\ pc' = IF First THEN "idle" ELSE "drain"
  /\ UNCHANGED <<out, src, seeded, unseen, queue, newset, tried, built, up, saves>>

\* Whatever was reported during the rebuild is thrown away.
Drain ==
  /\ pc = "drain"
  /\ queue' = {}
  /\ pc' = "idle"
  /\ UNCHANGED <<out, src, seeded, unseen, watch, registered, newset, tried, built, up, saves>>

\* One event at a time; one that is not relevant is skipped.
Receive ==
  /\ pc = "idle"
  /\ \E p \in queue :
       /\ queue' = queue \ {p}
       /\ pc' = IF Relevant({p}) # {} THEN "debounce" ELSE "idle"
  /\ UNCHANGED <<out, src, seeded, unseen, watch, registered, newset, tried, built, up, saves>>

\* The rest of the burst, until 300ms pass without an event.
Absorb ==
  /\ pc = "debounce" /\ queue # {}
  /\ queue' = {}
  /\ UNCHANGED <<out, src, seeded, unseen, watch, registered, pc, newset, tried, built, up, saves>>

Settle ==
  /\ pc = "debounce" /\ queue = {}
  /\ pc' = "load"
  /\ UNCHANGED <<out, src, seeded, unseen, queue, watch, registered, newset, tried, built, up, saves>>

Loop == Load \/ Generate \/ Start \/ Register \/ Drain \/ Receive \/ Absorb \/ Settle

\* The stop flag is looked at between events; the stack goes down or is kept.
Stop ==
  /\ pc = "idle"
  /\ pc' = "stopped"
  /\ up' \in {up, Missing}
  /\ UNCHANGED <<out, src, seeded, unseen, queue, watch, registered, newset, tried, built, saves>>

------------------------------------------------------------------------------
(* The watcher and the user.                                               *)

Report ==
  /\ unseen # {} /\ pc # "stopped"
  /\ \E p \in unseen : unseen' = unseen \ {p} /\ queue' = queue \cup {p}
  /\ UNCHANGED <<out, src, seeded, watch, registered, pc, newset, tried, built, up, saves>>

\* Where a save finds the loop.
Position == IF First THEN "first" ELSE pc

Save ==
  /\ Position \in SavesDuring /\ saves < MaxSaves
  /\ saves' = saves + 1
  /\ \E f \in Source :
       /\ \E ok, imports \in BOOLEAN :
            /\ f = lib => ~imports
            /\ src' = [src EXCEPT ![f] = [rev |-> saves + 1, ok |-> ok, imports |-> imports]]
       /\ unseen' = unseen \cup Seen(f)
  /\ UNCHANGED <<out, seeded, queue, watch, registered, pc, newset, tried, built, up>>

Remove ==
  /\ Position \in SavesDuring /\ saves < MaxSaves
  /\ saves' = saves + 1
  /\ src[lib] # Missing
  /\ src' = [src EXCEPT ![lib] = Missing]
  /\ unseen' = unseen \cup Seen(lib)
  /\ UNCHANGED <<out, seeded, queue, watch, registered, pc, newset, tried, built, up>>

\* A handler edit: the loop restarts the stack for it.
SaveSeed ==
  /\ Position \in SavesDuring /\ saves < MaxSaves /\ seeded
  /\ saves' = saves + 1
  /\ unseen' = unseen \cup Seen(seed)
  /\ UNCHANGED <<out, src, seeded, queue, watch, registered, pc, newset, tried, built, up>>

User == Save \/ Remove \/ SaveSeed

Next == Loop \/ Stop \/ Report \/ User
Spec == Init /\ [][Next]_vars

\* The loop is a thread that is never blocked for good (every wait has a
\* timeout), and the watcher reports what it saw; nobody has to save or stop.
FairSpec == Spec /\ WF_vars(Loop) /\ WF_vars(Report)

----------------------------------------------------------------------------
(* What somebody who saves files next to `ciac dev` may count on. *)

\* A change that the loop heeds is read by a later rebuild, with all that was saved before it,
\* whatever else is saved, dropped or fails, unless the user stops the loop: that of a watched
\* file or, where --out is canonical, of a seeded handler, if it waits to be reported or
\* received while the loop listens; and any change made while the loop debounces (is_relevant,
\* the debounce, the drain).  What the drain throws away is thus read with the next change.
Heeded == watch \cup IF out = "canonical" THEN {seed} ELSE {}
PendingIsBuilt ==
  \A n \in 1..MaxSaves :
    (saves = n /\ (pc = "debounce" \/ (pc = "idle" /\ (unseen \cup queue) \cap Heeded # {})))
      ~> (tried.at >= n \/ pc = "stopped")

\* A rebuild's own writes do not keep the loop busy: when the user stops
\* saving it comes to rest, also when they are reported after the drain.
EchoesEnd == <>[](pc \in {"idle", "stopped"})

----------------------------------------------------------------------------
(* What the documentation also says, and what the code does not do (README, section 6). *)

\* A seeded handler that is edited while the loop listens brings about a rebuild
\* (docs/dev-loop.md:39: "editing a seeded handler implementation also triggers a
\* restart-and-reprobe").  is_relevant compares the canonical path of the event with --out as
\* it was written: no handler under a relative --out, as in docs/dev-loop.md:13, ever matches.
HandlerEditsAreBuilt ==
  \A n \in 1..MaxSaves :
    (saves = n /\ pc = "idle" /\ seed \in unseen \cup queue) ~> (tried.at >= n \/ pc = "stopped")

\* The loop comes to rest with the entry file read as it is (docs/dev-loop.md:7: "watch the
\* program's source, regenerate on change"); the drain drops only what the rebuild itself wrote
\* (dev.rs:100: "drop whatever that produced so it can't echo back").  It drops the user's own
\* saves as well.
RestsUpToDate == <>[](pc = "stopped" \/ tried.src[main] = src[main])
=============================================================================
