------------------------------- MODULE MCLsp -------------------------------
EXTENDS Lsp

CONSTANTS main, lib

\* main imports lib; lib stands alone.
MCImports == [d \in {main, lib} |-> IF d = main THEN {lib} ELSE {}]
=============================================================================
