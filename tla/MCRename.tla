------------------------------ MODULE MCRename ------------------------------
EXTENDS Rename
CONSTANTS main, lib, out1, out2
TwoFiles == <<main, lib>>
TwoOuts == <<out1, out2>>
=============================================================================
