------------------------------ MODULE MCCmdMgr ------------------------------
EXTENDS CmdMgr, TLC
Symmetry == Permutations(Senders)
=============================================================================
