---------------------------- MODULE MCEq3CmdList ----------------------------
\* Model values for Eq3CmdList and its contract.
EXTENDS Eq3CmdList, TLC

CONSTANTS a1, a2, a3, d1, d2, c1, c2, t1, t2

Symmetry == Permutations(Cells) \cup Permutations(Devs) \cup Permutations(Cmds)
=============================================================================
