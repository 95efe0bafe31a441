---------------------------- MODULE MCEq3Engine ----------------------------
(* Small instances of Eq3Engine for TLC. *)
EXTENDS Eq3Engine, TLC

\* Valves and commands are interchangeable (safety runs only).
Symmetry == Permutations(Devs) \cup Permutations(Cmds)
=============================================================================
