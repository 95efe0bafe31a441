------------------------------ MODULE MCEq3Gap ------------------------------
(* Eq3Gap for model checking: the devices are interchangeable. *)
EXTENDS Eq3Gap, TLC

Symmetry == Permutations(Devs)
=============================================================================
