----------------------------- MODULE MCEq3Uart -----------------------------
(* The serial line with a buffer of a few characters, for TLC.             *)
EXTENDS Eq3Uart
=============================================================================
