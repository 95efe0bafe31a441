----------------------------- MODULE MCEq3Codec -----------------------------
(* Eq3Codec with the arguments at the borders of the accepted ranges. *)
EXTENDS Eq3Codec

MCArgs == {-36, -35, 35, 36, 49, 50, 295, 300}

MCTimeArgs == {<<19, 1, 12, 12, 10, 0>>}

\* A date, and a clock that was never set.
MCClocks == {[year |-> 2019, month |-> 12, day |-> 31,
              hour |-> 23, minute |-> 59, second |-> 59],
             [year |-> 1970, month |-> 1, day |-> 1,
              hour |-> 0, minute |-> 0, second |-> 4]}

MCOwn == {[mode |-> "holiday", boost |-> FALSE, window |-> TRUE, low |-> FALSE],
          [mode |-> "manual", boost |-> TRUE, window |-> FALSE, low |-> TRUE]}

\* What lies behind a text is often the end of an older one.
MCGarbage == MCTimeArgs
=============================================================================
