------------------------------ MODULE MCEq3Log ------------------------------
\* Eq3Log with a short array and texts of three lengths, so that an entry is
\* followed by longer and by shorter ones.
EXTENDS Eq3Log

MCLength == [e \in 1 .. MaxAdds |-> 1 + (e % 3)]
=============================================================================
