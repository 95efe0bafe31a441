------------------------------ MODULE MCEq3Ota ------------------------------
\* Model values for Eq3Ota: a short and a long body.
EXTENDS Eq3Ota

CONSTANTS u1, u2

MCBodyLen == [u \in Uploads |-> IF u = u1 THEN 6 ELSE 5]
=============================================================================
