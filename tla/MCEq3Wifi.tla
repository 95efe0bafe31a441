------------------------------ MODULE MCEq3Wifi ------------------------------
\* Model values for Eq3Wifi.
EXTENDS Eq3Wifi

CONSTANTS s1, m1, m2
=============================================================================
