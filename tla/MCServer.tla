------------------------------ MODULE MCServer ------------------------------
(* Model values for TLC: three calls, each of any kind.                    *)
EXTENDS Server

CONSTANTS c1, c2, c3

MCCallers == {c1, c2, c3}
=============================================================================
