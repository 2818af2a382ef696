--------------------------- MODULE MCFailureDetector ---------------------------
(* Small instances of FailureDetector for TLC. *)
EXTENDS FailureDetector

CONSTANTS p1, p2

NoGossip == {}
Rumours  == {<<"FAILED", p1>>, <<"SUSPECTED", p1>>, <<"LEFT", p2>>}
=============================================================================
