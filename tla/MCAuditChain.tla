---------------------------- MODULE MCAuditChain ----------------------------
(***************************************************************************)
(* Small instances of AuditChain.  A second has nine ticks: fractions of   *)
(* two digits of base three.                                               *)
(***************************************************************************)
EXTENDS AuditChain

\* The fractions .01, .10 and .11 of one second and .01 of the next: one of
\* them ends in a zero.
TwoSeconds == {1, 3, 4, 10}

\* Around both ends of the range 1..3.
SomeLimits == {-1, 0, 1, 3, 4}
=============================================================================
