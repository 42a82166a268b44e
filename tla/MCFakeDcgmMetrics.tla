---- MODULE MCFakeDcgmMetrics ----
(* A small fleet for TLC. *)
EXTENDS FakeDcgmMetrics

CONSTANTS p1, p2, p3

ThreePods == {p1, p2, p3}
====
