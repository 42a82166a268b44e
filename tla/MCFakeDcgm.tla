---- MODULE MCFakeDcgm ----
(* A small fleet for TLC. *)
EXTENDS FakeDcgmWatcher

CONSTANTS p1, p2, p3

TwoPods == {p1, p2}

ThreePods == {p1, p2, p3}
====
