---------------------------- MODULE MCQuarantine ----------------------------
(* Instances of Quarantine: two programs, both malicious, in directories   *)
(* of their own; with equal or different file names.                       *)
EXTENDS Quarantine

CONSTANTS p1, p2, c1, c2, c3

TwoPaths   == {p1, p2}
SameBase   == [p \in TwoPaths |-> p1]
OwnBase    == [p \in TwoPaths |-> p]
FirstFiles == [p \in TwoPaths |-> IF p = p1 THEN c1 ELSE c2]
TwoFiles   == {c1, c2}
ThreeFiles == {c1, c2, c3}
=============================================================================
