----------------------------- MODULE MCVolumes -----------------------------
(* Instances of Volumes: two partitions on one disk or on two. *)
EXTENDS Volumes

CONSTANTS d1, d2, p1, p2, x1, x2

OneDisk == [p \in {p1, p2} |-> d1]
TwoDisks == [p \in {p1, p2} |-> IF p = p1 THEN d1 ELSE d2]
OneEach == [x \in {x1, x2} |-> IF x = x1 THEN p1 ELSE p2]
=============================================================================
