---------------------------- MODULE MCRepositories ----------------------------
(* Two or three handlers at a time, each with two promises to take turns with. *)
EXTENDS Repositories

CONSTANTS p1, p2, p3

TwoHandlersOps == {p1, p2} \X {0, 1}
ThreeHandlersOps == {p1, p2, p3} \X {0, 1}
=============================================================================
