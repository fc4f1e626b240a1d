---------------------------- MODULE MCMultiQueue ----------------------------
(* The multiqueue with three queues: a root with two children, or two      *)
(* roots and a child that moves between them.                              *)
EXTENDS MultiQueue, TLC

CONSTANTS q1, q2, q3, none

MCQueues == {q1, q2, q3}

(* Queues are created and freed alike. *)
Symmetry == Permutations(MCQueues)
=============================================================================
