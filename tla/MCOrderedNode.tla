--------------------------- MODULE MCOrderedNode ---------------------------
(* OrderedNode on small instances; the threads are interchangeable.         *)
EXTENDS OrderedNode, TLC

Threads == Permutations(Workers)
=============================================================================
