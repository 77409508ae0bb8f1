----------------------------- MODULE MCPackage -----------------------------
(* Package with shapes of one to three dimensions, one with an empty        *)
(* dimension and one that is too large.                                     *)
EXTENDS Package

SmallShapes == {<<3>>, <<2, 2>>, <<1, 3>>, <<2, 1, 2>>, <<1, 2, 2>>, <<2, 0>>, <<2, 3>>}
=============================================================================
