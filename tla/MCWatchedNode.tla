--------------------------- MODULE MCWatchedNode ---------------------------
\* Three contexts, with ids of their own or with the id 0 all of them.
EXTENDS WatchedNode
CONSTANTS c1, c2, c3, t1, t2
Own          == c1 :> 0 @@ c2 :> 1 @@ c3 :> 2
MCNumberings == {Own, [c \in Contexts |-> 0]}
=============================================================================
