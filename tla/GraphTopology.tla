--------------------------- MODULE GraphTopology ---------------------------
(***************************************************************************)
(* The levels GraphTopology computes for the nodes of a graph              *)
(* (src/graph_topology.cc).  They are the priorities of the ready tasks    *)
(* and the rounds of SchedulerOneThread.                                   *)
(***************************************************************************)
EXTENDS Integers, FiniteSets, Sequences, SequencesExt, FiniteSetsExt

\* Node 0 is the graph node; edges are pairs of node ids.
Siblings(edges, n) == {e[2] : e \in {f \in edges : f[1] = n}}

\* Mutant: the level of the last visit stays.
Overwrite(m, s, l) == [k \in DOMAIN m \union {s} |-> IF k = s THEN l ELSE m[k]]

\* node_level_[s] becomes the larger of what it was and l.
Raise(m, s, l) ==
    [k \in DOMAIN m \union {s} |->
        IF k # s THEN m[k] ELSE IF s \in DOMAIN m /\ m[s] > l THEN m[s] ELSE l]

\* GraphTopology::Topology: a depth-first walk from node n over the partial
\* map level.  The siblings come in the order of their addresses (a set of
\* pointers), here given by a ranking of the nodes.  Meeting the graph node
\* ends the call: the siblings before it keep the level just given, the
\* others are not levelled, and none of them is walked.
RECURSIVE Walk(_, _, _, _, _)
Walk(edges, rank, level, n, l) ==
    LET siblings == SetToSortSeq(Siblings(edges, n), LAMBDA a, b : rank[a] < rank[b])
        toGraph  == {i \in 1 .. Len(siblings) : siblings[i] = 0}
        met      == IF toGraph = {} THEN siblings
                    ELSE SubSeq(siblings, 1, CHOOSE i \in toGraph : TRUE)
        levelled == FoldLeft(LAMBDA m, s : IF s = 0 THEN m ELSE Raise(m, s, l), level, met)
    IN  IF toGraph # {} THEN levelled
        ELSE FoldLeft(LAMBDA m, s : Walk(edges, rank, m, s, l + 1), levelled, siblings)

\* The walk does not end: it goes along edges whose sources do not feed the
\* graph node and meets a node on the path to it.
RECURSIVE WalksForever(_, _, _)
WalksForever(edges, n, path) ==
    LET siblings == Siblings(edges, n) IN
    /\ 0 \notin siblings
    /\ \/ siblings \intersect path # {}
       \/ \E s \in siblings \ path : WalksForever(edges, s, path \union {s})

\* GraphTopology::Initialize, on a graph where the walk ends
NodeLevels(edges, rank) == Walk(edges, rank, <<>>, 0, 0)

\* GetNodeLevel: the default, the graph node's, is the highest priority.
GetNodeLevel(levels, n, highest) == IF n \in DOMAIN levels THEN levels[n] ELSE highest
============================================================================
