---------------------------- MODULE MCAsyncGraph ----------------------------
(* AsyncGraph on small graphs with their levels from GraphTopology. *)
EXTENDS AsyncGraph, TLC

Topology == INSTANCE GraphTopology

LevelsOf(nodes, edges) ==
    LET levels == Topology!NodeLevels(edges, [n \in nodes |-> n]) IN
    [n \in nodes |-> Topology!GetNodeLevel(levels, n, NumPriorities - 1)]

Graph(nodes, edges) ==
    [nodes |-> nodes, edges |-> edges, filters |-> {}, asks |-> {}, ordered |-> {},
     level |-> LevelsOf(nodes, edges), policy |-> "async",
     limit |-> 3, packets |-> 1, inTurn |-> FALSE]

ChainEdges(k) == {<<n, (n + 1) % (k + 1)>> : n \in 0 .. k}
Chain(k)      == Graph(0 .. k, ChainEdges(k))

\* graph -> 1 -> 2 -> graph, the second node in order; packets in any order.
Ordered3 == [Chain(2) EXCEPT !.policy = "ordered", !.ordered = {2}, !.packets = 3]

\* graph -> 1 -> graph, in order, with room for two packets and one call of
\* AddPacketAsync after the other: a refused packet is a gap, which the later
\* packets come behind.
WithGaps == [Chain(1) EXCEPT !.policy = "ordered", !.ordered = {1}, !.limit = 2,
                             !.inTurn = TRUE, !.packets = 4]

\* Node 1 leads to the graph's output and to node 2, which leads nowhere and
\* which node 1 may leave without data; there is room for one packet less.
\* Node 2 asks for the packet's stream.
Sink == [Graph(0 .. 2, {<<0, 1>>, <<1, 0>>, <<1, 2>>})
            EXCEPT !.filters = {<<1, 2>>}, !.asks = {2}, !.packets = 2, !.limit = 1]

\* The same under the ordered scheduler, which keeps the order of both nodes.
OrderedSink == [Sink EXCEPT !.policy = "ordered", !.ordered = {1, 2}, !.asks = {}, !.limit = 2]

SmallGraphs == {Ordered3, WithGaps, Sink, OrderedSink}

\* The theorems of AsyncGraph_proofs are about lines.
ASSUME SmallGraphsAreLines == \A g \in SmallGraphs : IsLine(g)
ASSUME SmallGraphsClimb    == \A g \in SmallGraphs : Climbs(g)
ASSUME SomeHandOn          == HandsOn(Sink)

\* graph -> 1, 2 -> 3 -> graph
JoinGraphs == {Graph(0 .. 3, {<<0, 1>>, <<0, 2>>, <<1, 3>>, <<2, 3>>, <<3, 0>>})}
=============================================================================
