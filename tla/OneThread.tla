----------------------------- MODULE OneThread -----------------------------
(***************************************************************************)
(* A graph under the policy GRAPH_SCH_ASYNC_ONE_THREAD, from its           *)
(* description to the result of a packet: Graph::Initialize builds the     *)
(* edges and the levels; then SchedulerOneThread's pool of one thread      *)
(* propagates the graph's inputs, visits the nodes level by level, runs    *)
(* those whose inputs are ready, and declares the packet finished.  The    *)
(* pool runs packets one after the other, each with contexts of its own,   *)
(* so one packet stands for all.                                           *)
(*                                                                         *)
(* The description and the order of the nodes' addresses are chosen in the *)
(* initial state.                                                          *)
(***************************************************************************)
EXTENDS GraphTopology, GraphViewSpec

CONSTANTS
    Descriptions,   \* the descriptions of graphs
    Ranks           \* orders of the nodes' addresses: functions from node ids to Nat

VARIABLES
    specs, rank,
    edges,      \* edges_ of the GraphView
    level,      \* node_level_: what GraphTopology::Initialize computed
    pc,         \* "spec" | "rejected" | "levels" | "overflow" | "new" | "visit" |
                \* "graphnode" | "callback" | "done"
    round,      \* the level DoSchedule is at
    visit,      \* the nodes of that level still to be visited
    inputs      \* inputs_ of the contexts: the number of packages at each port

graphVars == <<specs, rank, edges, level>>
vars      == <<graphVars, pc, round, visit, inputs>>

Nodes      == NodeIdsOf(specs)
Ports      == UNION {{<<n, p>> : p \in InputPorts(specs, n)} : n \in Nodes}
NodeEdges  == {<<e.src, e.dst>> : e \in edges}

\* Mutant: one input port with packages is enough.
IsInputReadyAny(n) ==
    \E p \in InputPorts(specs, n) : IsOptional(specs, n, p) \/ inputs[<<n, p>>] > 0

\* InOutHandler::IsInputReady: optional ports may be empty.
IsInputReady(n) ==
    \A p \in InputPorts(specs, n) : IsOptional(specs, n, p) \/ inputs[<<n, p>>] > 0

\* package_cnt: the calculator is called as often as the fullest port has packages.
PackageCount(n) == Max({0} \union {inputs[<<n, p>>] : p \in InputPorts(specs, n)})

Package(p, i) == [port |-> p, number |-> i]
NoPackage     == [port |-> 0, number |-> 0]

RequiredPorts(n) == {p \in InputPorts(specs, n) : ~IsOptional(specs, n, p)}

\* inputs_data of the i-th call: the required ports only, each with its i-th
\* package or, if it has fewer, with a null pointer.
InputsData(n, i) ==
    [k \in 1 .. Cardinality(RequiredPorts(n)) |->
        LET p == SetToSortSeq(RequiredPorts(n), <)[k] IN
        IF inputs[<<n, p>>] >= i THEN Package(p, i) ELSE NoPackage]

\* PropagateOutputPortTo appends what n's output ports were filled with.
Propagated(n, filled) ==
    [x \in Ports |->
        inputs[x] + MapThenSumSet(LAMBDA e : filled[e.srcPort],
                                  {e \in edges : e.src = n /\ <<e.dst, e.dstPort>> = x})]

\* top_ and GetTopologyDepth: Initialize lists the nodes in ascending order.
GetNodesOnLevelN(l) == SetToSortSeq({n \in DOMAIN level : level[n] = l}, <)

\* Mutant: the last level is left out.
TopologyDepthLessOne == Cardinality({level[n] : n \in DOMAIN level}) - 1

GetTopologyDepth == Cardinality({level[n] : n \in DOMAIN level})

Init ==
    /\ specs \in Descriptions
    /\ rank \in Ranks
    /\ edges = {}
    /\ level = <<>>
    /\ pc = "spec"
    /\ round = 0
    /\ visit = <<>>
    /\ inputs = [x \in Ports |-> 0]

\* GraphViewSpec::Initialize refuses the description.
Reject ==
    /\ pc = "spec"
    /\ ~Accepts(specs)
    /\ pc' = "rejected"
    /\ UNCHANGED <<graphVars, round, visit, inputs>>

\* The view is built from the edge specs.
Build ==
    /\ pc = "spec"
    /\ Accepts(specs)
    /\ edges' = EdgesOf(specs)
    /\ pc' = "levels"
    /\ UNCHANGED <<specs, rank, level, round, visit, inputs>>

\* The scheduler's Initialize: GraphView::GetTopology.
LevelNodes ==
    /\ pc = "levels"
    /\ ~WalksForever(NodeEdges, 0, {})
    /\ level' = NodeLevels(NodeEdges, rank)
    /\ pc' = "new"
    /\ UNCHANGED <<specs, rank, edges, round, visit, inputs>>

\* The recursion of GraphTopology::Topology does not end.
Overflow ==
    /\ pc = "levels"
    /\ WalksForever(NodeEdges, 0, {})
    /\ pc' = "overflow"
    /\ UNCHANGED <<graphVars, round, visit, inputs>>

\* The graph's inputs are propagated; the first level is fetched.
Begin ==
    /\ pc = "new"
    /\ inputs' = Propagated(0, [p \in OutputPorts(specs, 0) |-> 1])
    /\ visit' = GetNodesOnLevelN(0)
    /\ pc' = "visit"
    /\ UNCHANGED <<graphVars, round>>

\* ProcessCtx calls the calculator, which fills some outputs in each call, and
\* clears the inputs; DoPropagate moves the outputs on unless there are none.
RunNode ==
    /\ pc = "visit"
    /\ visit # <<>>
    /\ LET n == Head(visit) IN
        /\ IsInputReady(n)
        /\ \E filled \in [OutputPorts(specs, n) -> 0 .. PackageCount(n)] :
            inputs' = [x \in Ports |-> IF x[1] = n THEN 0 ELSE Propagated(n, filled)[x]]
    /\ visit' = Tail(visit)
    /\ UNCHANGED <<graphVars, pc, round>>

SkipNode ==
    /\ pc = "visit"
    /\ visit # <<>>
    /\ ~IsInputReady(Head(visit))
    /\ visit' = Tail(visit)
    /\ UNCHANGED <<graphVars, pc, round, inputs>>

NextLevel ==
    /\ pc = "visit"
    /\ visit = <<>>
    /\ round' = round + 1
    /\ IF round + 1 < GetTopologyDepth
       THEN visit' = GetNodesOnLevelN(round + 1) /\ UNCHANGED pc
       ELSE pc' = "graphnode" /\ UNCHANGED visit
    /\ UNCHANGED <<graphVars, inputs>>

\* GraphNode::ProcessCtx: SetFinished, whatever the graph's outputs hold.
Finish ==
    /\ pc = "graphnode"
    /\ pc' = "callback"
    /\ UNCHANGED <<graphVars, round, visit, inputs>>

\* graph_call_back_: the result is handed out.
CallBack ==
    /\ pc = "callback"
    /\ pc' = "done"
    /\ UNCHANGED <<graphVars, round, visit, inputs>>

Next ==
    \/ Reject \/ Build \/ LevelNodes \/ Overflow
    \/ Begin \/ RunNode \/ SkipNode \/ NextLevel \/ Finish \/ CallBack

Spec == Init /\ [][Next]_vars

-----------------------------------------------------------------------------
(***************************************************************************)
(* Properties                                                              *)
(***************************************************************************)

\* What the description says: node m feeds port p of node n, and node n.
FeedsPort(m, n, p) ==
    \E o \in OutputPorts(specs, m) :
        /\ LinkOfOutput(specs, m, o) # NoLink
        /\ LinkOfOutput(specs, m, o) = LinkOfInput(specs, n, p)

Feeds(m, n) == \E p \in InputPorts(specs, n) : FeedsPort(m, n, p)

Inner == Nodes \ {0}

\* The inner nodes ns and those they lead to without the graph node.
RECURSIVE Downstream(_)
Downstream(ns) ==
    LET more == ns \union {n \in Inner : \E m \in ns : Feeds(m, n)}
    IN  IF more = ns THEN ns ELSE Downstream(more)

After(ns)    == Downstream({n \in Inner : \E m \in ns : Feeds(m, n)})
Reachable    == After({0})
IsCyclic     == \E n \in Reachable : n \in After({n})

\* Behind a node that feeds the graph's outputs and another node, the levels
\* depend on the order of addresses and may be missing.
BehindTaps   == After({n \in Reachable : Feeds(n, 0) /\ After({n}) # {}})

\* At and behind a port that several nodes feed, packages come in numbers.
BehindMerges ==
    Downstream({n \in Inner : \E p \in InputPorts(specs, n) :
                   Cardinality({m \in Nodes : FeedsPort(m, n, p)}) > 1})

\* The longest path from the graph's inputs to n, counted from 0.
RECURSIVE LongestPath(_)
LongestPath(n) == Max({0} \union {LongestPath(m) + 1 : m \in {k \in Reachable : Feeds(k, n)}})

\* The walk ends unless the links form a cycle, and the edges generated from
\* the links and the walk over shared nodes give every node that is not
\* behind a tap the length of the longest chain of links to it, so that a
\* level holds only nodes that do not feed each other.
LevelIsLongestPath ==
    /\ pc = "overflow" => IsCyclic
    /\ pc = "new" =>
        \A n \in Reachable \ BehindTaps : n \in DOMAIN level /\ level[n] = LongestPath(n)

\* When the packet is handed out as finished, a node that has all its inputs
\* and was not run for them is behind a tap.
LostOnlyBehindTaps ==
    pc = "done" =>
        \A n \in Inner : IsInputReady(n) /\ PackageCount(n) > 0 => n \in BehindTaps

\* GetInputData(p) gives a calculator the package of port p for every call,
\* if no optional port comes before p and nothing upstream is a merge.  (With
\* an optional port before it, a required port is found at a lower index; at a
\* merge the calculator is called with null pointers.)
CalculatorsGetTheirInputs ==
    pc = "visit" /\ visit # <<>> =>
        LET n == Head(visit) IN
        IsInputReady(n) /\ n \notin BehindMerges =>
            \A i \in 1 .. PackageCount(n), p \in RequiredPorts(n) :
                1 .. p \subseteq RequiredPorts(n) => InputsData(n, i)[p] = Package(p, i)
=============================================================================
