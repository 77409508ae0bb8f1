--------------------------- MODULE GraphViewSpec ---------------------------
(***************************************************************************)
(* GraphViewSpec::Initialize (src/spec/graph_view_spec.cc): a graph is     *)
(* described by its own node spec and those of its nodes, whose ports name *)
(* links; the description is validated, nodes and ports get ids, and ports *)
(* that name the same link become edges.                                   *)
(*                                                                         *)
(* A description is a sequence of records; the first one is the graph, the *)
(* id of a node or a port is its place in the sequence.  The graph's own   *)
(* inputs are output ports of its node, and its outputs input ports.       *)
(***************************************************************************)
EXTENDS Integers, Sequences

CONSTANT NoLink     \* the link name of a port that is not linked

\* The node specs: inputs are records [link, optional], outputs are links.
NodeAt(specs, n)       == specs[n + 1]
NodeIdsOf(specs)       == 0 .. Len(specs) - 1
InputPorts(specs, n)   == DOMAIN NodeAt(specs, n).inputs
OutputPorts(specs, n)  == DOMAIN NodeAt(specs, n).outputs
LinkOfInput(specs, n, p)  == NodeAt(specs, n).inputs[p].link
LinkOfOutput(specs, n, p) == NodeAt(specs, n).outputs[p]
IsOptional(specs, n, p)   == NodeAt(specs, n).inputs[p].optional

\* GenerateEdgeSpec: an edge from every output to every input of a link.
EdgesOf(specs) ==
    UNION {UNION {{[src |-> m, srcPort |-> o, dst |-> n, dstPort |-> i] :
                      o \in {p \in OutputPorts(specs, m) :
                                /\ LinkOfOutput(specs, m, p) # NoLink
                                /\ LinkOfOutput(specs, m, p) = LinkOfInput(specs, n, i)}} :
                  i \in InputPorts(specs, n)} :
           m \in NodeIdsOf(specs), n \in NodeIdsOf(specs)}

\* ParsingNodeSpec refuses a name that is already taken.  (The names of the
\* order-preserving nodes are kept in a second map, with the same check.)
NamesDiffer(specs) ==
    \A m, n \in NodeIdsOf(specs) : NodeAt(specs, m).name = NodeAt(specs, n).name => m = n

\* GenerateEdgeSpec's checks.  There is none for cycles.
LinksAreValid(specs) ==
    /\ \A n \in NodeIdsOf(specs) :
        /\ \A p \in InputPorts(specs, n) :
               LinkOfInput(specs, n, p) = NoLink => IsOptional(specs, n, p)
        /\ \E p \in OutputPorts(specs, n) : LinkOfOutput(specs, n, p) # NoLink
    /\ \A e \in EdgesOf(specs) : e.src # e.dst

\* The status of Initialize is OK.
Accepts(specs) == NamesDiffer(specs) /\ LinksAreValid(specs)
============================================================================
