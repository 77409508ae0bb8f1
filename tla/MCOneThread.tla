---------------------------- MODULE MCOneThread ----------------------------
(* OneThread on the graphs of three nodes, described in two ways.           *)
EXTENDS OneThread

NodeIds == 0 .. 3

\* No node is reached from itself but through the graph node.
Acyclic(es) ==
    \E order \in [NodeIds -> NodeIds] :
        \A e \in es : e[1] # 0 /\ e[2] # 0 => order[e[1]] < order[e[2]]

Connected(es) == \A n \in NodeIds : (\E e \in es : e[2] = n) /\ (\E e \in es : e[1] = n)

Loopless == SUBSET {e \in NodeIds \X NodeIds : e[1] # e[2]}

AcyclicGraphs == {es \in Loopless : Connected(es) /\ Acyclic(es)}

\* Nodes 1 and 2 feed each other; node 3 is fed by the graph or by node 2.
CyclicGraphs ==
    {es \in Loopless :
        /\ Connected(es)
        /\ {<<1, 2>>, <<2, 1>>} \subseteq es
        /\ {<<1, 3>>, <<3, 1>>, <<3, 2>>} \intersect es = {}}

Node(n, ins, outs) == [name |-> n, inputs |-> ins, outputs |-> outs]
Required(link)     == [link |-> link, optional |-> FALSE]

Sources(es, n) == SetToSortSeq({e[1] : e \in {f \in es : f[2] = n}}, <)
Targets(es, n) == SetToSortSeq({e[2] : e \in {f \in es : f[1] = n}}, <)

\* One output port per node, an input port for every source.
FanOut(es) ==
    [i \in 1 .. 4 |->
        Node(i - 1, [k \in DOMAIN Sources(es, i - 1) |-> Required(Sources(es, i - 1)[k])],
             <<i - 1>>)]

\* One input port per node, filled by all its sources, and an output port for
\* every target.
Merge(es) ==
    [i \in 1 .. 4 |-> Node(i - 1, <<Required(i - 1)>>, Targets(es, i - 1))]

\* Descriptions that are refused: a name used twice, an input and a node
\* without a link, a node that feeds itself.
Refused ==
    LET in  == <<Required(0)>>
        out == <<1>> IN
    {<<Node(0, <<Required(1)>>, <<0>>), Node(0, in, out)>>,
     <<Node(0, <<Required(1)>>, <<0>>), Node(1, <<Required(NoLink)>>, out)>>,
     <<Node(0, <<Required(1)>>, <<0>>), Node(1, in, <<NoLink>>)>>,
     <<Node(0, <<Required(1)>>, <<0>>), Node(1, <<Required(0), Required(1)>>, out)>>}

\* Optional inputs: one without a link, one behind and one before a required one.
WithOptional ==
    LET optional(link) == [link |-> link, optional |-> TRUE] IN
    {<<Node(0, <<Required(1)>>, <<0>>),
       Node(1, <<Required(0), optional(NoLink)>>, <<1>>)>>,
     <<Node(0, <<Required(2)>>, <<0>>),
       Node(1, <<Required(0)>>, <<1>>),
       Node(2, <<Required(0), optional(1)>>, <<2>>)>>,
     <<Node(0, <<Required(2)>>, <<0>>),
       Node(1, <<Required(0)>>, <<1>>),
       Node(2, <<optional(1), Required(0)>>, <<2>>)>>}

\* Links with one end: node 2's input has no source, node 3's output no target.
Dangling ==
    {<<Node(0, <<Required(1)>>, <<0>>),
       Node(1, <<Required(0)>>, <<1>>),
       Node(2, <<Required(0), Required(5)>>, <<2>>),
       Node(3, <<Required(0)>>, <<3>>)>>}

AllDescriptions ==
    {FanOut(es) : es \in AcyclicGraphs \union CyclicGraphs}
        \union {Merge(es) : es \in AcyclicGraphs \union CyclicGraphs}
        \union Refused \union WithOptional \union Dangling

AllRanks == {r \in [NodeIds -> NodeIds] : \A m, n \in NodeIds : r[m] = r[n] => m = n}
=============================================================================
