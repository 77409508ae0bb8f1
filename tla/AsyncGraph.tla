----------------------------- MODULE AsyncGraph -----------------------------
(***************************************************************************)
(* A graph of nodes run by SchedulerAsync or SchedulerAsyncOrderPreserving *)
(* with a result callback registered: the calls of AddPacketAsync, the     *)
(* table of packet contexts, the ready queue with its priorities, the      *)
(* scheduler thread, the executor's queue and threads, and the lifetime of *)
(* a packet's context, which ends when the table and every running task    *)
(* have let go of it while tasks in the queues only hold weak pointers.    *)
(*                                                                         *)
(* The two schedulers run the same task but for the ordered branch and for *)
(* what they dereference first, so a policy selects between them.  Packets *)
(* belong to one input stream.  An edge stands for its two ports; a set of *)
(* edges says which ports hold packages.                                   *)
(***************************************************************************)
EXTENDS OrderInformation, Sequences, SequencesExt

CONSTANTS
    Graphs,         \* the graphs, see IsGraph
    NumPriorities,  \* the lists of ReadyTaskQueue that Top looks at (16)
    Workers         \* the threads of executor_ (3)

GraphNode == 0

\* A graph, and how it is used:
\*   nodes    node ids; edges are pairs <<source node, destination node>>
\*   filters  edges whose source calculator may leave the port empty
\*   asks     nodes whose calculator asks for its packet's stream, through
\*            CalculatorContext::GetInputSourceContext
\*   ordered  nodes with order_preserving_ set
\*   level    what GraphTopology::GetNodeLevel returns
\*   policy   the scheduler
\*   limit    the size of packet_contexts_ that refuses packets (20)
\*   packets  the packets the application has
\*   inTurn   the application hands them in one after the other, and announces
\*            a refused one before the next; else in any order, without announcing
IsGraph(g) ==
    /\ GraphNode \in g.nodes
    /\ g.nodes \subseteq Nat
    /\ g.edges \subseteq g.nodes \X g.nodes
    /\ g.filters \subseteq g.edges
    /\ g.asks \subseteq g.nodes
    /\ g.ordered \subseteq g.nodes
    /\ g.level \in [g.nodes -> Nat]
    /\ g.policy \in {"async", "ordered"}
    /\ g.limit \in Nat \ {0}
    /\ g.packets \in 1 .. NumPkts
    /\ g.inTurn \in BOOLEAN

ASSUME GraphAssumption     == \A g \in Graphs : IsGraph(g)
ASSUME SchedulerAssumption == NumPriorities \in Nat \ {0}

VARIABLES
    graph,      \* the graph, which does not change
    \* the application and the packet table
    submit,     \* per packet: "new" | "adding" | "accepted" | "refused" | "skipped"
    appTodo,    \* per packet: the nodes AddPacketContext still adds a task for
    table,      \* packet_contexts_
    finished,   \* packets whose finished_ flag is set
    \* the per-node contexts of each packet
    inputs,     \* per packet: the edges whose destination port holds packages
    outputs,    \* per packet: the edges whose source port holds packages
    \* the schedulers' queues
    ready,      \* p_queue_: per priority a list of tasks
    executor,   \* the executor's queue
    \* the executor threads
    pc,
    task,       \* the task a thread runs
    holds,      \* its pkt_ctx is not null: the packet's context stays alive
    saw,        \* ProcessCtx found packages at its inputs
    todo,       \* destinations a thread still adds a ready task for
    taken,      \* the packet a thread took from the heap
    \* the order-preserving nodes
    order,      \* per ordered node its entry in order_information_
    \* what the application and the ordered nodes' successors see
    called,     \* the packets the result callback was called with, in order
    left        \* per ordered node the packets that left it, in order

appVars    == <<graph, submit, appTodo>>
dataVars   == <<inputs, outputs>>
queueVars  == <<ready, executor>>
localVars  == <<task, holds, saw, todo, taken>>
seenVars   == <<called, left>>
vars == <<appVars, table, finished, dataVars, queueVars, pc, localVars, order, seenVars>>

Edges      == graph.edges
Ordered    == graph.ordered
Packets    == 0 .. graph.packets - 1
Lists      == (0 .. NumPriorities - 1) \union {graph.level[n] : n \in graph.nodes}
Tasks      == [pkt : PktIds, node : graph.nodes]
InEdges(n)    == {e \in Edges : e[2] = n}
OutEdges(n)   == {e \in Edges : e[1] = n}
KeepsOrder(n) == graph.policy = "ordered" /\ n \in Ordered

\* DoPropagate returns the destinations as a std::set, which is walked from
\* the smallest on.
Destinations(n) == {e[2] : e \in OutEdges(n)}
First(nodes)    == {n \in nodes : \A m \in nodes : n <= m}

PC == {"idle", "start", "next", "buffer", "read", "produce", "output", "propagate",
       "add", "callback", "erase", "setnext", "drain", "requeue", "dead"}

Init ==
    /\ graph \in Graphs
    /\ submit = [p \in PktIds |-> "new"]
    /\ appTodo = [p \in PktIds |-> {}]
    /\ table = {}
    /\ finished = {}
    /\ inputs = [p \in PktIds |-> {}]
    /\ outputs = [p \in PktIds |-> {}]
    /\ ready = [l \in Lists |-> <<>>]
    /\ executor = <<>>
    /\ pc = [w \in Workers |-> "idle"]
    /\ task = [w \in Workers |-> [pkt |-> 0, node |-> GraphNode]]
    /\ holds = [w \in Workers |-> FALSE]
    /\ saw = [w \in Workers |-> FALSE]
    /\ todo = [w \in Workers |-> {}]
    /\ taken = [w \in Workers |-> 0]
    /\ order = [n \in Ordered |-> EmptyOrder]
    /\ called = <<>>
    /\ left = [n \in Ordered |-> <<>>]

-----------------------------------------------------------------------------
Pkt(w)  == task[w].pkt
Node(w) == task[w].node

\* The weak pointer to a packet's context can be locked.
Alive(p) ==
    \/ p \in table
    \/ submit[p] = "adding"
    \/ \E w \in Workers : holds[w] /\ Pkt(w) = p

IsInputReady(p, n)  == InEdges(n) \subseteq inputs[p]

\* Mutant: every output port must hold packages.
IsOutputReadyAll(p, n) == OutEdges(n) \subseteq outputs[p]

IsOutputReady(p, n) == OutEdges(n) \intersect outputs[p] # {}

\* ReadyTaskQueue::AddTask puts the task in the list of its node's level.
Queued(p, n) == [ready EXCEPT ![graph.level[n]] = Append(@, [pkt |-> p, node |-> n])]

Goto(w, label) == pc' = [pc EXCEPT ![w] = label]

\* The task's lambda returns: its pkt_ctx goes out of scope.
Return(w) ==
    /\ Goto(w, "idle")
    /\ holds' = [holds EXCEPT ![w] = FALSE]
    /\ UNCHANGED <<task, saw, todo, taken>>

-----------------------------------------------------------------------------
(***************************************************************************)
(* The application: one call of AddPacketAsync per packet, from any        *)
(* thread.                                                                 *)
(***************************************************************************)

MayAdd(p) ==
    /\ submit[p] = "new"
    /\ p \in Packets
    /\ graph.inTurn => \A q \in 0 .. p - 1 : submit[q] \in {"accepted", "skipped"}

AddPacketAsync(p) ==
    /\ MayAdd(p)
    /\ Cardinality(table) < graph.limit
    /\ table' = table \union {p}
    /\ inputs' = [inputs EXCEPT ![p] = OutEdges(GraphNode)]
    /\ submit' = [submit EXCEPT ![p] = "adding"]
    /\ appTodo' = [appTodo EXCEPT ![p] = Destinations(GraphNode)]
    /\ UNCHANGED <<graph, finished, outputs, queueVars, pc, localVars, order, seenVars>>

FlowControl(p) ==
    /\ MayAdd(p)
    /\ Cardinality(table) >= graph.limit
    /\ submit' = [submit EXCEPT ![p] = "refused"]
    /\ UNCHANGED <<graph, appTodo, table, finished, dataVars, queueVars, pc, localVars, order,
                   seenVars>>

\* AddSkipPacket, for every order-preserving node of the graph.
AddSkipPacket(p) ==
    /\ submit[p] = "refused"
    /\ graph.inTurn
    /\ submit' = [submit EXCEPT ![p] = "skipped"]
    /\ order' = [n \in Ordered |-> AfterAddSkipPktId(order[n], p)]
    /\ UNCHANGED <<graph, appTodo, table, finished, dataVars, queueVars, pc, localVars, seenVars>>

AddFirstTask(p) ==
    /\ submit[p] = "adding"
    /\ \E n \in First(appTodo[p]) :
        /\ ready' = Queued(p, n)
        /\ appTodo' = [appTodo EXCEPT ![p] = @ \ {n}]
        /\ submit' = IF appTodo[p] = {n} THEN [submit EXCEPT ![p] = "accepted"] ELSE submit
    /\ UNCHANGED <<graph, table, finished, dataVars, executor, pc, localVars, order, seenVars>>

(***************************************************************************)
(* The scheduler thread: Top takes the oldest task of the highest          *)
(* non-empty priority, and the executor's queue takes it over.             *)
(***************************************************************************)
Schedule ==
    \E l \in 0 .. NumPriorities - 1 :
        /\ ready[l] # <<>>
        /\ \A k \in l + 1 .. NumPriorities - 1 : ready[k] = <<>>
        /\ executor' = Append(executor, Head(ready[l]))
        /\ ready' = [ready EXCEPT ![l] = Tail(@)]
        /\ UNCHANGED <<appVars, table, finished, dataVars, pc, localVars, order, seenVars>>

(***************************************************************************)
(* An executor thread.                                                     *)
(***************************************************************************)

Take(w) ==
    /\ pc[w] = "idle"
    /\ executor # <<>>
    /\ task' = [task EXCEPT ![w] = Head(executor)]
    /\ executor' = Tail(executor)
    /\ Goto(w, "start")
    /\ UNCHANGED <<appVars, table, finished, dataVars, ready, holds, saw, todo, taken,
                   order, seenVars>>

\* The packet's context is locked and the inputs are checked.  The ordered
\* scheduler asks the context for its ids first and dies if there is none.
Start(w) ==
    /\ pc[w] = "start"
    /\ \/ /\ graph.policy = "ordered" /\ ~Alive(Pkt(w))
          /\ Goto(w, "dead")
          /\ UNCHANGED localVars
       \/ /\ graph.policy = "ordered" => Alive(Pkt(w))
          /\ IsInputReady(Pkt(w), Node(w))
          /\ holds' = [holds EXCEPT ![w] = Alive(Pkt(w))]
          /\ Goto(w, IF KeepsOrder(Node(w)) THEN "next" ELSE "read")
          /\ UNCHANGED <<task, saw, todo, taken>>
       \/ /\ graph.policy = "ordered" => Alive(Pkt(w))
          /\ ~IsInputReady(Pkt(w), Node(w))
          /\ Return(w)
    /\ UNCHANGED <<appVars, table, finished, dataVars, queueVars, order, seenVars>>

\* Mutant: a packet that is early is processed too.
GetNextNeverBuffers(w) ==
    /\ pc[w] = "next"
    /\ order' = [order EXCEPT ![Node(w)] = AfterGetNextPktId(@)]
    /\ Goto(w, IF NextPktId(order[Node(w)]) <= Pkt(w) THEN "read" ELSE "drain")
    /\ UNCHANGED <<appVars, table, finished, dataVars, queueVars, localVars, seenVars>>

\* GetNextPktId and the comparison with the packet's id.
GetNext(w) ==
    /\ pc[w] = "next"
    /\ order' = [order EXCEPT ![Node(w)] = AfterGetNextPktId(@)]
    /\ LET next == NextPktId(order[Node(w)]) IN
       \/ next < Pkt(w) /\ Goto(w, "buffer")
       \/ next = Pkt(w) /\ Goto(w, "read")
       \/ next > Pkt(w) /\ Goto(w, "drain")
    /\ UNCHANGED <<appVars, table, finished, dataVars, queueVars, localVars, seenVars>>

\* Mutant: a thread that buffered a packet does not look at the heap.
BufferReturns(w) ==
    /\ pc[w] = "buffer"
    /\ order' = [order EXCEPT ![Node(w)] = AfterAddUnprocessedPkt(@, Pkt(w))]
    /\ Return(w)
    /\ UNCHANGED <<appVars, table, finished, dataVars, queueVars, seenVars>>

\* AddUnprocessedPkt; the drain loop follows.
Buffer(w) ==
    /\ pc[w] = "buffer"
    /\ order' = [order EXCEPT ![Node(w)] = AfterAddUnprocessedPkt(@, Pkt(w))]
    /\ Goto(w, "drain")
    /\ UNCHANGED <<appVars, table, finished, dataVars, queueVars, localVars, seenVars>>

\* Node::ProcessCtx counts the packages at the inputs...
Read(w) ==
    /\ pc[w] = "read"
    /\ Node(w) # GraphNode
    /\ saw' = [saw EXCEPT ![w] = InEdges(Node(w)) \intersect inputs[Pkt(w)] # {}]
    /\ Goto(w, "produce")
    /\ UNCHANGED <<appVars, table, finished, dataVars, queueVars, task, holds, todo, taken,
                   order, seenVars>>

\* The calculator is run and reaches for a context that is gone.
AsksInVain(w) == saw[w] /\ Node(w) \in graph.asks /\ ~Alive(Pkt(w))

\* ...runs the calculator for them, fills the outputs and clears the inputs.
Produce(w) ==
    /\ pc[w] = "produce"
    /\ \/ AsksInVain(w) /\ Goto(w, "dead") /\ UNCHANGED dataVars
       \/ /\ ~AsksInVain(w)
          /\ \E filled \in SUBSET OutEdges(Node(w)) :
              /\ ~saw[w] => filled = {}
              /\ saw[w] => OutEdges(Node(w)) \ graph.filters \subseteq filled
              /\ outputs' = [outputs EXCEPT ![Pkt(w)] = @ \union filled]
          /\ inputs' = [inputs EXCEPT ![Pkt(w)] = @ \ InEdges(Node(w))]
          /\ Goto(w, "output")
    /\ UNCHANGED <<appVars, table, finished, queueVars, localVars, order, seenVars>>

\* GraphNode::ProcessCtx: SetFinished on the context, inputs are kept.
Finish(w) ==
    /\ pc[w] = "read"
    /\ Node(w) = GraphNode
    /\ \/ ~holds[w] /\ Goto(w, "dead") /\ UNCHANGED finished
       \/ holds[w] /\ Goto(w, "callback") /\ finished' = finished \union {Pkt(w)}
    /\ UNCHANGED <<appVars, table, dataVars, queueVars, localVars, order, seenVars>>

\* RemovePacketContextIfFinished: the callback, then the erase under mtx_.
CallBack(w) ==
    /\ pc[w] = "callback"
    /\ called' = Append(called, Pkt(w))
    /\ Goto(w, "erase")
    /\ UNCHANGED <<appVars, table, finished, dataVars, queueVars, localVars, order, left>>

Erase(w) ==
    /\ pc[w] = "erase"
    /\ table' = table \ {Pkt(w)}
    /\ \/ KeepsOrder(GraphNode) /\ Goto(w, "setnext") /\ UNCHANGED localVars
       \/ ~KeepsOrder(GraphNode) /\ Return(w)
    /\ UNCHANGED <<appVars, finished, dataVars, queueVars, order, seenVars>>

CheckOutput(w) ==
    /\ pc[w] = "output"
    /\ \/ ~IsOutputReady(Pkt(w), Node(w)) /\ Return(w)
       \/ IsOutputReady(Pkt(w), Node(w)) /\ Goto(w, "propagate") /\ UNCHANGED localVars
    /\ UNCHANGED <<appVars, table, finished, dataVars, queueVars, order, seenVars>>

\* Mutant: the first destination gets a task at once, and another with the rest.
PropagateTwice(w) ==
    LET moved == outputs[Pkt(w)] \intersect OutEdges(Node(w)) IN
    /\ pc[w] = "propagate"
    /\ holds[w]
    /\ \E n \in First(Destinations(Node(w))) : ready' = Queued(Pkt(w), n)
    /\ inputs' = [inputs EXCEPT ![Pkt(w)] = @ \union moved]
    /\ outputs' = [outputs EXCEPT ![Pkt(w)] = @ \ moved]
    /\ todo' = [todo EXCEPT ![w] = Destinations(Node(w))]
    /\ Goto(w, "add")
    /\ UNCHANGED <<appVars, table, finished, executor, task, holds, saw, taken, order, seenVars>>

\* DoPropagate: whatever the outputs hold by now moves to the inputs of the
\* destinations, and every destination gets a task.
Propagate(w) ==
    LET moved == outputs[Pkt(w)] \intersect OutEdges(Node(w)) IN
    /\ pc[w] = "propagate"
    /\ \/ ~holds[w] /\ Goto(w, "dead") /\ UNCHANGED <<dataVars, todo, left>>
       \/ /\ holds[w]
          /\ inputs' = [inputs EXCEPT ![Pkt(w)] = @ \union moved]
          /\ outputs' = [outputs EXCEPT ![Pkt(w)] = @ \ moved]
          /\ todo' = [todo EXCEPT ![w] = Destinations(Node(w))]
          /\ left' = IF KeepsOrder(Node(w))
                     THEN [left EXCEPT ![Node(w)] = Append(@, Pkt(w))]
                     ELSE left
          /\ Goto(w, "add")
    /\ UNCHANGED <<appVars, table, finished, queueVars, task, holds, saw, taken, order,
                   called>>

AddTask(w) ==
    /\ pc[w] = "add"
    /\ \E n \in First(todo[w]) :
        /\ ready' = Queued(Pkt(w), n)
        /\ todo' = [todo EXCEPT ![w] = @ \ {n}]
    /\ UNCHANGED <<appVars, table, finished, dataVars, executor, pc, task, holds, saw, taken,
                   order, seenVars>>

AllAdded(w) ==
    /\ pc[w] = "add"
    /\ todo[w] = {}
    /\ \/ KeepsOrder(Node(w)) /\ Goto(w, "setnext") /\ UNCHANGED localVars
       \/ ~KeepsOrder(Node(w)) /\ Return(w)
    /\ UNCHANGED <<appVars, table, finished, dataVars, queueVars, order, seenVars>>

\* SetNextPktId; the graph node returns here, any other node drains its heap.
SetNext(w) ==
    /\ pc[w] = "setnext"
    /\ order' = [order EXCEPT ![Node(w)] = AfterSetNextPktId(@, Pkt(w) + 1)]
    /\ \/ Node(w) = GraphNode /\ Return(w)
       \/ Node(w) # GraphNode /\ Goto(w, "drain") /\ UNCHANGED localVars
    /\ UNCHANGED <<appVars, table, finished, dataVars, queueVars, seenVars>>

TakeSmallest(w) ==
    /\ pc[w] = "drain"
    /\ \E p \in PktIds :
        /\ HasSmallestUnprocessedPkt(order[Node(w)], p)
        /\ order' = [order EXCEPT ![Node(w)] = AfterGetSmallestUnprocessedPkt(@, p)]
        /\ taken' = [taken EXCEPT ![w] = p]
        /\ Goto(w, IF SmallestHasContext(order[Node(w)], p) THEN "requeue" ELSE "dead")
    /\ UNCHANGED <<appVars, table, finished, dataVars, queueVars, task, holds, saw, todo,
                   seenVars>>

\* The priority of the new task is read through the packet's context.
Requeue(w) ==
    /\ pc[w] = "requeue"
    /\ \/ Alive(taken[w]) /\ ready' = Queued(taken[w], Node(w)) /\ Goto(w, "drain")
       \/ ~Alive(taken[w]) /\ Goto(w, "dead") /\ UNCHANGED ready
    /\ UNCHANGED <<appVars, table, finished, dataVars, executor, localVars, order, seenVars>>

EndDrain(w) ==
    /\ pc[w] = "drain"
    /\ \A p \in PktIds : ~HasSmallestUnprocessedPkt(order[Node(w)], p)
    /\ Return(w)
    /\ UNCHANGED <<appVars, table, finished, dataVars, queueVars, order, seenVars>>

Step(w) ==
    \/ Take(w) \/ Start(w) \/ GetNext(w) \/ Buffer(w) \/ Read(w) \/ Produce(w) \/ Finish(w)
    \/ CallBack(w) \/ Erase(w) \/ CheckOutput(w) \/ Propagate(w) \/ AddTask(w)
    \/ AllAdded(w) \/ SetNext(w) \/ TakeSmallest(w) \/ Requeue(w) \/ EndDrain(w)

Next ==
    \/ \E p \in PktIds : AddPacketAsync(p) \/ FlowControl(p) \/ AddFirstTask(p) \/ AddSkipPacket(p)
    \/ Schedule
    \/ \E w \in Workers : Step(w)

Spec == Init /\ [][Next]_vars

\* The scheduler thread and the executor's threads run, the application
\* submits its packets and its calls return.
FairSpec ==
    /\ Spec
    /\ WF_vars(Schedule)
    /\ \A w \in Workers : WF_vars(Step(w))
    /\ \A p \in PktIds :
        WF_vars(AddPacketAsync(p) \/ FlowControl(p) \/ AddFirstTask(p) \/ AddSkipPacket(p))

-----------------------------------------------------------------------------
(***************************************************************************)
(* Properties                                                              *)
(***************************************************************************)

\* A tap is a node nobody reads from.  In a line every node has at most one
\* input port and hands packages to at most one node besides taps.
Taps(g) == {n \in g.nodes \ {GraphNode} : \A e \in g.edges : e[1] # n}

IsLine(g) ==
    /\ \A e, f \in g.edges : e[2] = f[2] => e = f
    /\ \A e, f \in g.edges : e[1] = f[1] /\ {e[2], f[2]} \intersect Taps(g) = {} => e = f

\* The levels of the line rise from node to node, as GraphTopology gives them.
Climbs(g) ==
    /\ IsLine(g)
    /\ \A e \in g.edges : GraphNode \notin {e[1], e[2]} => g.level[e[1]] < g.level[e[2]]

\* Every node of the line hands on what it gets, and none waits for an order.
HandsOn(g) ==
    /\ IsLine(g)
    /\ \A e \in g.filters : e[2] \in Taps(g)
    /\ \A n \in g.nodes \ Taps(g) : \E e \in g.edges : e[1] = n /\ e[2] \notin Taps(g)
    /\ g.policy = "ordered" => g.ordered = {}

\* The variables keep their types.
TypeOK ==
    /\ graph \in Graphs
    /\ submit \in [PktIds -> {"new", "adding", "accepted", "refused", "skipped"}]
    /\ appTodo \in [PktIds -> SUBSET graph.nodes]
    /\ table \subseteq PktIds
    /\ finished \subseteq PktIds
    /\ inputs \in [PktIds -> SUBSET Edges]
    /\ outputs \in [PktIds -> SUBSET Edges]
    /\ ready \in [Lists -> Seq(Tasks)]
    /\ executor \in Seq(Tasks)
    /\ pc \in [Workers -> PC]
    /\ task \in [Workers -> Tasks]
    /\ holds \in [Workers -> BOOLEAN]
    /\ saw \in [Workers -> BOOLEAN]
    /\ todo \in [Workers -> SUBSET graph.nodes]
    /\ taken \in [Workers -> PktIds]
    /\ order \in [Ordered -> OrderRecord]
    /\ called \in Seq(PktIds)
    /\ left \in [Ordered -> Seq(PktIds)]

\* A thread that dereferences a context that is gone, or one the heap does not
\* have, is running the task of a tap whose packet has been called back: under
\* the ordered scheduler, which asks the context for its ids first, or with a
\* calculator that asks for it.  Every other task finds its packet's context.
LateAtTap(w) ==
    /\ Node(w) \in Taps(graph)
    /\ graph.policy = "ordered" \/ Node(w) \in graph.asks
    /\ Pkt(w) \in ToSet(called)

OnlyLateTapsCrash == \A w \in Workers : pc[w] = "dead" => LateAtTap(w)

\* The result callback is called once per packet.
CalledBackOnce ==
    \A i, j \in 1 .. Len(called) : called[i] = called[j] => i = j

\* When nothing is left to run, the table holds no context: a context that
\* stayed would take one of the places for ever.
Quiet ==
    /\ \A l \in Lists : ready[l] = <<>>
    /\ executor = <<>>
    /\ \A w \in Workers : pc[w] = "idle"
    /\ \A p \in Packets :
        submit[p] \in {"accepted", "skipped"} \union (IF graph.inTurn THEN {} ELSE {"refused"})

NothingLeaks == Quiet => table = {}

\* Every accepted packet is called back, also behind packets that were refused
\* and announced, unless a thread has crashed.
EveryPacketCalledBack ==
    \A p \in PktIds :
        submit[p] = "accepted" ~> p \in ToSet(called) \/ \E w \in Workers : pc[w] = "dead"

\* Packets leave an order-preserving node in order, wherever it stands in
\* the graph and whatever the nodes before it do to their order.
Delivery(n) == INSTANCE InOrderDelivery WITH
    Packets   <- PktIds,
    offered   <- {p \in PktIds : submit[p] \in {"adding", "accepted"}},
    skipped   <- {p \in PktIds : submit[p] = "skipped"},
    delivered <- left[n]

OrderedNodesDeliverInOrder ==
    [][\A n \in Ordered \ {GraphNode} : [Delivery(n)!Next]_(Delivery(n)!vars)]_vars
=============================================================================
