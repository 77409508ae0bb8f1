-------------------------- MODULE AsyncGraph_proofs --------------------------
(***************************************************************************)
(* Proofs about AsyncGraph, for any number of graphs, nodes, threads and   *)
(* packets.                                                                *)
(***************************************************************************)
EXTENDS AsyncGraph, OrderInformation_proofs

-----------------------------------------------------------------------------
(***************************************************************************)
(* The inductive invariant for lines.  A packet on its way is in one place *)
(* only: with the caller that adds its first task, in one list of the      *)
(* ready queue, in the executor's queue, with one thread, or in the heap   *)
(* of one node.  Tasks of taps do not count: nothing follows from them.    *)
(***************************************************************************)

Carries(t, p) == t.pkt = p /\ t.node \notin Taps(graph)
InList(s, p)  == \E i \in 1 .. Len(s) : Carries(s[i], p)
OnceIn(s, p)  == \A i, j \in 1 .. Len(s) : Carries(s[i], p) /\ Carries(s[j], p) => i = j

\* The task a thread runs has not been handed on yet.
InTask == {"start", "next", "buffer", "read", "produce", "output", "propagate"}

WithCaller(p)    == appTodo[p] \ Taps(graph) # {}
WithThread(w, p) ==
    \/ pc[w] \in InTask /\ Carries(task[w], p)
    \/ pc[w] = "add" /\ Pkt(w) = p /\ todo[w] \ Taps(graph) # {}
    \/ pc[w] \in {"callback", "erase"} /\ Pkt(w) = p
    \/ pc[w] = "requeue" /\ Node(w) \notin Taps(graph) /\ taken[w] = p
InHeap(n, p)     == n \notin Taps(graph) /\ order[n].heap[p] > 0

\* The packet is in the i-th place of the kind.
At(kind, i, p) ==
    \/ kind = "caller"   /\ i = 0          /\ WithCaller(p)
    \/ kind = "ready"    /\ i \in Lists    /\ InList(ready[i], p)
    \/ kind = "executor" /\ i = 0          /\ InList(executor, p)
    \/ kind = "thread"   /\ i \in Workers  /\ WithThread(i, p)
    \/ kind = "heap"     /\ i \in Ordered  /\ InHeap(i, p)

Kinds  == {"caller", "ready", "executor", "thread", "heap"}
Places == {0} \union Lists \union Workers \union Ordered

OnePlace ==
    \A p \in PktIds : \A a, b \in Kinds : \A i, j \in Places :
        At(a, i, p) /\ At(b, j, p) => a = b /\ i = j

OnceInLists ==
    \A p \in PktIds : OnceIn(executor, p) /\ \A l \in Lists : OnceIn(ready[l], p)

\* Where a packet is its context is in the table.
PlacedIsKept ==
    \A p \in PktIds : \A a \in Kinds : \A i \in Places : At(a, i, p) => p \in table

\* A packet that was not added is nowhere.
NotAddedIsNowhere ==
    \A p \in PktIds : submit[p] \in {"new", "refused", "skipped"} =>
        p \notin table /\ appTodo[p] = {} /\ p \notin ToSet(called)

TodoIsAhead ==
    /\ \A p \in PktIds : appTodo[p] \subseteq Destinations(GraphNode)
    /\ \A w \in Workers : pc[w] = "add" => todo[w] \subseteq Destinations(Node(w))

\* A packet that was called back is with the thread that erases it, or gone.
CalledIsLeaving ==
    \A p \in ToSet(called) : \A a \in Kinds : \A i \in Places :
        At(a, i, p) => a = "thread" /\ pc[i] = "erase"

RunsWithContext ==
    \A w \in Workers :
        /\ pc[w] \in InTask \ {"start"} /\ Node(w) \notin Taps(graph) => holds[w]
        /\ pc[w] = "propagate" => Node(w) \notin Taps(graph)

OnlyOrderedNodesKeepOrder ==
    /\ \A w \in Workers : pc[w] \in {"next", "buffer", "setnext", "drain", "requeue"} =>
        KeepsOrder(Node(w))
    /\ \A n \in Ordered : \A p \in PktIds : InHeap(n, p) => KeepsOrder(n)

OnlyGraphNodeCallsBack ==
    \A w \in Workers : pc[w] \in {"callback", "erase"} => Node(w) = GraphNode

\* Only the task of a tap may find its packet's context gone.
OnlyTapsCrash == \A w \in Workers : pc[w] = "dead" => Node(w) \in Taps(graph)

HeapHasContexts ==
    \A n \in Ordered : \A p \in PktIds :
        InHeap(n, p) => order[n].heap[p] = 1 /\ p \in order[n].ctxs

LineInv ==
    /\ OnePlace
    /\ OnceInLists
    /\ PlacedIsKept
    /\ NotAddedIsNowhere
    /\ TodoIsAhead
    /\ CalledIsLeaving
    /\ CalledBackOnce
    /\ RunsWithContext
    /\ OnlyOrderedNodesKeepOrder
    /\ OnlyGraphNodeCallsBack
    /\ HeapHasContexts
    /\ OnlyTapsCrash

IInv == TypeOK /\ (IsLine(graph) => LineInv)

(***************************************************************************)
(* What is added for lines that hand everything on: a task on its way      *)
(* finds the packages its node needs, so that nobody returns early, and    *)
(* every packet of the table is somewhere.                                 *)
(***************************************************************************)

IsTask(t, n, p)  == t.node = n /\ t.pkt = p
HasTask(s, n, p) == \E i \in 1 .. Len(s) : IsTask(s[i], n, p)
Onward(n)        == {e \in OutEdges(n) : e[2] \notin Taps(graph)}

\* Thread w has not processed node n for packet p yet, or adds a task for it.
WaitsAt(w, n, p) ==
    /\ Pkt(w) = p
    /\ \/ pc[w] \in {"start", "read"} /\ Node(w) = n
       \/ pc[w] = "add" /\ n \in todo[w]

\* Packet p has yet to be processed by node n.
Pending(n, p) ==
    \/ n \in appTodo[p]
    \/ \E l \in Lists : HasTask(ready[l], n, p)
    \/ HasTask(executor, n, p)
    \/ \E w \in Workers : WaitsAt(w, n, p)

Waits(n, p) == InEdges(n) # {} /\ InEdges(n) \subseteq inputs[p]

DataWaits ==
    \A p \in PktIds : \A n \in graph.nodes \ Taps(graph) : Pending(n, p) => Waits(n, p)

WorkHasData ==
    \A w \in Workers : Node(w) \notin Taps(graph) =>
        /\ pc[w] = "produce" => saw[w]
        /\ pc[w] \in {"output", "propagate"} => Onward(Node(w)) \subseteq outputs[Pkt(w)]

Somewhere(p) ==
    \/ \E n \in graph.nodes \ Taps(graph) : Pending(n, p)
    \/ \E w \in Workers : WithThread(w, p)

KeptIsSomewhere == \A p \in table : Somewhere(p)

AddedIsPacket ==
    \A p \in PktIds :
        /\ submit[p] # "new" => p \in Packets
        /\ appTodo[p] # {} => submit[p] = "adding"

FlowInv ==
    /\ DataWaits
    /\ WorkHasData
    /\ KeptIsSomewhere
    /\ AddedIsPacket

LeakInv == HandsOn(graph) => FlowInv

-----------------------------------------------------------------------------
(***************************************************************************)
(* Types, for every graph.                                                 *)
(***************************************************************************)

\* What the assumption on Graphs says of the chosen graph.
LEMMA TheGraph ==
    ASSUME TypeOK
    PROVE  /\ IsGraph(graph)
           /\ GraphNode \in graph.nodes /\ graph.nodes \subseteq Nat
           /\ Edges \subseteq graph.nodes \X graph.nodes
           /\ Ordered \subseteq graph.nodes
           /\ graph.level \in [graph.nodes -> Nat]
           /\ \A n \in graph.nodes : graph.level[n] \in Lists
           /\ \A n : Destinations(n) \subseteq graph.nodes
           /\ \A n : OutEdges(n) \subseteq Edges /\ InEdges(n) \subseteq Edges
<1>1. IsGraph(graph)
  BY GraphAssumption DEF TypeOK
<1>2. \A n \in graph.nodes : graph.level[n] \in Lists
  BY DEF Lists
<1>3. /\ GraphNode \in graph.nodes /\ graph.nodes \subseteq Nat
      /\ Edges \subseteq graph.nodes \X graph.nodes
      /\ Ordered \subseteq graph.nodes
      /\ graph.level \in [graph.nodes -> Nat]
  BY <1>1 DEF IsGraph, Edges, Ordered
<1>4. \A n : OutEdges(n) \subseteq Edges /\ InEdges(n) \subseteq Edges
  BY DEF OutEdges, InEdges
<1>5. \A n : Destinations(n) \subseteq graph.nodes
  BY <1>3, <1>4 DEF Destinations
<1>. QED
  BY <1>1, <1>2, <1>3, <1>4, <1>5

\* A new task joins the list of its node's level.
LEMMA QueuedTypes ==
    ASSUME TypeOK, NEW p \in PktIds, NEW n \in graph.nodes
    PROVE  /\ Queued(p, n) \in [Lists -> Seq(Tasks)]
           /\ graph.level[n] \in Lists
           /\ [pkt |-> p, node |-> n] \in Tasks
           /\ Queued(p, n)[graph.level[n]]
                = Append(ready[graph.level[n]], [pkt |-> p, node |-> n])
           /\ \A l \in Lists \ {graph.level[n]} : Queued(p, n)[l] = ready[l]
<1>1. graph.level[n] \in Lists
  BY TheGraph
<1>2. [pkt |-> p, node |-> n] \in Tasks
  BY DEF Tasks
<1>3. ready \in [Lists -> Seq(Tasks)]
  BY DEF TypeOK
<1>4. Append(ready[graph.level[n]], [pkt |-> p, node |-> n]) \in Seq(Tasks)
  BY <1>1, <1>2, <1>3
<1>. QED
  BY <1>1, <1>2, <1>3, <1>4 DEF Queued

LEMMA InitTypes == Init => TypeOK
<1>. SUFFICES ASSUME Init PROVE TypeOK
  OBVIOUS
<1>. USE NumPktsAssumption
<1>1. IsGraph(graph) /\ graph \in Graphs
  BY GraphAssumption DEF Init
<1>2. 0 \in PktIds /\ GraphNode \in graph.nodes
  BY <1>1 DEF IsGraph, PktIds
<1>3. /\ submit \in [PktIds -> {"new", "adding", "accepted", "refused", "skipped"}]
      /\ appTodo \in [PktIds -> SUBSET graph.nodes]
      /\ table \subseteq PktIds /\ finished \subseteq PktIds
      /\ inputs \in [PktIds -> SUBSET Edges] /\ outputs \in [PktIds -> SUBSET Edges]
  BY DEF Init
<1>4. ready \in [Lists -> Seq(Tasks)] /\ executor \in Seq(Tasks)
  BY DEF Init
<1>5. pc \in [Workers -> PC] /\ task \in [Workers -> Tasks]
  BY <1>2 DEF Init, PC, Tasks
<1>6. holds \in [Workers -> BOOLEAN] /\ saw \in [Workers -> BOOLEAN]
  BY DEF Init
<1>7. todo \in [Workers -> SUBSET graph.nodes] /\ taken \in [Workers -> PktIds]
  BY <1>2 DEF Init
<1>8. EmptyOrder \in OrderRecord
  BY MaxIntAssumption DEF EmptyOrder, OrderRecord
<1>9. order \in [Ordered -> OrderRecord]
  BY <1>8 DEF Init
<1>10. called \in Seq(PktIds) /\ left \in [Ordered -> Seq(PktIds)]
  BY DEF Init
<1>. QED
  BY <1>1, <1>3, <1>4, <1>5, <1>6, <1>7, <1>9, <1>10 DEF TypeOK

\* What depends on the graph alone does not change with the graph.
LEMMA SameGraph ==
    ASSUME graph' = graph
    PROVE  /\ Edges' = Edges /\ Ordered' = Ordered /\ Lists' = Lists /\ Tasks' = Tasks
           /\ Packets' = Packets /\ Taps(graph)' = Taps(graph)
           /\ \A n : OutEdges(n)' = OutEdges(n) /\ InEdges(n)' = InEdges(n)
           /\ \A n : Destinations(n)' = Destinations(n) /\ KeepsOrder(n)' = KeepsOrder(n)
<1>1. Edges' = Edges
  BY DEF Edges
<1>2. \A n : OutEdges(n)' = OutEdges(n) /\ InEdges(n)' = InEdges(n)
  BY <1>1 DEF OutEdges, InEdges
<1>3. \A n : Destinations(n)' = Destinations(n)
  BY <1>2 DEF Destinations
<1>4. Ordered' = Ordered
  BY DEF Ordered
<1>5. \A n : KeepsOrder(n)' = KeepsOrder(n)
  BY <1>4 DEF KeepsOrder
<1>6. Lists' = Lists /\ Tasks' = Tasks /\ Packets' = Packets /\ Taps(graph)' = Taps(graph)
  BY DEF Lists, Tasks, Packets, Taps
<1>. QED
  BY <1>1, <1>2, <1>3, <1>4, <1>5, <1>6

\* The types of a step's results, with the graph of the state before it.
LEMMA TypesAfter ==
    ASSUME TypeOK, graph' = graph,
           submit' \in [PktIds -> {"new", "adding", "accepted", "refused", "skipped"}],
           appTodo' \in [PktIds -> SUBSET graph.nodes],
           table' \subseteq PktIds, finished' \subseteq PktIds,
           inputs' \in [PktIds -> SUBSET Edges], outputs' \in [PktIds -> SUBSET Edges],
           ready' \in [Lists -> Seq(Tasks)], executor' \in Seq(Tasks),
           pc' \in [Workers -> PC], task' \in [Workers -> Tasks],
           holds' \in [Workers -> BOOLEAN], saw' \in [Workers -> BOOLEAN],
           todo' \in [Workers -> SUBSET graph.nodes], taken' \in [Workers -> PktIds],
           order' \in [Ordered -> OrderRecord],
           called' \in Seq(PktIds), left' \in [Ordered -> Seq(PktIds)]
    PROVE  TypeOK'
  BY SameGraph, Zenon DEF TypeOK

\* The calls of the application and the scheduler thread keep the types.
LEMMA CallerTypes ==
    ASSUME TypeOK,
           Schedule \/ \E p \in PktIds :
               AddPacketAsync(p) \/ FlowControl(p) \/ AddFirstTask(p) \/ AddSkipPacket(p)
    PROVE  TypeOK'
<1>. USE DEF TypeOK, appVars, dataVars, queueVars, localVars, seenVars
<1>1. CASE Schedule
  <2>1. PICK l \in 0 .. NumPriorities - 1 :
            /\ ready[l] # <<>>
            /\ executor' = Append(executor, Head(ready[l]))
            /\ ready' = [ready EXCEPT ![l] = Tail(@)]
    BY <1>1 DEF Schedule
  <2>2. l \in Lists
    BY SchedulerAssumption DEF Lists
  <2>3. Head(ready[l]) \in Tasks /\ Tail(ready[l]) \in Seq(Tasks)
    BY <2>1, <2>2
  <2>4. executor' \in Seq(Tasks) /\ ready' \in [Lists -> Seq(Tasks)]
    BY <2>1, <2>2, <2>3
  <2>. QED
    BY <1>1, <2>4, TypesAfter DEF Schedule
<1>2. ASSUME NEW p \in PktIds, AddPacketAsync(p) PROVE TypeOK'
  <2>1. /\ inputs' \in [PktIds -> SUBSET Edges] /\ table' \subseteq PktIds
        /\ appTodo' \in [PktIds -> SUBSET graph.nodes]
        /\ submit' \in [PktIds -> {"new", "adding", "accepted", "refused", "skipped"}]
    BY <1>2, TheGraph DEF AddPacketAsync
  <2>. QED
    BY <1>2, <2>1, TypesAfter DEF AddPacketAsync
<1>3. ASSUME NEW p \in PktIds, FlowControl(p) PROVE TypeOK'
  BY <1>3, TypesAfter DEF FlowControl
<1>4. ASSUME NEW p \in PktIds, AddFirstTask(p) PROVE TypeOK'
  <2>1. PICK n \in First(appTodo[p]) :
            /\ ready' = Queued(p, n)
            /\ appTodo' = [appTodo EXCEPT ![p] = @ \ {n}]
            /\ submit' = IF appTodo[p] = {n} THEN [submit EXCEPT ![p] = "accepted"] ELSE submit
    BY <1>4 DEF AddFirstTask
  <2>2. n \in graph.nodes
    BY DEF First
  <2>3. ready' \in [Lists -> Seq(Tasks)]
    BY <2>1, <2>2, QueuedTypes
  <2>4. /\ appTodo' \in [PktIds -> SUBSET graph.nodes]
        /\ submit' \in [PktIds -> {"new", "adding", "accepted", "refused", "skipped"}]
    BY <2>1
  <2>. QED
    BY <1>4, <2>3, <2>4, TypesAfter DEF AddFirstTask
<1>5. ASSUME NEW p \in PktIds, AddSkipPacket(p) PROVE TypeOK'
  <2>1. order' \in [Ordered -> OrderRecord]
    BY <1>5, AddSkipLeaves DEF AddSkipPacket
  <2>2. submit' \in [PktIds -> {"new", "adding", "accepted", "refused", "skipped"}]
    BY <1>5 DEF AddSkipPacket
  <2>. QED
    BY <1>5, <2>1, <2>2, TypesAfter DEF AddSkipPacket
<1>. QED
  BY <1>1, <1>2, <1>3, <1>4, <1>5

\* The steps of a thread keep the types.
LEMMA WorkerTypes ==
    ASSUME TypeOK, NEW w \in Workers, Step(w)
    PROVE  TypeOK'
<1>. USE DEF TypeOK, appVars, dataVars, queueVars, localVars, seenVars, Goto, Return
<1>0. /\ task[w] \in Tasks /\ Pkt(w) \in PktIds /\ Node(w) \in graph.nodes
      /\ PC = PC \union {"idle", "start", "next", "buffer", "read", "produce", "output",
                        "propagate", "add", "callback", "erase", "setnext", "drain",
                        "requeue", "dead"}
  BY DEF Tasks, Pkt, Node, PC
<1>1. ASSUME NEW o, o \in OrderRecord \/ Node(w) \notin Ordered
      PROVE  [order EXCEPT ![Node(w)] = o] \in [Ordered -> OrderRecord]
  BY <1>1
<1>2. CASE Take(w)
  <2>1. Head(executor) \in Tasks /\ executor' \in Seq(Tasks)
    BY <1>2 DEF Take
  <2>. QED
    BY <1>0, <1>2, <2>1, TypesAfter DEF Take
<1>3. CASE Start(w)
  <2>1. Alive(Pkt(w)) \in BOOLEAN
    BY DEF Alive
  <2>2. pc' \in [Workers -> PC]
    BY <1>0, <1>3 DEF Start
  <2>3. holds' \in [Workers -> BOOLEAN]
    BY <1>3, <2>1 DEF Start
  <2>. QED
    BY <1>3, <2>2, <2>3, TypesAfter DEF Start
<1>4. CASE GetNext(w)
  <2>1. order' \in [Ordered -> OrderRecord]
    BY <1>0, <1>1, <1>4, NextOperationsLeave DEF GetNext
  <2>2. pc' \in [Workers -> PC]
    BY <1>0, <1>4 DEF GetNext
  <2>. QED
    BY <1>4, <2>1, <2>2, TypesAfter DEF GetNext
<1>5. CASE Buffer(w)
  <2>1. order' \in [Ordered -> OrderRecord]
    BY <1>0, <1>1, <1>5, HeapOperationsLeave DEF Buffer
  <2>. QED
    BY <1>0, <1>5, <2>1, TypesAfter DEF Buffer
<1>6. CASE Read(w)
  <2>1. saw' \in [Workers -> BOOLEAN] /\ pc' \in [Workers -> PC]
    BY <1>0, <1>6 DEF Read
  <2>. QED
    BY <1>6, <2>1, TypesAfter DEF Read
<1>7. CASE Produce(w)
  <2>1. CASE AsksInVain(w)
    <3>1. inputs' = inputs /\ outputs' = outputs /\ pc' = [pc EXCEPT ![w] = "dead"]
      BY <1>7, <2>1, Zenon DEF Produce
    <3>2. pc' \in [Workers -> PC]
      BY <1>0, <3>1
    <3>. QED
      BY <1>7, <3>1, <3>2, TypesAfter DEF Produce
  <2>2. CASE ~AsksInVain(w)
    <3>1. PICK filled \in SUBSET OutEdges(Node(w)) :
              /\ outputs' = [outputs EXCEPT ![Pkt(w)] = @ \union filled]
              /\ inputs' = [inputs EXCEPT ![Pkt(w)] = @ \ InEdges(Node(w))]
              /\ pc' = [pc EXCEPT ![w] = "output"]
      BY <1>7, <2>2, Zenon DEF Produce
    <3>2. outputs' \in [PktIds -> SUBSET Edges]
      BY <3>1, <1>0, TheGraph
    <3>3. inputs' \in [PktIds -> SUBSET Edges] /\ pc' \in [Workers -> PC]
      BY <1>0, <3>1
    <3>. QED
      BY <1>7, <3>2, <3>3, TypesAfter DEF Produce
  <2>. QED
    BY <2>1, <2>2
<1>8. CASE Finish(w)
  <2>1. finished' \subseteq PktIds /\ pc' \in [Workers -> PC]
    BY <1>0, <1>8 DEF Finish
  <2>. QED
    BY <1>8, <2>1, TypesAfter DEF Finish
<1>9. CASE CallBack(w)
  <2>1. called' \in Seq(PktIds) /\ pc' \in [Workers -> PC]
    BY <1>0, <1>9 DEF CallBack
  <2>. QED
    BY <1>9, <2>1, TypesAfter DEF CallBack
<1>10. CASE Erase(w)
  <2>1. table' \subseteq PktIds /\ pc' \in [Workers -> PC] /\ holds' \in [Workers -> BOOLEAN]
    BY <1>0, <1>10 DEF Erase
  <2>. QED
    BY <1>10, <2>1, TypesAfter DEF Erase
<1>11. CASE CheckOutput(w)
  <2>1. pc' \in [Workers -> PC] /\ holds' \in [Workers -> BOOLEAN]
    BY <1>0, <1>11 DEF CheckOutput
  <2>. QED
    BY <1>11, <2>1, TypesAfter DEF CheckOutput
<1>12. CASE Propagate(w)
  <2>1. pc' \in [Workers -> PC]
    BY <1>0, <1>12 DEF Propagate
  <2>2. inputs' \in [PktIds -> SUBSET Edges] /\ outputs' \in [PktIds -> SUBSET Edges]
    <3>. DEFINE moved == outputs[Pkt(w)] \intersect OutEdges(Node(w))
    <3>1. \/ inputs' = inputs /\ outputs' = outputs
          \/ /\ inputs' = [inputs EXCEPT ![Pkt(w)] = @ \union moved]
             /\ outputs' = [outputs EXCEPT ![Pkt(w)] = @ \ moved]
      BY <1>12, Zenon DEF Propagate
    <3>2. moved \subseteq Edges
      BY <1>0
    <3>. HIDE DEF moved
    <3>3. [inputs EXCEPT ![Pkt(w)] = @ \union moved] \in [PktIds -> SUBSET Edges]
      BY <1>0, <3>2
    <3>4. [outputs EXCEPT ![Pkt(w)] = @ \ moved] \in [PktIds -> SUBSET Edges]
      BY <1>0
    <3>. QED
      BY <3>1, <3>3, <3>4, Zenon
  <2>3. todo' \in [Workers -> SUBSET graph.nodes]
    <3>1. todo' = todo \/ todo' = [todo EXCEPT ![w] = Destinations(Node(w))]
      BY <1>12, Zenon DEF Propagate
    <3>2. Destinations(Node(w)) \subseteq graph.nodes
      BY TheGraph
    <3>. QED
      BY <3>1, <3>2
  <2>4. left' \in [Ordered -> Seq(PktIds)]
    <3>1. CASE KeepsOrder(Node(w)) /\ holds[w]
      <4>1. Node(w) \in Ordered /\ Append(left[Node(w)], Pkt(w)) \in Seq(PktIds)
        BY <1>0, <3>1 DEF KeepsOrder
      <4>. QED
        BY <1>12, <3>1, <4>1 DEF Propagate
    <3>. QED
      BY <1>12, <3>1 DEF Propagate
  <2>. QED
    BY <1>12, <2>1, <2>2, <2>3, <2>4, TypesAfter DEF Propagate
<1>13. CASE AddTask(w)
  <2>1. PICK n \in First(todo[w]) :
            /\ ready' = Queued(Pkt(w), n)
            /\ todo' = [todo EXCEPT ![w] = @ \ {n}]
    BY <1>13 DEF AddTask
  <2>2. n \in graph.nodes
    BY DEF First
  <2>3. ready' \in [Lists -> Seq(Tasks)] /\ todo' \in [Workers -> SUBSET graph.nodes]
    BY <1>0, <2>1, <2>2, QueuedTypes
  <2>. QED
    BY <1>13, <2>3, TypesAfter DEF AddTask
<1>14. CASE AllAdded(w)
  <2>1. pc' \in [Workers -> PC] /\ holds' \in [Workers -> BOOLEAN]
    BY <1>0, <1>14 DEF AllAdded
  <2>. QED
    BY <1>14, <2>1, TypesAfter DEF AllAdded
<1>15. CASE SetNext(w)
  <2>1. order' \in [Ordered -> OrderRecord]
    BY <1>0, <1>1, <1>15, NextOperationsLeave DEF SetNext
  <2>2. pc' \in [Workers -> PC] /\ holds' \in [Workers -> BOOLEAN]
    BY <1>0, <1>15 DEF SetNext
  <2>. QED
    BY <1>15, <2>1, <2>2, TypesAfter DEF SetNext
<1>16. CASE TakeSmallest(w)
  <2>1. PICK p \in PktIds :
            /\ HasSmallestUnprocessedPkt(order[Node(w)], p)
            /\ order' = [order EXCEPT ![Node(w)] = AfterGetSmallestUnprocessedPkt(@, p)]
            /\ taken' = [taken EXCEPT ![w] = p]
            /\ Goto(w, IF SmallestHasContext(order[Node(w)], p) THEN "requeue" ELSE "dead")
    BY <1>16 DEF TakeSmallest
  <2>2. order' \in [Ordered -> OrderRecord]
    BY <1>0, <1>1, <2>1, HeapOperationsLeave DEF HasSmallestUnprocessedPkt
  <2>3. pc' \in [Workers -> PC] /\ taken' \in [Workers -> PktIds]
    BY <1>0, <2>1
  <2>. QED
    BY <1>16, <2>2, <2>3, TypesAfter DEF TakeSmallest
<1>17. CASE Requeue(w)
  <2>1. pc' \in [Workers -> PC] /\ ready' \in [Lists -> Seq(Tasks)]
    <3>1. taken[w] \in PktIds
      OBVIOUS
    <3>2. Queued(taken[w], Node(w)) \in [Lists -> Seq(Tasks)]
      BY <1>0, <3>1, QueuedTypes
    <3>. HIDE DEF TypeOK
    <3>3. ready' = ready \/ ready' = Queued(taken[w], Node(w))
      BY <1>17, Zenon DEF Requeue
    <3>4. pc' = [pc EXCEPT ![w] = "drain"] \/ pc' = [pc EXCEPT ![w] = "dead"]
      BY <1>17, Zenon DEF Requeue
    <3>. QED
      BY <1>0, <3>2, <3>3, <3>4 DEF TypeOK
  <2>. QED
    BY <1>17, <2>1, TypesAfter DEF Requeue
<1>18. CASE EndDrain(w)
  BY <1>0, <1>18, TypesAfter DEF EndDrain
<1>. QED
  BY <1>2, <1>3, <1>4, <1>5, <1>6, <1>7, <1>8, <1>9, <1>10, <1>11, <1>12, <1>13, <1>14,
     <1>15, <1>16, <1>17, <1>18 DEF Step

LEMMA TypesKept == ASSUME TypeOK, [Next]_vars PROVE TypeOK'
<1>1. CASE Next
  BY <1>1, CallerTypes, WorkerTypes DEF Next
<1>2. CASE UNCHANGED vars
  BY <1>2, TypesAfter DEF vars, appVars, dataVars, queueVars, localVars, seenVars, TypeOK
<1>. QED
  BY <1>1, <1>2

\* The variables keep their types, whatever the graphs are.
THEOREM TypeCorrect == Spec => []TypeOK
  BY InitTypes, TypesKept, PTL DEF Spec

-----------------------------------------------------------------------------
(***************************************************************************)
(* Lines: the places of a packet.                                          *)
(***************************************************************************)

\* Adding a task at the end of a list, and taking the first one.
LEMMA AppendedList ==
    ASSUME NEW s \in Seq(Tasks), NEW t \in Tasks, NEW p
    PROVE  /\ InList(Append(s, t), p) <=> InList(s, p) \/ Carries(t, p)
           /\ OnceIn(s, p) /\ ~(InList(s, p) /\ Carries(t, p)) => OnceIn(Append(s, t), p)
<1>. DEFINE r == Append(s, t)
<1>1. /\ Len(r) = Len(s) + 1 /\ r[Len(s) + 1] = t /\ Len(s) \in Nat
      /\ \A i \in 1 .. Len(s) : r[i] = s[i]
  OBVIOUS
<1>. HIDE DEF r
<1>2. Len(s) + 1 \in 1 .. Len(r) /\ \A i \in 1 .. Len(s) : i \in 1 .. Len(r)
  BY <1>1
<1>3. InList(r, p) <=> InList(s, p) \/ Carries(t, p)
  <2>1. ASSUME NEW i \in 1 .. Len(r), Carries(r[i], p) PROVE InList(s, p) \/ Carries(t, p)
    <3>1. i \in 1 .. Len(s) \/ i = Len(s) + 1
      BY <1>1
    <3>. QED
      BY <1>1, <2>1, <3>1 DEF InList
  <2>2. Carries(t, p) => InList(r, p)
    BY <1>1, <1>2, Zenon DEF InList
  <2>3. InList(s, p) => InList(r, p)
    BY <1>1, <1>2 DEF InList
  <2>. QED
    BY <2>1, <2>2, <2>3 DEF InList
<1>4. ASSUME OnceIn(s, p), ~(InList(s, p) /\ Carries(t, p)) PROVE OnceIn(r, p)
  <2>1. SUFFICES ASSUME NEW i \in 1 .. Len(r), NEW j \in 1 .. Len(r),
                        Carries(r[i], p), Carries(r[j], p)
                 PROVE  i = j
    BY DEF OnceIn
  <2>2. (i \in 1 .. Len(s) \/ i = Len(s) + 1) /\ (j \in 1 .. Len(s) \/ j = Len(s) + 1)
    BY <1>1
  <2>3. CASE i \in 1 .. Len(s) /\ j \in 1 .. Len(s)
    BY <1>1, <1>4, <2>1, <2>3 DEF OnceIn
  <2>4. ~(i \in 1 .. Len(s) /\ j = Len(s) + 1) /\ ~(j \in 1 .. Len(s) /\ i = Len(s) + 1)
    BY <1>1, <1>4, <2>1 DEF InList
  <2>. QED
    BY <2>2, <2>3, <2>4
<1>. QED
  BY <1>3, <1>4 DEF r

LEMMA TailOfList ==
    ASSUME NEW s \in Seq(Tasks), s # <<>>, NEW p, OnceIn(s, p)
    PROVE  /\ InList(Tail(s), p) => InList(s, p)
           /\ Carries(Head(s), p) => InList(s, p) /\ ~InList(Tail(s), p)
           /\ OnceIn(Tail(s), p)
<1>. DEFINE r == Tail(s)
<1>1. /\ Len(s) \in Nat /\ Len(s) >= 1 /\ Len(r) = Len(s) - 1 /\ Head(s) = s[1]
      /\ \A i \in 1 .. Len(r) : r[i] = s[i + 1]
  OBVIOUS
<1>. HIDE DEF r
<1>2. \A i \in 1 .. Len(r) : i + 1 \in 1 .. Len(s)
  BY <1>1
<1>3. 1 \in 1 .. Len(s)
  BY <1>1
<1>4. InList(r, p) => InList(s, p)
  BY <1>1, <1>2, Zenon DEF InList
<1>5. Carries(Head(s), p) => InList(s, p)
  BY <1>1, <1>3, Zenon DEF InList
<1>6. Carries(Head(s), p) => ~InList(r, p)
  <2>. SUFFICES ASSUME Carries(s[1], p), NEW i \in 1 .. Len(r), Carries(s[i + 1], p)
                PROVE  FALSE
    BY <1>1 DEF InList
  <2>1. i + 1 = 1
    BY <1>2, <1>3, Zenon DEF OnceIn
  <2>. QED
    BY <2>1
<1>7. OnceIn(r, p)
  <2>. SUFFICES ASSUME NEW i \in 1 .. Len(r), NEW j \in 1 .. Len(r),
                       Carries(r[i], p), Carries(r[j], p)
                PROVE  i = j
    BY DEF OnceIn
  <2>1. i + 1 = j + 1
    BY <1>1, <1>2, Zenon DEF OnceIn
  <2>. QED
    BY <2>1
<1>. QED
  BY <1>4, <1>5, <1>6, <1>7 DEF r

\* A place a step leaves alone holds the packets it held.
LEMMA Unmoved ==
    ASSUME graph' = graph
    PROVE  /\ appTodo' = appTodo => \A p : WithCaller(p)' <=> WithCaller(p)
           /\ \A l, p : ready'[l] = ready[l] => (InList(ready[l], p)' <=> InList(ready[l], p))
           /\ \A p : executor' = executor => (InList(executor, p)' <=> InList(executor, p))
           /\ order' = order => \A n, p : InHeap(n, p)' <=> InHeap(n, p)
           /\ \A w, p : /\ pc'[w] = pc[w] /\ task'[w] = task[w]
                        /\ todo'[w] = todo[w] /\ taken'[w] = taken[w]
                        => (WithThread(w, p)' <=> WithThread(w, p))
<1>1. Taps(graph)' = Taps(graph)
  BY SameGraph
<1>2. appTodo' = appTodo => \A p : WithCaller(p)' <=> WithCaller(p)
  BY <1>1 DEF WithCaller
<1>3. \A l, p : ready'[l] = ready[l] => (InList(ready[l], p)' <=> InList(ready[l], p))
  BY <1>1 DEF InList, Carries
<1>4. \A p : executor' = executor => (InList(executor, p)' <=> InList(executor, p))
  BY <1>1 DEF InList, Carries
<1>5. order' = order => \A n, p : InHeap(n, p)' <=> InHeap(n, p)
  BY <1>1 DEF InHeap
<1>6. ASSUME NEW w, NEW p, pc'[w] = pc[w], task'[w] = task[w], todo'[w] = todo[w],
             taken'[w] = taken[w]
      PROVE  WithThread(w, p)' <=> WithThread(w, p)
  BY <1>1, <1>6 DEF WithThread, Carries, Pkt, Node
<1>. QED
  BY <1>2, <1>3, <1>4, <1>5, <1>6

\* Lists that do not change have no packet twice afterwards either.
LEMMA SameLists ==
    ASSUME graph' = graph, ready' = ready, executor' = executor, OnceInLists
    PROVE  OnceInLists'
<1>1. Taps(graph)' = Taps(graph) /\ Lists' = Lists
  BY SameGraph
<1>. QED
  BY <1>1 DEF OnceInLists, OnceIn, Carries

\* A step after which the packets are where they were or nowhere.
LEMMA Fewer ==
    ASSUME OnePlace, PlacedIsKept, CalledIsLeaving,
           Places' = Places, called' = called, table \subseteq table',
           \A w \in Workers : pc[w] = "erase" => pc'[w] = "erase",
           \A p \in PktIds : \A a \in Kinds : \A i \in Places : At(a, i, p)' => At(a, i, p),
           ToSet(called) \subseteq PktIds
    PROVE  OnePlace' /\ PlacedIsKept' /\ CalledIsLeaving'
<1>1. OnePlace'
  BY DEF OnePlace
<1>2. PlacedIsKept'
  BY DEF PlacedIsKept
<1>3. ToSet(called)' = ToSet(called)
  BY DEF ToSet
<1>4. \A i, p : At("thread", i, p) => i \in Workers
  BY DEF At
<1>5. CalledIsLeaving'
  BY <1>3, <1>4 DEF CalledIsLeaving
<1>. QED
  BY <1>1, <1>2, <1>5

\* A step that moves packet q from one place to another one.
LEMMA Moves ==
    ASSUME OnePlace, PlacedIsKept, CalledIsLeaving,
           Places' = Places, called' = called, table \subseteq table',
           \A w \in Workers : pc[w] = "erase" => pc'[w] = "erase",
           ToSet(called) \subseteq PktIds,
           NEW q \in PktIds, NEW a \in Kinds, NEW b \in Kinds, NEW i \in Places, NEW j \in Places,
           At(a, i, q), ~At(a, i, q)', ~(a = "thread" /\ pc[i] = "erase"),
           \A p \in PktIds : \A c \in Kinds : \A k \in Places :
               At(c, k, p)' => At(c, k, p) \/ (p = q /\ c = b /\ k = j)
    PROVE  OnePlace' /\ PlacedIsKept' /\ CalledIsLeaving'
<1>1. \A c \in Kinds : \A k \in Places : At(c, k, q)' => c = b /\ k = j
  BY DEF OnePlace
<1>2. \A p \in PktIds \ {q} : \A c \in Kinds : \A k \in Places : At(c, k, p)' => At(c, k, p)
  OBVIOUS
<1>3. OnePlace'
  BY <1>1, <1>2 DEF OnePlace
<1>4. q \in table /\ q \notin ToSet(called)
  BY DEF PlacedIsKept, CalledIsLeaving
<1>5. PlacedIsKept'
  BY <1>2, <1>4 DEF PlacedIsKept
<1>6. ToSet(called)' = ToSet(called)
  BY DEF ToSet
<1>7. \A k, p : At("thread", k, p) => k \in Workers
  BY DEF At
<1>8. CalledIsLeaving'
  BY <1>2, <1>4, <1>6, <1>7 DEF CalledIsLeaving
<1>. QED
  BY <1>3, <1>5, <1>8

\* A packet with a thread has its context in the table.
LEMMA InHandIsKept ==
    ASSUME PlacedIsKept, NEW w \in Workers, NEW p \in PktIds, WithThread(w, p)
    PROVE  p \in table
  BY DEF PlacedIsKept, At, Kinds, Places

\* A step of thread w that leaves the queues and the heaps alone, and after
\* which the thread has no packet it did not have before.
LEMMA KeepsInHand ==
    ASSUME TypeOK, OnePlace, PlacedIsKept, CalledIsLeaving, NEW w \in Workers, graph' = graph,
           appTodo' = appTodo, ready' = ready, executor' = executor,
           called' = called, table' = table, pc[w] # "erase",
           \A n \in Ordered : \A p \in PktIds : InHeap(n, p)' => InHeap(n, p),
           \A v \in Workers \ {w} :
               /\ pc'[v] = pc[v] /\ task'[v] = task[v]
               /\ todo'[v] = todo[v] /\ taken'[v] = taken[v],
           \A p \in PktIds : WithThread(w, p)' => WithThread(w, p)
    PROVE  OnePlace' /\ PlacedIsKept' /\ CalledIsLeaving'
<1>1. \A v \in Workers : \A p \in PktIds : WithThread(v, p)' => WithThread(v, p)
  BY Unmoved
<1>2. \A p \in PktIds : WithCaller(p)' => WithCaller(p)
  BY Unmoved
<1>3. \A p \in PktIds : \A l : InList(ready[l], p)' => InList(ready[l], p)
  BY Unmoved
<1>4. \A p \in PktIds : InList(executor, p)' => InList(executor, p)
  BY Unmoved
<1>5. Lists' = Lists /\ Ordered' = Ordered
  BY SameGraph
<1>6. \A p \in PktIds : \A a \in Kinds : \A i \in Places : At(a, i, p)' => At(a, i, p)
  BY <1>1, <1>2, <1>3, <1>4, <1>5 DEF At
<1>7. Places' = Places
  BY <1>5 DEF Places
<1>8. ToSet(called) \subseteq PktIds
  BY DEF ToSet, TypeOK
<1>9. \A v \in Workers : pc[v] = "erase" => pc'[v] = "erase"
  OBVIOUS
<1>. QED
  BY <1>6, <1>7, <1>8, <1>9, Fewer

\* The rest of the invariant after a step of thread w: what has to be shown
\* of that thread.
LEMMA LineAfterStep ==
    ASSUME TypeOK, LineInv, NEW w \in Workers, graph' = graph,
           appTodo' = appTodo, submit' = submit, table' \subseteq table,
           \A v \in Workers \ {w} :
               /\ pc'[v] = pc[v] /\ task'[v] = task[v] /\ todo'[v] = todo[v]
               /\ holds'[v] = holds[v],
           \A p \in ToSet(called)' : p \in ToSet(called) \/ p \in table,
           OnePlace', PlacedIsKept', CalledIsLeaving', OnceInLists', CalledBackOnce',
           HeapHasContexts',
           \A n \in Ordered : \A p \in PktIds : InHeap(n, p)' => InHeap(n, p) \/ KeepsOrder(n),
           pc'[w] = "dead" => task'[w].node \in Taps(graph),
           pc'[w] = "add" => todo'[w] \subseteq Destinations(task'[w].node),
           pc'[w] \in InTask \ {"start"} /\ task'[w].node \notin Taps(graph) => holds'[w],
           pc'[w] = "propagate" => task'[w].node \notin Taps(graph),
           pc'[w] \in {"next", "buffer", "setnext", "drain", "requeue"} => KeepsOrder(task'[w].node),
           pc'[w] \in {"callback", "erase"} => task'[w].node = GraphNode
    PROVE  LineInv'
<1>. USE SameGraph
<1>1. NotAddedIsNowhere'
  BY DEF LineInv, NotAddedIsNowhere
<1>2. TodoIsAhead'
  BY DEF LineInv, TodoIsAhead, Node
<1>3. RunsWithContext'
  <2>1. ASSUME NEW v \in Workers
        PROVE  /\ pc'[v] \in InTask \ {"start"} /\ task'[v].node \notin Taps(graph) => holds'[v]
               /\ pc'[v] = "propagate" => task'[v].node \notin Taps(graph)
    BY DEF LineInv, RunsWithContext, Node
  <2>. QED
    BY <2>1 DEF RunsWithContext, Node, InTask
<1>4. OnlyOrderedNodesKeepOrder'
  <2>1. \A v \in Workers : pc'[v] \in {"next", "buffer", "setnext", "drain", "requeue"} =>
            KeepsOrder(task'[v].node)
    BY DEF LineInv, OnlyOrderedNodesKeepOrder, Node
  <2>2. \A n \in Ordered : \A p \in PktIds : InHeap(n, p)' => KeepsOrder(n)
    BY DEF LineInv, OnlyOrderedNodesKeepOrder
  <2>. QED
    BY <2>1, <2>2 DEF OnlyOrderedNodesKeepOrder, Node
<1>5. OnlyTapsCrash'
  BY DEF LineInv, OnlyTapsCrash, Node
<1>6. OnlyGraphNodeCallsBack'
  BY DEF LineInv, OnlyGraphNodeCallsBack, Node
<1>. QED
  BY <1>1, <1>2, <1>3, <1>4, <1>5, <1>6 DEF LineInv

\* In a line a node hands a packet to at most one node besides taps.
LEMMA OneWayOn ==
    ASSUME IsLine(graph), NEW n
    PROVE  \A a, b \in Destinations(n) \ Taps(graph) : a = b
<1>. SUFFICES ASSUME NEW e \in OutEdges(n), NEW f \in OutEdges(n),
                     e[2] \notin Taps(graph), f[2] \notin Taps(graph)
              PROVE  e[2] = f[2]
  BY DEF Destinations
<1>1. e \in graph.edges /\ f \in graph.edges /\ e[1] = f[1]
  BY DEF OutEdges, Edges
<1>2. {e[2], f[2]} \intersect Taps(graph) = {}
  OBVIOUS
<1>. QED
  BY <1>1, <1>2, Zenon DEF IsLine

\* The steps of thread w that keep a task in its hands or let go of it.
LEMMA StepsInHand ==
    ASSUME TypeOK, IsLine(graph), LineInv, NEW w \in Workers,
           \/ Start(w) \/ GetNext(w) \/ Read(w) \/ Produce(w) \/ Finish(w)
           \/ CheckOutput(w) \/ Propagate(w) \/ AllAdded(w) \/ SetNext(w) \/ EndDrain(w)
    PROVE  LineInv'
<1>. DEFINE Actions ==
       \/ Start(w) \/ GetNext(w) \/ Read(w) \/ Produce(w) \/ Finish(w)
       \/ CheckOutput(w) \/ Propagate(w) \/ AllAdded(w) \/ SetNext(w) \/ EndDrain(w)
<1>1. /\ graph' = graph /\ submit' = submit /\ appTodo' = appTodo /\ table' = table
      /\ ready' = ready /\ executor' = executor /\ called' = called
      /\ task' = task /\ taken' = taken
  BY DEF Start, GetNext, Read, Produce, Finish, CheckOutput, Propagate, AllAdded, SetNext,
         EndDrain, Return, appVars, dataVars, queueVars, localVars, seenVars
<1>2. \A v \in Workers \ {w} : pc'[v] = pc[v] /\ todo'[v] = todo[v] /\ holds'[v] = holds[v]
  BY DEF Start, GetNext, Read, Produce, Finish, CheckOutput, Propagate, AllAdded, SetNext,
         EndDrain, Return, Goto, appVars, dataVars, queueVars, localVars, seenVars, TypeOK
<1>3. Pkt(w) \in PktIds /\ Node(w) \in graph.nodes
  BY DEF TypeOK, Tasks, Pkt, Node
<1>4. pc[w] # "erase" /\ pc[w] # "requeue"
  BY DEF Start, GetNext, Read, Produce, Finish, CheckOutput, Propagate, AllAdded, SetNext,
         EndDrain
<1>5. Carries(task[w], Pkt(w)) <=> Node(w) \notin Taps(graph)
  BY DEF Carries, Pkt, Node
\* The heaps.
<1>6. \A n \in Ordered : order'[n].heap = order[n].heap /\ order'[n].ctxs = order[n].ctxs
  <2>1. CASE order' = order
    BY <2>1
  <2>2. CASE GetNext(w)
    BY <1>3, <2>2, NextOperationsLeave DEF GetNext, TypeOK
  <2>3. CASE SetNext(w)
    <3>1. \A o \in OrderRecord : LET r == AfterSetNextPktId(o, Pkt(w) + 1)
                                 IN  r.heap = o.heap /\ r.ctxs = o.ctxs
      BY <1>3, NextOperationsLeave
    <3>2. order' = [order EXCEPT ![Node(w)] = AfterSetNextPktId(@, Pkt(w) + 1)]
      BY <2>3 DEF SetNext
    <3>. QED
      BY <3>1, <3>2 DEF TypeOK
  <2>. QED
    BY <2>1, <2>2, <2>3 DEF Start, Read, Produce, Finish, CheckOutput, Propagate, AllAdded,
       EndDrain
<1>7. \A n \in Ordered : \A p \in PktIds : InHeap(n, p)' <=> InHeap(n, p)
  BY <1>1, <1>6, SameGraph DEF InHeap
<1>8. HeapHasContexts'
  BY <1>1, <1>6, <1>7, SameGraph DEF LineInv, HeapHasContexts
<1>9. OnceInLists'
  BY <1>1, SameLists DEF LineInv
<1>10. CalledBackOnce' /\ ToSet(called)' = ToSet(called)
  BY <1>1 DEF LineInv, CalledBackOnce, ToSet
\* What the thread has after the step it had before.
<1>11. Start(w) => Node(w) \in Taps(graph) \/ Pkt(w) \in table
  <2>. SUFFICES ASSUME Start(w), Node(w) \notin Taps(graph) PROVE Pkt(w) \in table
    OBVIOUS
  <2>1. pc[w] = "start"
    BY DEF Start
  <2>2. WithThread(w, Pkt(w))
    BY <1>5, <2>1 DEF WithThread, InTask
  <2>. QED
    BY <1>3, <2>2, InHandIsKept DEF LineInv
<1>12. Start(w) => Node(w) \in Taps(graph) \/ Alive(Pkt(w))
  BY <1>11 DEF Alive
<1>13. \A p : WithThread(w, p)' <=>
           \/ pc'[w] \in InTask /\ Carries(task[w], p)
           \/ pc'[w] = "add" /\ Pkt(w) = p /\ todo'[w] \ Taps(graph) # {}
           \/ pc'[w] \in {"callback", "erase"} /\ Pkt(w) = p
           \/ pc'[w] = "requeue" /\ Node(w) \notin Taps(graph) /\ taken[w] = p
  BY <1>1, SameGraph DEF WithThread, Carries, Pkt, Node, InTask
<1>. DEFINE Fine ==
       /\ \A p \in PktIds : WithThread(w, p)' => WithThread(w, p)
       /\ pc'[w] = "add" => todo'[w] \subseteq Destinations(Node(w))
       /\ pc'[w] \in InTask \ {"start"} /\ Node(w) \notin Taps(graph) => holds'[w]
       /\ pc'[w] = "propagate" => Node(w) \notin Taps(graph)
       /\ pc'[w] \in {"next", "buffer", "setnext", "drain", "requeue"} => KeepsOrder(Node(w))
       /\ pc'[w] \in {"callback", "erase"} => Node(w) = GraphNode
       /\ pc'[w] = "dead" => Node(w) \in Taps(graph)
<1>14. ASSUME pc'[w] = "idle" PROVE Fine
  BY <1>13, <1>14 DEF InTask
<1>15. /\ pc[w] \in InTask \ {"start"} /\ Node(w) \notin Taps(graph) => holds[w]
       /\ pc[w] = "propagate" => Node(w) \notin Taps(graph)
       /\ pc[w] \in {"next", "buffer", "setnext", "drain", "requeue"} => KeepsOrder(Node(w))
  BY DEF LineInv, RunsWithContext, OnlyOrderedNodesKeepOrder
<1>16. GraphNode \notin Taps(graph)
  BY DEF Taps
<1>. USE DEF TypeOK, Goto, Return, localVars, InTask
<1>20. ASSUME Start(w) PROVE Fine
  <2>1. pc[w] = "start"
    BY <1>20 DEF Start
  <2>2. \/ pc'[w] = "idle"
        \/ pc'[w] = "dead" /\ Node(w) \in Taps(graph)
        \/ /\ pc'[w] = IF KeepsOrder(Node(w)) THEN "next" ELSE "read"
           /\ holds'[w] = Alive(Pkt(w))
    BY <1>12, <1>20 DEF Start
  <2>3. CASE pc'[w] \notin {"idle", "dead"}
    <3>1. pc'[w] \in {"next", "read"} /\ (pc'[w] = "next" => KeepsOrder(Node(w)))
      BY <2>2, <2>3
    <3>2. \A p : WithThread(w, p)' => WithThread(w, p)
      BY <1>13, <2>1, <3>1 DEF WithThread
    <3>3. Node(w) \notin Taps(graph) => holds'[w]
      BY <1>11, <1>20, <2>2, <2>3 DEF Alive
    <3>. QED
      BY <3>1, <3>2, <3>3
  <2>. QED
    BY <1>13, <1>14, <2>2, <2>3
<1>21. ASSUME GetNext(w) PROVE Fine
  <2>1. pc[w] = "next" /\ pc'[w] \in {"buffer", "read", "drain"} /\ holds' = holds
    BY <1>21 DEF GetNext
  <2>2. \A p : WithThread(w, p)' => WithThread(w, p)
    BY <1>13, <2>1 DEF WithThread
  <2>. QED
    BY <1>15, <2>1, <2>2
<1>22. ASSUME Read(w) PROVE Fine
  <2>1. pc[w] = "read" /\ pc'[w] = "produce" /\ holds' = holds
    BY <1>22 DEF Read
  <2>2. \A p : WithThread(w, p)' => WithThread(w, p)
    BY <1>13, <2>1 DEF WithThread
  <2>. QED
    BY <1>15, <2>1, <2>2
<1>23. ASSUME Produce(w) PROVE Fine
  <2>1. /\ pc[w] = "produce" /\ holds' = holds
        /\ pc'[w] = "output" \/ (pc'[w] = "dead" /\ Node(w) \in Taps(graph))
    BY <1>3, <1>15, <1>23 DEF Produce, AsksInVain, Alive
  <2>2. \A p : WithThread(w, p)' => WithThread(w, p)
    BY <1>13, <2>1 DEF WithThread
  <2>. QED
    BY <1>15, <2>1, <2>2
<1>24. ASSUME Finish(w) PROVE Fine
  <2>1. pc[w] = "read" /\ Node(w) = GraphNode
    BY <1>24 DEF Finish
  <2>2. pc'[w] = "callback"
    BY <1>15, <1>16, <1>24, <2>1 DEF Finish
  <2>3. \A p : WithThread(w, p)' => WithThread(w, p)
    BY <1>5, <1>13, <1>16, <2>1, <2>2 DEF WithThread, Carries, Pkt
  <2>. QED
    BY <2>1, <2>2, <2>3
<1>25. ASSUME CheckOutput(w) PROVE Fine
  <2>1. pc[w] = "output"
    BY <1>25 DEF CheckOutput
  <2>2. CASE pc'[w] # "idle"
    <3>1. pc'[w] = "propagate" /\ holds' = holds /\ IsOutputReady(Pkt(w), Node(w))
      BY <1>25, <2>2 DEF CheckOutput
    <3>2. Node(w) \notin Taps(graph)
      BY <3>1 DEF IsOutputReady, OutEdges, Edges, Taps
    <3>3. \A p : WithThread(w, p)' => WithThread(w, p)
      BY <1>13, <2>1, <3>1 DEF WithThread
    <3>. QED
      BY <1>15, <2>1, <3>1, <3>2, <3>3
  <2>. QED
    BY <1>14, <2>2
<1>26. ASSUME Propagate(w) PROVE Fine
  <2>1. pc[w] = "propagate" /\ holds[w] /\ Node(w) \notin Taps(graph)
    BY <1>15, <1>26 DEF Propagate
  <2>2. pc'[w] = "add" /\ todo'[w] = Destinations(Node(w))
    BY <1>26, <2>1 DEF Propagate
  <2>3. \A p : WithThread(w, p)' => WithThread(w, p)
    BY <1>5, <1>13, <2>1, <2>2 DEF WithThread, Carries, Pkt
  <2>. QED
    BY <2>2, <2>3
<1>27. ASSUME AllAdded(w) PROVE Fine
  <2>1. CASE pc'[w] # "idle"
    <3>1. pc'[w] = "setnext" /\ KeepsOrder(Node(w))
      BY <1>27, <2>1 DEF AllAdded
    <3>. QED
      BY <1>13, <3>1
  <2>. QED
    BY <1>14, <2>1
<1>28. ASSUME SetNext(w) PROVE Fine
  <2>1. CASE pc'[w] # "idle"
    <3>1. pc[w] = "setnext" /\ pc'[w] = "drain"
      BY <1>28, <2>1 DEF SetNext
    <3>. QED
      BY <1>13, <1>15, <3>1
  <2>. QED
    BY <1>14, <2>1
<1>29. ASSUME EndDrain(w) PROVE Fine
  BY <1>14, <1>29 DEF EndDrain
<1>30. Fine
  BY <1>20, <1>21, <1>22, <1>23, <1>24, <1>25, <1>26, <1>27, <1>28, <1>29
<1>. USE DEF LineInv
<1>31. OnePlace' /\ PlacedIsKept' /\ CalledIsLeaving'
  BY <1>1, <1>2, <1>4, <1>7, <1>30, KeepsInHand
<1>. HIDE DEF TypeOK, Goto, Return, localVars, InTask, LineInv
<1>32. task'[w].node = Node(w)
  BY <1>1 DEF Node
<1>. QED
  BY <1>1, <1>2, <1>7, <1>8, <1>9, <1>10, <1>30, <1>31, <1>32, LineAfterStep

\* Fewer and Moves, for what a step does to each kind of place.
LEMMA FewerInPlaces ==
    ASSUME TypeOK, LineInv, graph' = graph, called' = called, table \subseteq table',
           \A w \in Workers : pc[w] = "erase" => pc'[w] = "erase",
           \A p \in PktIds :
               /\ WithCaller(p)' => WithCaller(p)
               /\ \A l \in Lists : InList(ready[l], p)' => InList(ready[l], p)
               /\ InList(executor, p)' => InList(executor, p)
               /\ \A w \in Workers : WithThread(w, p)' => WithThread(w, p)
               /\ \A n \in Ordered : InHeap(n, p)' => InHeap(n, p)
    PROVE  OnePlace' /\ PlacedIsKept' /\ CalledIsLeaving'
<1>1. Lists' = Lists /\ Ordered' = Ordered
  BY SameGraph
<1>2. \A p \in PktIds : \A a \in Kinds : \A i \in Places : At(a, i, p)' => At(a, i, p)
  BY <1>1 DEF At
<1>3. Places' = Places /\ ToSet(called) \subseteq PktIds
  BY <1>1 DEF Places, ToSet, TypeOK
<1>. QED
  BY <1>2, <1>3, Fewer DEF LineInv

LEMMA MovesInPlaces ==
    ASSUME TypeOK, LineInv, graph' = graph, called' = called, table \subseteq table',
           \A w \in Workers : pc[w] = "erase" => pc'[w] = "erase",
           NEW q \in PktIds, NEW a \in Kinds, NEW b \in Kinds, NEW i \in Places, NEW j \in Places,
           At(a, i, q), ~At(a, i, q)', ~(a = "thread" /\ pc[i] = "erase"),
           \A p \in PktIds :
               /\ WithCaller(p)' => WithCaller(p)
               /\ \A l \in Lists : InList(ready[l], p)' =>
                       InList(ready[l], p) \/ (p = q /\ b = "ready" /\ j = l)
               /\ InList(executor, p)' =>
                       InList(executor, p) \/ (p = q /\ b = "executor" /\ j = 0)
               /\ \A w \in Workers : WithThread(w, p)' =>
                       WithThread(w, p) \/ (p = q /\ b = "thread" /\ j = w)
               /\ \A n \in Ordered : InHeap(n, p)' =>
                       InHeap(n, p) \/ (p = q /\ b = "heap" /\ j = n)
    PROVE  OnePlace' /\ PlacedIsKept' /\ CalledIsLeaving'
<1>1. Lists' = Lists /\ Ordered' = Ordered
  BY SameGraph
<1>2. \A p \in PktIds : \A c \in Kinds : \A k \in Places :
          At(c, k, p)' => At(c, k, p) \/ (p = q /\ c = b /\ k = j)
  BY <1>1 DEF At
<1>3. Places' = Places /\ ToSet(called) \subseteq PktIds
  BY <1>1 DEF Places, ToSet, TypeOK
<1>. QED
  BY <1>2, <1>3, Moves DEF LineInv

\* A task joins the list of its level; q is the packet if its node is no tap.
LEMMA QueuedPlaces ==
    ASSUME TypeOK, OnceInLists, graph' = graph, NEW p \in PktIds, NEW n \in graph.nodes,
           ready' = Queued(p, n), executor' = executor,
           n \notin Taps(graph) => \A l \in Lists : ~InList(ready[l], p)
    PROVE  /\ OnceInLists'
           /\ \A q \in PktIds : \A l \in Lists : InList(ready[l], q)' =>
                  \/ InList(ready[l], q)
                  \/ q = p /\ l = graph.level[n] /\ n \notin Taps(graph)
<1>. DEFINE t == [pkt |-> p, node |-> n]
            k == graph.level[n]
<1>1. /\ k \in Lists /\ t \in Tasks /\ ready'[k] = Append(ready[k], t)
      /\ \A l \in Lists \ {k} : ready'[l] = ready[l]
  BY QueuedTypes
<1>2. \A q : Carries(t, q) <=> q = p /\ n \notin Taps(graph)
  BY DEF Carries
<1>3. \A l \in Lists : ready[l] \in Seq(Tasks)
  BY DEF TypeOK
<1>. HIDE DEF t, k
<1>4. ASSUME NEW q \in PktIds, NEW l \in Lists
      PROVE  /\ InList(ready'[l], q) => InList(ready[l], q) \/ (l = k /\ Carries(t, q))
             /\ OnceIn(ready'[l], q)
  <2>1. OnceIn(ready[l], q)
    BY DEF OnceInLists
  <2>2. CASE l = k
    <3>1. OnceIn(ready[k], q) /\ ready[k] \in Seq(Tasks)
      BY <1>1, <1>3, <2>1, <2>2
    <3>2. ~(InList(ready[k], q) /\ Carries(t, q))
      BY <1>1, <1>2
    <3>3. t \in Tasks /\ ready'[l] = Append(ready[k], t) /\ ready[l] = ready[k]
      BY <1>1, <2>2
    <3>4. /\ InList(Append(ready[k], t), q) <=> InList(ready[k], q) \/ Carries(t, q)
          /\ OnceIn(Append(ready[k], t), q)
      BY <3>1, <3>2, <3>3, AppendedList
    <3>. QED
      BY <2>2, <3>3, <3>4
  <2>3. CASE l # k
    BY <1>1, <2>1, <2>3
  <2>. QED
    BY <2>2, <2>3
<1>5. \A q \in PktIds : OnceIn(executor', q)
  BY DEF OnceInLists
<1>6. Taps(graph)' = Taps(graph) /\ Lists' = Lists
  BY SameGraph
<1>7. OnceInLists'
  BY <1>4, <1>5, <1>6 DEF OnceInLists, OnceIn, Carries
<1>8. \A q \in PktIds : \A l \in Lists : InList(ready[l], q)' => InList(ready'[l], q)
  BY <1>6 DEF InList, Carries
<1>9. \A q \in PktIds : \A l \in Lists : InList(ready[l], q)' =>
          InList(ready[l], q) \/ (l = k /\ q = p /\ n \notin Taps(graph))
  BY <1>2, <1>4, <1>8
<1>. QED
  BY <1>7, <1>9 DEF k

\* What the steps of a thread leave alone.
LEMMA StepLeaves ==
    ASSUME TypeOK, NEW w \in Workers, Step(w)
    PROVE  /\ graph' = graph /\ submit' = submit /\ appTodo' = appTodo
           /\ \A v \in Workers \ {w} :
                  /\ pc'[v] = pc[v] /\ task'[v] = task[v] /\ todo'[v] = todo[v]
                  /\ taken'[v] = taken[v] /\ holds'[v] = holds[v]
<1>. USE DEF appVars, dataVars, queueVars, localVars, seenVars, Goto, Return, TypeOK
<1>1. graph' = graph /\ submit' = submit /\ appTodo' = appTodo
  BY DEF Step, Take, Start, GetNext, Buffer, Read, Produce, Finish, CallBack, Erase,
         CheckOutput, Propagate, AddTask, AllAdded, SetNext, TakeSmallest, Requeue, EndDrain
<1>2. ASSUME NEW v \in Workers \ {w}
      PROVE  /\ pc'[v] = pc[v] /\ task'[v] = task[v] /\ todo'[v] = todo[v]
             /\ taken'[v] = taken[v] /\ holds'[v] = holds[v]
  BY DEF Step, Take, Start, GetNext, Buffer, Read, Produce, Finish, CallBack, Erase,
         CheckOutput, Propagate, AddTask, AllAdded, SetNext, TakeSmallest, Requeue, EndDrain
<1>. QED
  BY <1>1, <1>2

\* The other threads keep the packets they have.
LEMMA OthersKeep ==
    ASSUME TypeOK, NEW w \in Workers, Step(w)
    PROVE  \A v \in Workers \ {w} : \A p : WithThread(v, p)' <=> WithThread(v, p)
  BY StepLeaves, Unmoved

\* Thread w takes the first task of the executor's queue.
LEMMA TakeKeepsLine ==
    ASSUME TypeOK, IsLine(graph), LineInv, NEW w \in Workers, Take(w)
    PROVE  LineInv'
<1>0. Step(w) /\ executor # <<>> /\ executor \in Seq(Tasks)
  BY DEF Step, Take, TypeOK
<1>. PICK t \in Tasks : t = Head(executor)
  BY <1>0
<1>. PICK rest : rest = Tail(executor)
  OBVIOUS
<1>1. /\ pc[w] = "idle" /\ executor' = rest
      /\ task' = [task EXCEPT ![w] = t] /\ pc' = [pc EXCEPT ![w] = "start"]
      /\ table' = table /\ ready' = ready /\ order' = order /\ called' = called
      /\ graph' = graph /\ appTodo' = appTodo /\ submit' = submit
  BY DEF Take, Goto, appVars, seenVars
<1>3. pc'[w] = "start" /\ task'[w] = t
  BY <1>1 DEF TypeOK
<1>4. Taps(graph)' = Taps(graph) /\ Lists' = Lists
  BY <1>1, SameGraph
<1>5. \A p : WithThread(w, p)' <=> Carries(t, p)
  BY <1>3, <1>4 DEF WithThread, Carries, InTask
<1>6. \A p : InList(executor, p)' <=> InList(rest, p)
  BY <1>1, <1>4 DEF InList, Carries
<1>7. \A p \in PktIds :
          /\ InList(rest, p) => InList(executor, p)
          /\ Carries(t, p) => InList(executor, p) /\ ~InList(rest, p)
          /\ OnceIn(rest, p)
  BY <1>0, TailOfList DEF LineInv, OnceInLists
<1>8. OnceInLists'
  <2>1. \A p \in PktIds : \A l \in Lists : OnceIn(ready[l], p)
    BY DEF LineInv, OnceInLists
  <2>2. ASSUME NEW p \in PktIds, NEW l \in Lists PROVE OnceIn(ready[l], p)'
    BY <1>1, <1>4, <2>1 DEF OnceIn, Carries
  <2>3. ASSUME NEW p \in PktIds PROVE OnceIn(executor, p)'
    BY <1>1, <1>4, <1>7 DEF OnceIn, Carries
  <2>. QED
    BY <1>4, <2>2, <2>3 DEF OnceInLists
<1>9. \A p \in PktIds :
          /\ WithCaller(p)' => WithCaller(p)
          /\ \A l \in Lists : InList(ready[l], p)' => InList(ready[l], p)
          /\ InList(executor, p)' => InList(executor, p)
          /\ \A v \in Workers \ {w} : WithThread(v, p)' => WithThread(v, p)
          /\ \A n \in Ordered : InHeap(n, p)' => InHeap(n, p)
  <2>1. ASSUME NEW p \in PktIds
        PROVE  /\ WithCaller(p)' => WithCaller(p)
               /\ \A l \in Lists : InList(ready[l], p)' => InList(ready[l], p)
               /\ \A n \in Ordered : InHeap(n, p)' => InHeap(n, p)
    BY <1>1, Unmoved
  <2>2. ASSUME NEW p \in PktIds PROVE InList(executor, p)' => InList(executor, p)
    BY <1>6, <1>7
  <2>3. ASSUME NEW p \in PktIds, NEW v \in Workers \ {w} PROVE WithThread(v, p)' => WithThread(v, p)
    BY <1>0, OthersKeep
  <2>. QED
    BY <2>1, <2>2, <2>3
<1>10. \A v \in Workers : pc[v] = "erase" => pc'[v] = "erase"
  BY <1>0, <1>1, StepLeaves
<1>11. OnePlace' /\ PlacedIsKept' /\ CalledIsLeaving'
  <2>1. CASE t.node \in Taps(graph)
    <3>1. \A p : ~Carries(t, p)
      BY <2>1 DEF Carries
    <3>. QED
      BY <1>1, <1>5, <1>9, <1>10, <3>1, FewerInPlaces
  <2>2. CASE t.node \notin Taps(graph)
    <3>1. \A p : Carries(t, p) <=> p = t.pkt
      BY <2>2 DEF Carries
    <3>2. t.pkt \in PktIds
      BY DEF Tasks
    <3>3. At("executor", 0, t.pkt) /\ ~At("executor", 0, t.pkt)'
      BY <1>6, <1>7, <3>1, <3>2 DEF At
    <3>4. "executor" \in Kinds /\ "thread" \in Kinds /\ 0 \in Places /\ w \in Places
      BY DEF Kinds, Places
    <3>5. \A p \in PktIds : \A v \in Workers :
              WithThread(v, p)' => WithThread(v, p) \/ (p = t.pkt /\ v = w)
      BY <1>5, <1>9, <3>1
    <3>. QED
      BY <1>1, <1>9, <1>10, <3>2, <3>3, <3>4, <3>5, MovesInPlaces
  <2>. QED
    BY <2>1, <2>2
<1>12. CalledBackOnce' /\ ToSet(called)' = ToSet(called)
  BY <1>1 DEF LineInv, CalledBackOnce, ToSet
<1>13. HeapHasContexts' /\ \A n \in Ordered : \A p \in PktIds : InHeap(n, p)' => InHeap(n, p)
  BY <1>1, SameGraph DEF LineInv, HeapHasContexts, InHeap
<1>. QED
  BY <1>0, <1>1, <1>3, <1>8, <1>11, <1>12, <1>13, StepLeaves, LineAfterStep

\* Thread w, and the packet it works on.
LEMMA TheThread ==
    ASSUME TypeOK, NEW w \in Workers, Step(w)
    PROVE  /\ Pkt(w) \in PktIds /\ Node(w) \in graph.nodes /\ taken[w] \in PktIds
           /\ \A v \in Workers : pc[v] = "erase" /\ v # w => pc'[v] = "erase"
           /\ \A p : Carries(task[w], p) <=> p = Pkt(w) /\ Node(w) \notin Taps(graph)
<1>1. Pkt(w) \in PktIds /\ Node(w) \in graph.nodes /\ taken[w] \in PktIds
  BY DEF TypeOK, Tasks, Pkt, Node
<1>2. \A v \in Workers : pc[v] = "erase" /\ v # w => pc'[v] = "erase"
  BY StepLeaves
<1>3. \A p : Carries(task[w], p) <=> p = Pkt(w) /\ Node(w) \notin Taps(graph)
  BY DEF Carries, Pkt, Node
<1>. QED
  BY <1>1, <1>2, <1>3

\* A packet with a thread is in no list and in no heap.
LEMMA InHandOnly ==
    ASSUME OnePlace, NEW w \in Workers, NEW p \in PktIds, WithThread(w, p)
    PROVE  /\ \A l \in Lists : ~InList(ready[l], p)
           /\ \A n \in Ordered : ~InHeap(n, p)
  BY DEF OnePlace, At, Kinds, Places

\* Thread w adds the next ready task.
LEMMA AddTaskKeepsLine ==
    ASSUME TypeOK, IsLine(graph), LineInv, NEW w \in Workers, AddTask(w)
    PROVE  LineInv'
<1>0. Step(w)
  BY DEF Step
<1>. PICK q \in PktIds : q = Pkt(w)
  BY <1>0, TheThread
<1>. PICK n \in First(todo[w]) :
         ready' = Queued(Pkt(w), n) /\ todo' = [todo EXCEPT ![w] = @ \ {n}]
  BY DEF AddTask
<1>. PICK k \in Lists : k = graph.level[n] /\ n \in graph.nodes
  BY TheGraph DEF First, TypeOK
<1>1. /\ pc[w] = "add" /\ n \in todo[w] /\ ready' = Queued(q, n)
      /\ executor' = executor /\ table' = table /\ order' = order /\ called' = called
      /\ pc' = pc /\ task' = task /\ taken' = taken
      /\ graph' = graph /\ appTodo' = appTodo /\ submit' = submit
  BY DEF AddTask, First, appVars, seenVars
<1>2. todo'[w] = todo[w] \ {n} /\ todo[w] \subseteq Destinations(Node(w))
  BY <1>1 DEF TypeOK, LineInv, TodoIsAhead
<1>3. Taps(graph)' = Taps(graph)
  BY <1>1, SameGraph
<1>4. \A p :
          /\ WithThread(w, p) <=> p = q /\ todo[w] \ Taps(graph) # {}
          /\ WithThread(w, p)' <=> p = q /\ todo'[w] \ Taps(graph) # {}
  BY <1>1, <1>3 DEF WithThread, InTask, Pkt
<1>5. n \notin Taps(graph) => WithThread(w, q) /\ ~WithThread(w, q)'
  BY <1>1, <1>2, <1>4, OneWayOn
<1>6. n \in Taps(graph) => \A p : WithThread(w, p)' <=> WithThread(w, p)
  BY <1>2, <1>4
<1>7. n \notin Taps(graph) => \A l \in Lists : ~InList(ready[l], q)
  BY <1>5, InHandOnly DEF LineInv
<1>8. /\ OnceInLists'
      /\ \A p \in PktIds : \A l \in Lists : InList(ready[l], p)' =>
             \/ InList(ready[l], p)
             \/ p = q /\ l = k /\ n \notin Taps(graph)
  BY <1>1, <1>7, QueuedPlaces DEF LineInv
<1>9. ASSUME NEW p \in PktIds
      PROVE  /\ WithCaller(p)' => WithCaller(p)
             /\ InList(executor, p)' => InList(executor, p)
             /\ \A v \in Workers \ {w} : WithThread(v, p)' => WithThread(v, p)
             /\ WithThread(w, p)' => WithThread(w, p)
             /\ \A m \in Ordered : InHeap(m, p)' => InHeap(m, p)
  <2>1. /\ WithCaller(p)' => WithCaller(p)
        /\ InList(executor, p)' => InList(executor, p)
        /\ \A m \in Ordered : InHeap(m, p)' => InHeap(m, p)
    BY <1>1, Unmoved
  <2>2. \A v \in Workers \ {w} : WithThread(v, p)' => WithThread(v, p)
    BY <1>0, OthersKeep
  <2>3. WithThread(w, p)' => WithThread(w, p)
    BY <1>2, <1>4
  <2>. QED
    BY <2>1, <2>2, <2>3
<1>10. OnePlace' /\ PlacedIsKept' /\ CalledIsLeaving'
  <2>1. CASE n \in Taps(graph)
    BY <1>1, <1>8, <1>9, <2>1, FewerInPlaces
  <2>2. CASE n \notin Taps(graph)
    <3>1. At("thread", w, q) /\ ~At("thread", w, q)'
      BY <1>5, <2>2 DEF At
    <3>2. "thread" \in Kinds /\ "ready" \in Kinds /\ w \in Places /\ k \in Places
      BY DEF Kinds, Places
    <3>. QED
      BY <1>1, <1>8, <1>9, <3>1, <3>2, MovesInPlaces
  <2>. QED
    BY <2>1, <2>2
<1>11. CalledBackOnce' /\ ToSet(called)' = ToSet(called)
  BY <1>1 DEF LineInv, CalledBackOnce, ToSet
<1>12. HeapHasContexts' /\ \A m \in Ordered : \A p \in PktIds : InHeap(m, p)' => InHeap(m, p)
  BY <1>1, SameGraph DEF LineInv, HeapHasContexts, InHeap
<1>13. pc'[w] = "add" /\ todo'[w] \subseteq Destinations(task'[w].node)
  BY <1>1, <1>2 DEF Node
<1>. QED
  BY <1>0, <1>1, <1>8, <1>10, <1>11, <1>12, <1>13, StepLeaves, LineAfterStep DEF InTask

\* Thread w puts the task it took from the heap in the ready queue.
LEMMA RequeueKeepsLine ==
    ASSUME TypeOK, IsLine(graph), LineInv, NEW w \in Workers, Requeue(w),
           Node(w) \notin Taps(graph)
    PROVE  LineInv'
<1>0. Step(w) /\ pc[w] = "requeue"
  BY DEF Step, Requeue
<1>. PICK q \in PktIds : q = taken[w]
  BY <1>0, TheThread
<1>. PICK n \in graph.nodes : n = Node(w)
  BY <1>0, TheThread
<1>. PICK k \in Lists : k = graph.level[n]
  BY TheGraph
<1>1. KeepsOrder(n) /\ n \notin Taps(graph)
  BY <1>0 DEF LineInv, OnlyOrderedNodesKeepOrder
<1>2. WithThread(w, q)
  BY <1>0 DEF WithThread
<1>3. Alive(taken[w])
  BY <1>2, InHandIsKept DEF LineInv, Alive
<1>4. /\ ready' = Queued(q, n) /\ pc' = [pc EXCEPT ![w] = "drain"]
      /\ executor' = executor /\ table' = table /\ order' = order /\ called' = called
      /\ task' = task /\ taken' = taken
      /\ graph' = graph /\ appTodo' = appTodo /\ submit' = submit
  BY <1>3 DEF Requeue, Goto, appVars, localVars, seenVars
<1>5. pc'[w] = "drain"
  BY <1>4 DEF TypeOK
<1>6. \A p : ~WithThread(w, p)'
  BY <1>5 DEF WithThread, InTask
<1>7. \A l \in Lists : ~InList(ready[l], q)
  BY <1>2, InHandOnly DEF LineInv
<1>8. /\ OnceInLists'
      /\ \A p \in PktIds : \A l \in Lists : InList(ready[l], p)' =>
             InList(ready[l], p) \/ (p = q /\ l = k /\ n \notin Taps(graph))
  BY <1>4, <1>7, QueuedPlaces DEF LineInv
<1>9. ASSUME NEW p \in PktIds
      PROVE  /\ WithCaller(p)' => WithCaller(p)
             /\ InList(executor, p)' => InList(executor, p)
             /\ \A v \in Workers : WithThread(v, p)' => WithThread(v, p)
             /\ \A m \in Ordered : InHeap(m, p)' => InHeap(m, p)
  <2>1. /\ WithCaller(p)' => WithCaller(p)
        /\ InList(executor, p)' => InList(executor, p)
        /\ \A m \in Ordered : InHeap(m, p)' => InHeap(m, p)
    BY <1>4, Unmoved
  <2>2. \A v \in Workers \ {w} : WithThread(v, p)' => WithThread(v, p)
    BY <1>0, OthersKeep
  <2>. QED
    BY <1>6, <2>1, <2>2
<1>10. OnePlace' /\ PlacedIsKept' /\ CalledIsLeaving'
  <2>1. At("thread", w, q) /\ ~At("thread", w, q)'
    BY <1>2, <1>6 DEF At
  <2>2. "thread" \in Kinds /\ "ready" \in Kinds /\ w \in Places /\ k \in Places
    BY DEF Kinds, Places
  <2>3. \A v \in Workers : pc[v] = "erase" => pc'[v] = "erase"
    BY <1>0, TheThread
  <2>. QED
    BY <1>0, <1>4, <1>8, <1>9, <2>1, <2>2, <2>3, MovesInPlaces
<1>11. CalledBackOnce' /\ ToSet(called)' = ToSet(called)
  BY <1>4 DEF LineInv, CalledBackOnce, ToSet
<1>12. HeapHasContexts' /\ \A m \in Ordered : \A p \in PktIds : InHeap(m, p)' => InHeap(m, p)
  BY <1>4, SameGraph DEF LineInv, HeapHasContexts, InHeap
<1>13. task'[w].node = n
  BY <1>4 DEF Node
<1>. QED
  BY <1>0, <1>1, <1>4, <1>5, <1>8, <1>10, <1>11, <1>12, <1>13, StepLeaves, LineAfterStep DEF InTask

\* Thread w puts its packet, which is early, on the node's heap.
LEMMA BufferKeepsLine ==
    ASSUME TypeOK, IsLine(graph), LineInv, NEW w \in Workers, Buffer(w),
           Node(w) \notin Taps(graph)
    PROVE  LineInv'
<1>0. Step(w) /\ pc[w] = "buffer"
  BY DEF Step, Buffer
<1>. PICK q \in PktIds : q = Pkt(w)
  BY <1>0, TheThread
<1>. PICK n \in graph.nodes : n = Node(w)
  BY <1>0, TheThread
<1>1. KeepsOrder(n) /\ n \in Ordered /\ n \notin Taps(graph)
  BY <1>0 DEF LineInv, OnlyOrderedNodesKeepOrder, KeepsOrder
<1>2. WithThread(w, q)
  BY <1>0, <1>1, TheThread DEF WithThread, InTask
<1>3. /\ order' = [order EXCEPT ![n] = AfterAddUnprocessedPkt(@, q)]
      /\ pc' = [pc EXCEPT ![w] = "drain"]
      /\ ready' = ready /\ executor' = executor /\ table' = table /\ called' = called
      /\ task' = task /\ graph' = graph /\ appTodo' = appTodo /\ submit' = submit
  BY DEF Buffer, Goto, appVars, queueVars, localVars, seenVars
<1>4. pc'[w] = "drain"
  BY <1>3 DEF TypeOK
<1>5. \A p : ~WithThread(w, p)'
  BY <1>4 DEF WithThread, InTask
<1>6. order[n] \in OrderRecord /\ order[n].heap \in [PktIds -> Nat]
  BY <1>1 DEF TypeOK, OrderRecord
<1>7. order[n].heap[q] = 0
  BY <1>1, <1>2, <1>6, InHandOnly DEF LineInv, InHeap
<1>8. /\ order'[n].heap = [order[n].heap EXCEPT ![q] = 1]
      /\ order'[n].ctxs = order[n].ctxs \union {q}
      /\ \A m \in Ordered \ {n} : order'[m] = order[m]
  <2>1. /\ order'[n] = AfterAddUnprocessedPkt(order[n], q)
        /\ \A m \in Ordered \ {n} : order'[m] = order[m]
    BY <1>1, <1>3 DEF TypeOK
  <2>2. /\ order'[n].heap = [order[n].heap EXCEPT ![q] = @ + 1]
        /\ order'[n].ctxs = order[n].ctxs \union {q}
    <3>. PICK o \in OrderRecord : o = order[n]
      BY <1>6
    <3>1. /\ AfterAddUnprocessedPkt(o, q).heap = [o.heap EXCEPT ![q] = @ + 1]
          /\ AfterAddUnprocessedPkt(o, q).ctxs = o.ctxs \union {q}
      BY HeapOperationsLeave
    <3>. QED
      BY <2>1, <3>1
  <2>. QED
    BY <1>6, <1>7, <2>1, <2>2
<1>9. \A m \in Ordered : \A p \in PktIds : InHeap(m, p)' => InHeap(m, p) \/ (p = q /\ m = n)
  BY <1>3, <1>6, <1>8, SameGraph DEF InHeap
<1>10. HeapHasContexts'
  <2>1. ASSUME NEW m \in Ordered, NEW p \in PktIds, InHeap(m, p)'
        PROVE  order'[m].heap[p] = 1 /\ p \in order'[m].ctxs
    <3>1. CASE p = q /\ m = n
      BY <1>6, <1>8, <3>1
    <3>2. CASE ~(p = q /\ m = n)
      <4>1. order[m].heap[p] = 1 /\ p \in order[m].ctxs
        BY <1>9, <2>1, <3>2 DEF LineInv, HeapHasContexts
      <4>. QED
        BY <1>6, <1>8, <3>2, <4>1
    <3>. QED
      BY <3>1, <3>2
  <2>. QED
    BY <1>3, <2>1, SameGraph DEF HeapHasContexts
<1>11. OnePlace' /\ PlacedIsKept' /\ CalledIsLeaving'
  <2>1. ASSUME NEW p \in PktIds
        PROVE  /\ WithCaller(p)' => WithCaller(p)
               /\ \A l \in Lists : InList(ready[l], p)' => InList(ready[l], p)
               /\ InList(executor, p)' => InList(executor, p)
               /\ \A v \in Workers : WithThread(v, p)' => WithThread(v, p)
    <3>1. /\ WithCaller(p)' => WithCaller(p)
          /\ \A l \in Lists : InList(ready[l], p)' => InList(ready[l], p)
          /\ InList(executor, p)' => InList(executor, p)
      BY <1>3, Unmoved
    <3>2. \A v \in Workers \ {w} : WithThread(v, p)' => WithThread(v, p)
      BY <1>0, OthersKeep
    <3>. QED
      BY <1>5, <3>1, <3>2
  <2>2. At("thread", w, q) /\ ~At("thread", w, q)'
    BY <1>2, <1>5 DEF At
  <2>3. "thread" \in Kinds /\ "heap" \in Kinds /\ w \in Places /\ n \in Places
    BY <1>1 DEF Kinds, Places
  <2>4. \A v \in Workers : pc[v] = "erase" => pc'[v] = "erase"
    BY <1>0, TheThread
  <2>. QED
    BY <1>0, <1>3, <1>9, <2>1, <2>2, <2>3, <2>4, MovesInPlaces
<1>12. CalledBackOnce' /\ ToSet(called)' = ToSet(called)
  BY <1>3 DEF LineInv, CalledBackOnce, ToSet
<1>13. OnceInLists'
  BY <1>3, SameLists DEF LineInv
<1>14. \A m \in Ordered : \A p \in PktIds : InHeap(m, p)' => InHeap(m, p) \/ KeepsOrder(m)
  BY <1>1, <1>9
<1>15. task'[w].node = n
  BY <1>3 DEF Node
<1>. QED
  BY <1>0, <1>1, <1>3, <1>4, <1>10, <1>11, <1>12, <1>13, <1>14, <1>15, StepLeaves, LineAfterStep
  DEF InTask

\* Thread w takes the smallest packet from the node's heap.
LEMMA TakeSmallestKeepsLine ==
    ASSUME TypeOK, IsLine(graph), LineInv, NEW w \in Workers, TakeSmallest(w),
           Node(w) \notin Taps(graph)
    PROVE  LineInv'
<1>0. Step(w) /\ pc[w] = "drain"
  BY DEF Step, TakeSmallest
<1>. PICK n \in graph.nodes : n = Node(w)
  BY <1>0, TheThread
<1>1. PICK q \in PktIds :
          /\ HasSmallestUnprocessedPkt(order[n], q)
          /\ order' = [order EXCEPT ![n] = AfterGetSmallestUnprocessedPkt(@, q)]
          /\ taken' = [taken EXCEPT ![w] = q]
          /\ Goto(w, IF SmallestHasContext(order[n], q) THEN "requeue" ELSE "dead")
  BY DEF TakeSmallest
<1>2. KeepsOrder(n) /\ n \in Ordered /\ n \notin Taps(graph)
  BY <1>0 DEF LineInv, OnlyOrderedNodesKeepOrder, KeepsOrder
<1>3. order[n] \in OrderRecord /\ order[n].heap \in [PktIds -> Nat]
  BY <1>2 DEF TypeOK, OrderRecord
<1>4. InHeap(n, q) /\ order[n].heap[q] = 1 /\ q \in order[n].ctxs
  BY <1>1, <1>2 DEF HasSmallestUnprocessedPkt, InHeap, LineInv, HeapHasContexts
<1>5. /\ pc' = [pc EXCEPT ![w] = "requeue"]
      /\ ready' = ready /\ executor' = executor /\ table' = table /\ called' = called
      /\ task' = task /\ graph' = graph /\ appTodo' = appTodo /\ submit' = submit
  BY <1>1, <1>4 DEF TakeSmallest, Goto, SmallestHasContext, appVars, queueVars, seenVars
<1>6. pc'[w] = "requeue" /\ taken'[w] = q
  BY <1>1, <1>5 DEF TypeOK
<1>7. \A p : WithThread(w, p)' <=> p = q
  BY <1>2, <1>5, <1>6, SameGraph DEF WithThread, InTask, Node
<1>8. /\ order'[n].heap = [order[n].heap EXCEPT ![q] = 0]
      /\ order'[n].ctxs = order[n].ctxs \ {q}
      /\ \A m \in Ordered \ {n} : order'[m] = order[m]
  <2>1. /\ order'[n] = AfterGetSmallestUnprocessedPkt(order[n], q)
        /\ \A m \in Ordered \ {n} : order'[m] = order[m]
    BY <1>1, <1>2 DEF TypeOK
  <2>2. /\ order'[n].heap = [order[n].heap EXCEPT ![q] = @ - 1]
        /\ order'[n].ctxs = order[n].ctxs \ {q}
    <3>. PICK o \in OrderRecord : o = order[n]
      BY <1>3
    <3>1. o.heap[q] > 0
      BY <1>4
    <3>2. /\ AfterGetSmallestUnprocessedPkt(o, q).heap = [o.heap EXCEPT ![q] = @ - 1]
          /\ AfterGetSmallestUnprocessedPkt(o, q).ctxs = o.ctxs \ {q}
      BY <3>1, HeapOperationsLeave
    <3>. QED
      BY <2>1, <3>2
  <2>. QED
    BY <1>3, <1>4, <2>1, <2>2
<1>9. \A m \in Ordered : \A p \in PktIds : InHeap(m, p)' => InHeap(m, p) /\ (p # q \/ m # n)
  BY <1>3, <1>5, <1>8, SameGraph DEF InHeap
<1>10. HeapHasContexts'
  <2>1. ASSUME NEW m \in Ordered, NEW p \in PktIds, InHeap(m, p)'
        PROVE  order'[m].heap[p] = 1 /\ p \in order'[m].ctxs
    <3>1. order[m].heap[p] = 1 /\ p \in order[m].ctxs /\ (p # q \/ m # n)
      BY <1>9, <2>1 DEF LineInv, HeapHasContexts
    <3>. QED
      BY <1>3, <1>8, <3>1
  <2>. QED
    BY <1>5, <2>1, SameGraph DEF HeapHasContexts
<1>11. OnePlace' /\ PlacedIsKept' /\ CalledIsLeaving'
  <2>1. ASSUME NEW p \in PktIds
        PROVE  /\ WithCaller(p)' => WithCaller(p)
               /\ \A l \in Lists : InList(ready[l], p)' => InList(ready[l], p)
               /\ InList(executor, p)' => InList(executor, p)
               /\ \A v \in Workers : WithThread(v, p)' => WithThread(v, p) \/ (p = q /\ w = v)
    <3>1. /\ WithCaller(p)' => WithCaller(p)
          /\ \A l \in Lists : InList(ready[l], p)' => InList(ready[l], p)
          /\ InList(executor, p)' => InList(executor, p)
      BY <1>5, Unmoved
    <3>2. \A v \in Workers \ {w} : WithThread(v, p)' => WithThread(v, p)
      BY <1>0, OthersKeep
    <3>. QED
      BY <1>7, <3>1, <3>2
  <2>2. At("heap", n, q) /\ ~At("heap", n, q)'
    BY <1>2, <1>4, <1>9 DEF At
  <2>3. "thread" \in Kinds /\ "heap" \in Kinds /\ w \in Places /\ n \in Places
    BY <1>2 DEF Kinds, Places
  <2>4. \A v \in Workers : pc[v] = "erase" => pc'[v] = "erase"
    BY <1>0, TheThread
  <2>. QED
    BY <1>5, <1>9, <2>1, <2>2, <2>3, <2>4, MovesInPlaces
<1>12. CalledBackOnce' /\ ToSet(called)' = ToSet(called)
  BY <1>5 DEF LineInv, CalledBackOnce, ToSet
<1>13. OnceInLists'
  BY <1>5, SameLists DEF LineInv
<1>14. task'[w].node = n
  BY <1>5 DEF Node
<1>. QED
  BY <1>0, <1>2, <1>5, <1>6, <1>9, <1>10, <1>11, <1>12, <1>13, <1>14, StepLeaves, LineAfterStep
  DEF InTask

\* The same three steps at a tap, where they move no packet.
LEMMA HeapOfTapKeepsLine ==
    ASSUME TypeOK, IsLine(graph), LineInv, NEW w \in Workers, Node(w) \in Taps(graph),
           Buffer(w) \/ TakeSmallest(w) \/ Requeue(w)
    PROVE  LineInv'
<1>0. Step(w) /\ pc[w] \in {"buffer", "drain", "requeue"}
  BY DEF Step, Buffer, TakeSmallest, Requeue
<1>. PICK n \in graph.nodes : n = Node(w)
  BY <1>0, TheThread
<1>1. n \in Taps(graph) /\ KeepsOrder(n) /\ taken[w] \in PktIds
  BY <1>0, TheThread DEF LineInv, OnlyOrderedNodesKeepOrder
<1>2. /\ executor' = executor /\ table' = table /\ called' = called
      /\ task' = task /\ graph' = graph /\ appTodo' = appTodo /\ submit' = submit
      /\ ready' = ready \/ ready' = Queued(taken[w], n)
  BY Zenon DEF Buffer, TakeSmallest, Requeue, appVars, queueVars, localVars, seenVars
<1>3. pc'[w] \in {"drain", "requeue", "dead"}
  BY DEF Buffer, TakeSmallest, Requeue, Goto, TypeOK
<1>4. \A m \in Ordered \ Taps(graph) : order'[m] = order[m]
  BY <1>1 DEF Buffer, TakeSmallest, Requeue, TypeOK
<1>5. \A m \in Ordered : \A p \in PktIds : InHeap(m, p)' <=> InHeap(m, p)
  BY <1>2, <1>4, SameGraph DEF InHeap
<1>6. HeapHasContexts'
  <2>. SUFFICES ASSUME NEW m \in Ordered, NEW p \in PktIds, InHeap(m, p)'
                PROVE  order'[m].heap[p] = 1 /\ p \in order'[m].ctxs
    BY <1>2, SameGraph DEF HeapHasContexts
  <2>1. InHeap(m, p) /\ m \notin Taps(graph)
    BY <1>5 DEF InHeap
  <2>. QED
    BY <1>4, <2>1 DEF LineInv, HeapHasContexts
<1>7. \A p : ~WithThread(w, p)'
  BY <1>1, <1>2, <1>3, SameGraph DEF WithThread, InTask, Node
<1>8. /\ OnceInLists'
      /\ \A p \in PktIds : \A l \in Lists : InList(ready[l], p)' => InList(ready[l], p)
  <2>1. CASE ready' = ready
    BY <1>2, <2>1, SameLists, Unmoved DEF LineInv
  <2>2. CASE ready' = Queued(taken[w], n)
    BY <1>1, <1>2, <2>2, QueuedPlaces DEF LineInv
  <2>. QED
    BY <1>2, <2>1, <2>2
<1>9. ASSUME NEW p \in PktIds
      PROVE  /\ WithCaller(p)' => WithCaller(p)
             /\ InList(executor, p)' => InList(executor, p)
             /\ \A v \in Workers : WithThread(v, p)' => WithThread(v, p)
  <2>1. /\ WithCaller(p)' => WithCaller(p)
        /\ InList(executor, p)' => InList(executor, p)
    BY <1>2, Unmoved
  <2>2. \A v \in Workers \ {w} : WithThread(v, p)' => WithThread(v, p)
    BY <1>0, OthersKeep
  <2>. QED
    BY <1>7, <2>1, <2>2
<1>10. OnePlace' /\ PlacedIsKept' /\ CalledIsLeaving'
  <2>1. \A v \in Workers : pc[v] = "erase" => pc'[v] = "erase"
    BY <1>0, TheThread
  <2>. QED
    BY <1>2, <1>5, <1>8, <1>9, <2>1, FewerInPlaces
<1>11. CalledBackOnce' /\ ToSet(called)' = ToSet(called)
  BY <1>2 DEF LineInv, CalledBackOnce, ToSet
<1>12. task'[w].node = n
  BY <1>2 DEF Node
<1>. QED
  BY <1>0, <1>1, <1>2, <1>3, <1>5, <1>6, <1>8, <1>10, <1>11, <1>12, StepLeaves, LineAfterStep
  DEF InTask

\* Thread w calls the application back: its packet was not called back yet.
LEMMA CallBackKeepsLine ==
    ASSUME TypeOK, IsLine(graph), LineInv, NEW w \in Workers, CallBack(w)
    PROVE  LineInv'
<1>0. Step(w) /\ pc[w] = "callback"
  BY DEF Step, CallBack
<1>. PICK q \in PktIds : q = Pkt(w)
  BY <1>0, TheThread
<1>1. /\ called' = Append(called, q) /\ pc' = [pc EXCEPT ![w] = "erase"]
      /\ ready' = ready /\ executor' = executor /\ table' = table /\ order' = order
      /\ task' = task /\ graph' = graph /\ appTodo' = appTodo /\ submit' = submit
  BY DEF CallBack, Goto, appVars, queueVars, localVars
<1>2. pc'[w] = "erase" /\ task'[w] = task[w]
  BY <1>1 DEF TypeOK
<1>3. WithThread(w, q) /\ \A p : WithThread(w, p)' <=> WithThread(w, p)
  BY <1>0, <1>2 DEF WithThread, InTask, Pkt
<1>4. w \in Places /\ "thread" \in Kinds /\ At("thread", w, q)
  BY <1>3 DEF Places, Kinds, At
<1>5. q \in table /\ q \notin ToSet(called)
  BY <1>0, <1>4 DEF LineInv, PlacedIsKept, CalledIsLeaving
<1>6. called \in Seq(PktIds) /\ ToSet(called)' = ToSet(called) \union {q}
  <2>1. called \in Seq(PktIds)
    BY DEF TypeOK
  <2>2. /\ DOMAIN called = 1 .. Len(called) /\ DOMAIN called' = 1 .. Len(called) + 1
        /\ Len(called) \in Nat /\ called'[Len(called) + 1] = q
        /\ \A i \in 1 .. Len(called) : called'[i] = called[i]
    BY <1>1, <2>1
  <2>. QED
    BY <2>1, <2>2 DEF ToSet
<1>7. CalledBackOnce'
  <2>1. \A i \in 1 .. Len(called) : called[i] # q
    BY <1>5, <1>6 DEF ToSet
  <2>2. /\ Len(called') = Len(called) + 1 /\ called'[Len(called) + 1] = q
        /\ \A i \in 1 .. Len(called) : called'[i] = called[i]
    BY <1>1, <1>6
  <2>. QED
    BY <1>6, <2>1, <2>2 DEF LineInv, CalledBackOnce
<1>8. \A p \in PktIds : \A a \in Kinds : \A i \in Places : At(a, i, p)' => At(a, i, p)
  <2>1. \A p \in PktIds : \A v \in Workers : WithThread(v, p)' => WithThread(v, p)
    BY <1>0, <1>3, OthersKeep
  <2>2. \A p \in PktIds :
            /\ WithCaller(p)' => WithCaller(p)
            /\ \A l : InList(ready[l], p)' => InList(ready[l], p)
            /\ InList(executor, p)' => InList(executor, p)
            /\ \A n : InHeap(n, p)' => InHeap(n, p)
    BY <1>1, Unmoved
  <2>. QED
    BY <1>1, <2>1, <2>2, SameGraph DEF At
<1>9. Places' = Places
  BY <1>1, SameGraph DEF Places
<1>10. OnePlace' /\ PlacedIsKept'
  BY <1>1, <1>8, <1>9 DEF LineInv, OnePlace, PlacedIsKept
<1>11. CalledIsLeaving'
  <2>. SUFFICES ASSUME NEW p \in ToSet(called) \union {q}, NEW a \in Kinds, NEW i \in Places,
                       At(a, i, p)'
                PROVE  a = "thread" /\ pc'[i] = "erase"
    BY <1>6, <1>9 DEF CalledIsLeaving
  <2>1. p \in PktIds /\ At(a, i, p)
    BY <1>6, <1>8 DEF ToSet
  <2>2. CASE p = q
    BY <1>2, <1>4, <2>1, <2>2 DEF LineInv, OnePlace
  <2>3. CASE p # q
    <3>1. a = "thread" /\ pc[i] = "erase"
      BY <2>1, <2>3 DEF LineInv, CalledIsLeaving
    <3>2. i \in Workers
      BY <2>1, <3>1 DEF At
    <3>. QED
      BY <1>0, <3>1, <3>2, TheThread
  <2>. QED
    BY <2>2, <2>3
<1>12. OnceInLists'
  BY <1>1, SameLists DEF LineInv
<1>13. HeapHasContexts' /\ \A n \in Ordered : \A p \in PktIds : InHeap(n, p)' => InHeap(n, p)
  BY <1>1, SameGraph DEF LineInv, HeapHasContexts, InHeap
<1>14. task'[w].node = GraphNode
  BY <1>0, <1>2 DEF LineInv, OnlyGraphNodeCallsBack, Node
<1>. QED
  BY <1>0, <1>1, <1>2, <1>5, <1>6, <1>7, <1>10, <1>11, <1>12, <1>13, <1>14, StepLeaves,
     LineAfterStep DEF InTask

\* Thread w erases the context of its packet: the packet is nowhere else.
LEMMA EraseKeepsLine ==
    ASSUME TypeOK, IsLine(graph), LineInv, NEW w \in Workers, Erase(w)
    PROVE  LineInv'
<1>0. Step(w) /\ pc[w] = "erase"
  BY DEF Step, Erase
<1>. PICK q \in PktIds : q = Pkt(w)
  BY <1>0, TheThread
<1>1. /\ table' = table \ {q}
      /\ ready' = ready /\ executor' = executor /\ order' = order /\ called' = called
      /\ task' = task /\ graph' = graph /\ appTodo' = appTodo /\ submit' = submit
  BY DEF Erase, Return, appVars, queueVars, localVars, seenVars
<1>2. Node(w) = GraphNode /\ task'[w] = task[w]
  BY <1>0, <1>1 DEF LineInv, OnlyGraphNodeCallsBack
<1>3. pc'[w] = "idle" \/ (pc'[w] = "setnext" /\ KeepsOrder(GraphNode))
  BY DEF Erase, Goto, Return, TypeOK
<1>4. \A p : ~WithThread(w, p)'
  BY <1>3 DEF WithThread, InTask
<1>5. w \in Places /\ "thread" \in Kinds /\ At("thread", w, q)
  BY <1>0 DEF Places, Kinds, At, WithThread
<1>6. \A p \in PktIds : \A a \in Kinds : \A i \in Places :
          At(a, i, p)' => At(a, i, p) /\ ~(a = "thread" /\ i = w)
  <2>1. \A p \in PktIds : \A v \in Workers : WithThread(v, p)' => WithThread(v, p) /\ v # w
    BY <1>0, <1>4, OthersKeep
  <2>2. \A p \in PktIds :
            /\ WithCaller(p)' => WithCaller(p)
            /\ \A l : InList(ready[l], p)' => InList(ready[l], p)
            /\ InList(executor, p)' => InList(executor, p)
            /\ \A n : InHeap(n, p)' => InHeap(n, p)
    BY <1>1, Unmoved
  <2>. QED
    BY <1>1, <2>1, <2>2, SameGraph DEF At
<1>7. Places' = Places /\ ToSet(called)' = ToSet(called) /\ ToSet(called) \subseteq PktIds
  BY <1>1, SameGraph DEF Places, ToSet, TypeOK
<1>8. OnePlace'
  BY <1>6, <1>7 DEF LineInv, OnePlace
<1>9. \A a \in Kinds : \A i \in Places : ~At(a, i, q)'
  BY <1>5, <1>6 DEF LineInv, OnePlace
<1>10. PlacedIsKept'
  BY <1>1, <1>6, <1>7, <1>9 DEF LineInv, PlacedIsKept
<1>11. CalledIsLeaving'
  <2>. SUFFICES ASSUME NEW p \in ToSet(called), NEW a \in Kinds, NEW i \in Places, At(a, i, p)'
                PROVE  a = "thread" /\ pc'[i] = "erase"
    BY <1>7 DEF CalledIsLeaving
  <2>1. p \in PktIds /\ At(a, i, p) /\ ~(a = "thread" /\ i = w)
    BY <1>6, <1>7
  <2>2. a = "thread" /\ pc[i] = "erase"
    BY <2>1 DEF LineInv, CalledIsLeaving
  <2>3. i \in Workers
    BY <2>1, <2>2 DEF At
  <2>. QED
    BY <1>0, <2>1, <2>2, <2>3, TheThread
<1>12. OnceInLists'
  BY <1>1, SameLists DEF LineInv
<1>13. CalledBackOnce'
  BY <1>1 DEF LineInv, CalledBackOnce
<1>14. HeapHasContexts' /\ \A n \in Ordered : \A p \in PktIds : InHeap(n, p)' => InHeap(n, p)
  BY <1>1, SameGraph DEF LineInv, HeapHasContexts, InHeap
<1>15. task'[w].node = GraphNode
  BY <1>2 DEF Node
<1>. QED
  BY <1>0, <1>1, <1>3, <1>7, <1>8, <1>10, <1>11, <1>12, <1>13, <1>14, <1>15, StepLeaves,
     LineAfterStep DEF InTask

\* Every step of a thread keeps a line's invariant.
LEMMA StepKeepsLine ==
    ASSUME TypeOK, IsLine(graph), LineInv, NEW w \in Workers, Step(w)
    PROVE  LineInv'
  BY StepsInHand, TakeKeepsLine, AddTaskKeepsLine, RequeueKeepsLine, BufferKeepsLine,
     TakeSmallestKeepsLine, HeapOfTapKeepsLine, CallBackKeepsLine, EraseKeepsLine DEF Step

\* The scheduler thread hands the first task of a list to the executor.
LEMMA ScheduleKeepsLine ==
    ASSUME TypeOK, IsLine(graph), LineInv, Schedule
    PROVE  LineInv'
<1>1. PICK k \in 0 .. NumPriorities - 1 :
          /\ ready[k] # <<>>
          /\ executor' = Append(executor, Head(ready[k]))
          /\ ready' = [ready EXCEPT ![k] = Tail(@)]
  BY DEF Schedule
<1>2. k \in Lists /\ ready[k] \in Seq(Tasks) /\ executor \in Seq(Tasks)
  BY SchedulerAssumption DEF Lists, TypeOK
<1>. PICK t \in Tasks : t = Head(ready[k])
  BY <1>1, <1>2
<1>. PICK rest : rest = Tail(ready[k])
  OBVIOUS
<1>. PICK longer : longer = Append(executor, t)
  OBVIOUS
<1>3. /\ executor' = longer /\ ready'[k] = rest
      /\ \A l \in Lists \ {k} : ready'[l] = ready[l]
      /\ table' = table /\ order' = order /\ called' = called /\ submit' = submit
      /\ graph' = graph /\ appTodo' = appTodo
      /\ pc' = pc /\ task' = task /\ todo' = todo /\ taken' = taken /\ holds' = holds
  BY <1>1, <1>2 DEF Schedule, appVars, localVars, seenVars, TypeOK
<1>4. Taps(graph)' = Taps(graph) /\ Lists' = Lists
  BY <1>3, SameGraph
<1>5. \A p \in PktIds :
          /\ InList(rest, p) => InList(ready[k], p)
          /\ Carries(t, p) => InList(ready[k], p) /\ ~InList(rest, p)
          /\ OnceIn(rest, p)
  BY <1>1, <1>2, TailOfList DEF LineInv, OnceInLists
<1>6. \A p \in PktIds : InList(ready[k], p) => ~InList(executor, p)
  BY <1>2 DEF LineInv, OnePlace, At, Kinds, Places
<1>7. ASSUME NEW p \in PktIds
      PROVE  /\ InList(longer, p) <=> InList(executor, p) \/ Carries(t, p)
             /\ OnceIn(longer, p)
  <2>1. OnceIn(executor, p) /\ ~(InList(executor, p) /\ Carries(t, p))
    BY <1>5, <1>6 DEF LineInv, OnceInLists
  <2>. QED
    BY <1>2, <2>1, AppendedList
<1>8. ASSUME NEW p \in PktIds
      PROVE  /\ InList(ready[k], p)' <=> InList(rest, p)
             /\ InList(executor, p)' <=> InList(longer, p)
  BY <1>3, <1>4 DEF InList, Carries
<1>9. OnceInLists'
  <2>1. ASSUME NEW p \in PktIds, NEW l \in Lists PROVE OnceIn(ready[l], p)'
    <3>1. CASE l = k
      <4>1. OnceIn(rest, p) /\ ready'[l] = rest
        BY <1>3, <1>5, <3>1
      <4>. QED
        BY <1>4, <4>1 DEF OnceIn, Carries
    <3>2. CASE l # k
      <4>1. OnceIn(ready[l], p) /\ ready'[l] = ready[l]
        BY <1>3, <3>2 DEF LineInv, OnceInLists
      <4>. QED
        BY <1>4, <4>1 DEF OnceIn, Carries
    <3>. QED
      BY <3>1, <3>2
  <2>2. ASSUME NEW p \in PktIds PROVE OnceIn(executor, p)'
    BY <1>3, <1>4, <1>7 DEF OnceIn, Carries
  <2>. QED
    BY <1>4, <2>1, <2>2 DEF OnceInLists
<1>10. ASSUME NEW p \in PktIds
       PROVE  /\ WithCaller(p)' => WithCaller(p)
              /\ \A l \in Lists : InList(ready[l], p)' => InList(ready[l], p)
              /\ InList(executor, p)' => InList(executor, p) \/ Carries(t, p)
              /\ \A w \in Workers : WithThread(w, p)' => WithThread(w, p)
              /\ \A n \in Ordered : InHeap(n, p)' => InHeap(n, p)
  <2>1. /\ WithCaller(p)' => WithCaller(p)
        /\ \A w \in Workers : WithThread(w, p)' => WithThread(w, p)
        /\ \A n \in Ordered : InHeap(n, p)' => InHeap(n, p)
        /\ \A l \in Lists \ {k} : InList(ready[l], p)' => InList(ready[l], p)
    BY <1>3, Unmoved
  <2>2. InList(ready[k], p)' => InList(ready[k], p)
    BY <1>5, <1>8
  <2>3. InList(executor, p)' => InList(executor, p) \/ Carries(t, p)
    BY <1>7, <1>8
  <2>. QED
    BY <2>1, <2>2, <2>3
<1>11. OnePlace' /\ PlacedIsKept' /\ CalledIsLeaving'
  <2>1. CASE t.node \in Taps(graph)
    <3>1. \A p : ~Carries(t, p)
      BY <2>1 DEF Carries
    <3>. QED
      BY <1>3, <1>10, <3>1, FewerInPlaces
  <2>2. CASE t.node \notin Taps(graph)
    <3>. PICK q \in PktIds : q = t.pkt
      BY DEF Tasks
    <3>1. \A p : Carries(t, p) <=> p = q
      BY <2>2 DEF Carries
    <3>2. At("ready", k, q) /\ ~At("ready", k, q)'
      BY <1>2, <1>5, <1>8, <3>1 DEF At
    <3>3. "executor" \in Kinds /\ "ready" \in Kinds /\ 0 \in Places /\ k \in Places
      BY <1>2 DEF Kinds, Places
    <3>. QED
      BY <1>3, <1>10, <3>1, <3>2, <3>3, MovesInPlaces
  <2>. QED
    BY <2>1, <2>2
<1>12. CalledBackOnce' /\ NotAddedIsNowhere'
  BY <1>3 DEF LineInv, CalledBackOnce, NotAddedIsNowhere, ToSet
<1>13. HeapHasContexts'
  BY <1>3, SameGraph DEF LineInv, HeapHasContexts, InHeap
<1>14. RunsWithContext' /\ OnlyOrderedNodesKeepOrder' /\ OnlyGraphNodeCallsBack' /\ TodoIsAhead'
  BY <1>3, SameGraph DEF LineInv, RunsWithContext, OnlyOrderedNodesKeepOrder,
     OnlyGraphNodeCallsBack, TodoIsAhead, InHeap, Node, InTask
<1>15. OnlyTapsCrash'
  BY <1>3, SameGraph DEF LineInv, OnlyTapsCrash, Node
<1>. QED
  BY <1>9, <1>11, <1>12, <1>13, <1>14, <1>15 DEF LineInv

\* The application adds a packet: it was nowhere before.
LEMMA AddPacketKeepsLine ==
    ASSUME TypeOK, IsLine(graph), LineInv, NEW q \in PktIds, AddPacketAsync(q)
    PROVE  LineInv'
<1>1. /\ submit[q] = "new" /\ table' = table \union {q}
      /\ submit' = [submit EXCEPT ![q] = "adding"]
      /\ appTodo' = [appTodo EXCEPT ![q] = Destinations(GraphNode)]
      /\ ready' = ready /\ executor' = executor /\ order' = order /\ called' = called
      /\ graph' = graph
      /\ pc' = pc /\ task' = task /\ todo' = todo /\ taken' = taken /\ holds' = holds
  BY DEF AddPacketAsync, MayAdd, queueVars, localVars, seenVars
<1>2. q \notin table /\ appTodo[q] = {} /\ q \notin ToSet(called)
  BY <1>1 DEF LineInv, NotAddedIsNowhere
<1>3. \A a \in Kinds : \A i \in Places : ~At(a, i, q)
  BY <1>2 DEF LineInv, PlacedIsKept
<1>4. appTodo'[q] = Destinations(GraphNode) /\ \A p \in PktIds \ {q} : appTodo'[p] = appTodo[p]
  BY <1>1 DEF TypeOK
<1>5. /\ Taps(graph)' = Taps(graph) /\ Lists' = Lists /\ Ordered' = Ordered
      /\ \A n : Destinations(n)' = Destinations(n)
  BY <1>1, SameGraph
<1>6. \A p \in PktIds : \A a \in Kinds : \A i \in Places :
          At(a, i, p)' => At(a, i, p) \/ (p = q /\ a = "caller" /\ i = 0)
  <2>1. \A p \in PktIds \ {q} : WithCaller(p)' => WithCaller(p)
    BY <1>4, <1>5 DEF WithCaller
  <2>2. \A p \in PktIds :
            /\ \A w \in Workers : WithThread(w, p)' => WithThread(w, p)
            /\ \A l : InList(ready[l], p)' => InList(ready[l], p)
            /\ InList(executor, p)' => InList(executor, p)
            /\ \A n : InHeap(n, p)' => InHeap(n, p)
    BY <1>1, Unmoved
  <2>. QED
    BY <1>5, <2>1, <2>2 DEF At
<1>7. Places' = Places /\ ToSet(called)' = ToSet(called) /\ ToSet(called) \subseteq PktIds
  BY <1>1, <1>5 DEF Places, ToSet, TypeOK
<1>8. OnePlace' /\ PlacedIsKept'
  BY <1>1, <1>3, <1>6, <1>7 DEF LineInv, OnePlace, PlacedIsKept
<1>9. CalledIsLeaving'
  BY <1>1, <1>2, <1>6, <1>7 DEF LineInv, CalledIsLeaving
<1>10. OnceInLists'
  BY <1>1, SameLists DEF LineInv
<1>11. NotAddedIsNowhere'
  <2>1. \A p \in PktIds : submit'[p] \in {"new", "refused", "skipped"} => p # q /\ submit'[p] = submit[p]
    BY <1>1 DEF TypeOK
  <2>. QED
    BY <1>1, <1>4, <1>7, <2>1 DEF LineInv, NotAddedIsNowhere
<1>12. TodoIsAhead'
  BY <1>1, <1>4, <1>5 DEF LineInv, TodoIsAhead, Node
<1>13. HeapHasContexts'
  BY <1>1, SameGraph DEF LineInv, HeapHasContexts, InHeap
<1>14. RunsWithContext' /\ OnlyOrderedNodesKeepOrder' /\ OnlyGraphNodeCallsBack'
  BY <1>1, SameGraph DEF LineInv, RunsWithContext, OnlyOrderedNodesKeepOrder,
     OnlyGraphNodeCallsBack, InHeap, Node, InTask
<1>15. OnlyTapsCrash' /\ CalledBackOnce'
  BY <1>1, SameGraph DEF LineInv, OnlyTapsCrash, Node, CalledBackOnce
<1>. QED
  BY <1>8, <1>9, <1>10, <1>11, <1>12, <1>13, <1>14, <1>15 DEF LineInv

\* The application's call adds the next ready task of the packet.
LEMMA AddFirstTaskKeepsLine ==
    ASSUME TypeOK, IsLine(graph), LineInv, NEW q \in PktIds, AddFirstTask(q)
    PROVE  LineInv'
<1>1. PICK n \in First(appTodo[q]) :
          /\ ready' = Queued(q, n)
          /\ appTodo' = [appTodo EXCEPT ![q] = @ \ {n}]
          /\ submit' = IF appTodo[q] = {n} THEN [submit EXCEPT ![q] = "accepted"] ELSE submit
  BY DEF AddFirstTask
<1>. PICK k \in Lists : k = graph.level[n] /\ n \in graph.nodes
  BY TheGraph DEF First, TypeOK
<1>2. /\ submit[q] = "adding" /\ n \in appTodo[q]
      /\ table' = table /\ executor' = executor /\ order' = order /\ called' = called
      /\ graph' = graph
      /\ pc' = pc /\ task' = task /\ todo' = todo /\ taken' = taken /\ holds' = holds
  BY DEF AddFirstTask, First, localVars, seenVars
<1>3. appTodo'[q] = appTodo[q] \ {n} /\ \A p \in PktIds \ {q} : appTodo'[p] = appTodo[p]
  BY <1>1 DEF TypeOK
<1>4. appTodo[q] \subseteq Destinations(GraphNode)
  BY DEF LineInv, TodoIsAhead
<1>5. Taps(graph)' = Taps(graph) /\ \A m : Destinations(m)' = Destinations(m)
  BY <1>2, SameGraph
<1>6. \A p \in PktIds : WithCaller(p)' => WithCaller(p)
  BY <1>3, <1>5 DEF WithCaller
<1>7. n \notin Taps(graph) => WithCaller(q) /\ ~WithCaller(q)'
  BY <1>2, <1>3, <1>4, <1>5, OneWayOn DEF WithCaller
<1>8. n \notin Taps(graph) => \A l \in Lists : ~InList(ready[l], q)
  BY <1>7 DEF LineInv, OnePlace, At, Kinds, Places
<1>9. /\ OnceInLists'
      /\ \A p \in PktIds : \A l \in Lists : InList(ready[l], p)' =>
             InList(ready[l], p) \/ (p = q /\ l = k /\ n \notin Taps(graph))
  BY <1>1, <1>2, <1>8, QueuedPlaces DEF LineInv
<1>10. ASSUME NEW p \in PktIds
       PROVE  /\ InList(executor, p)' => InList(executor, p)
              /\ \A w \in Workers : WithThread(w, p)' => WithThread(w, p)
              /\ \A m \in Ordered : InHeap(m, p)' => InHeap(m, p)
  BY <1>2, Unmoved
<1>11. OnePlace' /\ PlacedIsKept' /\ CalledIsLeaving'
  <2>1. CASE n \in Taps(graph)
    BY <1>2, <1>6, <1>9, <1>10, <2>1, FewerInPlaces
  <2>2. CASE n \notin Taps(graph)
    <3>1. At("caller", 0, q) /\ ~At("caller", 0, q)'
      BY <1>7, <2>2 DEF At
    <3>2. "caller" \in Kinds /\ "ready" \in Kinds /\ 0 \in Places /\ k \in Places
      BY DEF Kinds, Places
    <3>. QED
      BY <1>2, <1>6, <1>9, <1>10, <3>1, <3>2, MovesInPlaces
  <2>. QED
    BY <2>1, <2>2
<1>12. NotAddedIsNowhere'
  <2>1. \A p \in PktIds : submit'[p] \in {"new", "refused", "skipped"} => p # q /\ submit'[p] = submit[p]
    BY <1>1, <1>2 DEF TypeOK
  <2>2. ToSet(called)' = ToSet(called)
    BY <1>2 DEF ToSet
  <2>. QED
    BY <1>2, <1>3, <2>1, <2>2 DEF LineInv, NotAddedIsNowhere
<1>13. TodoIsAhead'
  <2>1. \A p \in PktIds : appTodo'[p] \subseteq Destinations(GraphNode)
    BY <1>3 DEF LineInv, TodoIsAhead
  <2>. QED
    BY <1>2, <1>5, <2>1 DEF LineInv, TodoIsAhead, Node
<1>14. HeapHasContexts'
  BY <1>2, SameGraph DEF LineInv, HeapHasContexts, InHeap
<1>15. RunsWithContext' /\ OnlyOrderedNodesKeepOrder' /\ OnlyGraphNodeCallsBack'
  BY <1>2, SameGraph DEF LineInv, RunsWithContext, OnlyOrderedNodesKeepOrder,
     OnlyGraphNodeCallsBack, InHeap, Node, InTask
<1>16. OnlyTapsCrash' /\ CalledBackOnce'
  BY <1>2, SameGraph DEF LineInv, OnlyTapsCrash, Node, CalledBackOnce
<1>. QED
  BY <1>9, <1>11, <1>12, <1>13, <1>14, <1>15, <1>16 DEF LineInv

\* A refused or announced packet, or no step at all: no task moves.
LEMMA NothingMoves ==
    ASSUME TypeOK, LineInv,
           table' = table, ready' = ready, executor' = executor, called' = called,
           graph' = graph, appTodo' = appTodo,
           pc' = pc, task' = task, todo' = todo, taken' = taken, holds' = holds,
           \A n \in Ordered : order'[n].heap = order[n].heap /\ order'[n].ctxs = order[n].ctxs,
           \A p \in PktIds : submit'[p] \in {"new", "refused", "skipped"} =>
               submit[p] \in {"new", "refused", "skipped"}
    PROVE  LineInv'
<1>1. \A n \in Ordered : \A p \in PktIds : InHeap(n, p)' <=> InHeap(n, p)
  BY DEF InHeap
<1>2. ASSUME NEW p \in PktIds
      PROVE  /\ WithCaller(p)' => WithCaller(p)
             /\ \A l \in Lists : InList(ready[l], p)' => InList(ready[l], p)
             /\ InList(executor, p)' => InList(executor, p)
             /\ \A w \in Workers : WithThread(w, p)' => WithThread(w, p)
  BY Unmoved
<1>3. OnePlace' /\ PlacedIsKept' /\ CalledIsLeaving'
  BY <1>1, <1>2, FewerInPlaces
<1>4. OnceInLists'
  BY SameLists DEF LineInv
<1>5. NotAddedIsNowhere' /\ OnlyTapsCrash' /\ CalledBackOnce'
  BY SameGraph DEF LineInv, NotAddedIsNowhere, OnlyTapsCrash, Node, CalledBackOnce, ToSet
<1>6. HeapHasContexts'
  BY <1>1, SameGraph DEF LineInv, HeapHasContexts
<1>7. RunsWithContext' /\ OnlyOrderedNodesKeepOrder' /\ OnlyGraphNodeCallsBack' /\ TodoIsAhead'
  BY <1>1, SameGraph DEF LineInv, RunsWithContext, OnlyOrderedNodesKeepOrder,
     OnlyGraphNodeCallsBack, TodoIsAhead, Node, InTask
<1>. QED
  BY <1>3, <1>4, <1>5, <1>6, <1>7 DEF LineInv

LEMMA RefusalKeepsLine ==
    ASSUME TypeOK, LineInv, NEW q \in PktIds, FlowControl(q) \/ AddSkipPacket(q)
    PROVE  LineInv'
<1>1. /\ table' = table /\ ready' = ready /\ executor' = executor /\ called' = called
      /\ graph' = graph /\ appTodo' = appTodo
      /\ pc' = pc /\ task' = task /\ todo' = todo /\ taken' = taken /\ holds' = holds
  BY DEF FlowControl, AddSkipPacket, queueVars, localVars, seenVars
<1>2. submit[q] \in {"new", "refused"} /\ \A p \in PktIds \ {q} : submit'[p] = submit[p]
  BY DEF FlowControl, AddSkipPacket, MayAdd, TypeOK
<1>3. \A n \in Ordered : order'[n].heap = order[n].heap /\ order'[n].ctxs = order[n].ctxs
  <2>1. CASE FlowControl(q)
    BY <2>1 DEF FlowControl
  <2>2. CASE AddSkipPacket(q)
    BY <2>2, AddSkipLeaves DEF AddSkipPacket, TypeOK
  <2>. QED
    BY <2>1, <2>2
<1>. QED
  BY <1>1, <1>2, <1>3, NothingMoves

LEMMA InitLine == ASSUME Init PROVE LineInv
<1>1. \A p \in PktIds :
          /\ ~WithCaller(p) /\ ~InList(executor, p)
          /\ \A l \in Lists : ~InList(ready[l], p)
          /\ \A w \in Workers : ~WithThread(w, p)
          /\ \A n \in Ordered : ~InHeap(n, p)
  <2>1. \A p \in PktIds : ~WithCaller(p) /\ ~InList(executor, p)
    BY DEF Init, WithCaller, InList
  <2>2. \A p \in PktIds : \A l \in Lists : ~InList(ready[l], p)
    BY DEF Init, InList
  <2>3. \A p \in PktIds : \A w \in Workers : ~WithThread(w, p)
    BY DEF Init, WithThread, InTask
  <2>4. \A p \in PktIds : \A n \in Ordered : ~InHeap(n, p)
    BY DEF Init, InHeap, EmptyOrder
  <2>. QED
    BY <2>1, <2>2, <2>3, <2>4
<1>2. \A p \in PktIds : \A a \in Kinds : \A i \in Places : ~At(a, i, p)
  BY <1>1 DEF At
<1>3. called = <<>> /\ ToSet(called) = {}
  BY DEF Init, ToSet
<1>4. OnePlace /\ PlacedIsKept /\ CalledIsLeaving /\ CalledBackOnce
  BY <1>2, <1>3 DEF OnePlace, PlacedIsKept, CalledIsLeaving, CalledBackOnce
<1>5. OnceInLists /\ NotAddedIsNowhere
  BY <1>3 DEF Init, OnceInLists, OnceIn, NotAddedIsNowhere
<1>6. TodoIsAhead /\ RunsWithContext /\ OnlyGraphNodeCallsBack /\ OnlyTapsCrash
  BY DEF Init, TodoIsAhead, RunsWithContext, OnlyGraphNodeCallsBack, OnlyTapsCrash, InTask
<1>7. OnlyOrderedNodesKeepOrder /\ HeapHasContexts
  BY <1>1 DEF Init, OnlyOrderedNodesKeepOrder, HeapHasContexts
<1>. QED
  BY <1>4, <1>5, <1>6, <1>7 DEF LineInv

LEMMA NextKeepsLine ==
    ASSUME TypeOK, IsLine(graph), LineInv, [Next]_vars
    PROVE  LineInv'
<1>1. CASE UNCHANGED vars
  BY <1>1, NothingMoves DEF vars, appVars, dataVars, queueVars, localVars, seenVars
<1>2. CASE Next
  BY <1>2, AddPacketKeepsLine, AddFirstTaskKeepsLine, RefusalKeepsLine, ScheduleKeepsLine,
     StepKeepsLine DEF Next
<1>. QED
  BY <1>1, <1>2

LEMMA GraphIsKept ==
    ASSUME TypeOK, [Next]_vars
    PROVE  graph' = graph
<1>1. CASE UNCHANGED vars
  BY <1>1 DEF vars, appVars
<1>2. CASE Next
  <2>1. ASSUME NEW w \in Workers, Step(w) PROVE graph' = graph
    BY <2>1, StepLeaves
  <2>. QED
    BY <1>2, <2>1 DEF Next, Schedule, AddPacketAsync, FlowControl, AddFirstTask, AddSkipPacket,
       appVars
<1>. QED
  BY <1>1, <1>2

\* The inductive invariant holds, whatever the graphs are.
THEOREM Invariant == Spec => []IInv
<1>1. Init => IInv
  BY InitTypes, InitLine DEF IInv
<1>2. IInv /\ [Next]_vars => IInv'
  <2>. SUFFICES ASSUME IInv, [Next]_vars PROVE IInv'
    OBVIOUS
  <2>1. graph' = graph /\ TypeOK'
    BY TypesKept, GraphIsKept DEF IInv
  <2>2. IsLine(graph)' => IsLine(graph)
    BY <2>1
  <2>. QED
    BY <2>1, <2>2, NextKeepsLine DEF IInv
<1>. QED
  BY <1>1, <1>2, PTL DEF Spec

\* In a line no thread on a packet's way dereferences a context that is gone:
\* every task but those of taps finds its packet in the table.
THEOREM LinesCrashAtTapsOnly == Spec => [](IsLine(graph) => OnlyTapsCrash)
<1>1. IInv => (IsLine(graph) => OnlyTapsCrash)
  BY DEF IInv, LineInv
<1>. QED
  BY <1>1, Invariant, PTL

\* In a line the result callback is called at most once per packet.
THEOREM LinesCallBackOnce == Spec => [](IsLine(graph) => CalledBackOnce)
<1>1. IInv => (IsLine(graph) => CalledBackOnce)
  BY DEF IInv, LineInv
<1>. QED
  BY <1>1, Invariant, PTL

-----------------------------------------------------------------------------
(***************************************************************************)
(* Lines that hand everything on: nothing stays in the table.              *)
(***************************************************************************)

\* What HandsOn says of the graph.
LEMMA TheLine ==
    ASSUME HandsOn(graph)
    PROVE  /\ IsLine(graph)
           /\ GraphNode \notin Taps(graph)
           /\ \A n : ~KeepsOrder(n)
           /\ \A n : OutEdges(n) \intersect graph.filters \intersect Onward(n) = {}
           /\ \A e \in Edges : InEdges(e[2]) = {e}
           /\ \A n \in graph.nodes \ Taps(graph) : Onward(n) # {}
           /\ \A n : \A m \in Destinations(n) \ Taps(graph) :
                  \E e \in Onward(n) : e[2] = m /\ InEdges(m) = {e}
<1>1. IsLine(graph) /\ GraphNode \notin Taps(graph)
  BY DEF HandsOn, Taps
<1>2. \A n : ~KeepsOrder(n)
  BY DEF HandsOn, KeepsOrder, Ordered
<1>3. \A n : OutEdges(n) \intersect graph.filters \intersect Onward(n) = {}
  BY DEF HandsOn, Onward
<1>4. \A e \in Edges : InEdges(e[2]) = {e}
  BY <1>1 DEF IsLine, InEdges, Edges
<1>5. ASSUME NEW n \in graph.nodes \ Taps(graph) PROVE Onward(n) # {}
  <2>1. PICK e \in graph.edges : e[1] = n /\ e[2] \notin Taps(graph)
    BY DEF HandsOn
  <2>. QED
    BY <2>1 DEF Onward, OutEdges, Edges
<1>6. ASSUME NEW n, NEW m \in Destinations(n) \ Taps(graph)
      PROVE  \E e \in Onward(n) : e[2] = m /\ InEdges(m) = {e}
  <2>1. PICK e \in OutEdges(n) : e[2] = m
    BY DEF Destinations
  <2>2. e \in Onward(n) /\ e \in Edges
    BY <2>1 DEF Onward, OutEdges
  <2>. QED
    BY <1>4, <2>1, <2>2
<1>. QED
  BY <1>1, <1>2, <1>3, <1>4, <1>5, <1>6

\* The tasks of a list after one was added, and after the first was taken.
LEMMA TasksOfList ==
    ASSUME NEW s \in Seq(Tasks), NEW t \in Tasks, NEW n, NEW p
    PROVE  /\ HasTask(Append(s, t), n, p) <=> HasTask(s, n, p) \/ IsTask(t, n, p)
           /\ s # <<>> =>
                  (HasTask(s, n, p) <=> HasTask(Tail(s), n, p) \/ IsTask(Head(s), n, p))
<1>1. HasTask(Append(s, t), n, p) <=> HasTask(s, n, p) \/ IsTask(t, n, p)
  <2>. DEFINE r == Append(s, t)
  <2>1. /\ Len(r) = Len(s) + 1 /\ r[Len(s) + 1] = t /\ Len(s) \in Nat
        /\ \A i \in 1 .. Len(s) : r[i] = s[i]
    OBVIOUS
  <2>. HIDE DEF r
  <2>2. \A i : i \in 1 .. Len(r) <=> i \in 1 .. Len(s) \/ i = Len(s) + 1
    BY <2>1
  <2>3. HasTask(r, n, p) <=> HasTask(s, n, p) \/ IsTask(t, n, p)
    BY <2>1, <2>2, Zenon DEF HasTask
  <2>. QED
    BY <2>3 DEF r
<1>2. ASSUME s # <<>>
      PROVE  HasTask(s, n, p) <=> HasTask(Tail(s), n, p) \/ IsTask(Head(s), n, p)
  <2>. DEFINE r == Tail(s)
  <2>1. /\ Len(s) \in Nat /\ Len(s) >= 1 /\ Len(r) = Len(s) - 1 /\ Head(s) = s[1]
        /\ \A i \in 1 .. Len(r) : r[i] = s[i + 1]
    BY <1>2
  <2>. HIDE DEF r
  <2>2. /\ \A i \in 1 .. Len(r) : i + 1 \in 1 .. Len(s)
        /\ 1 \in 1 .. Len(s)
    BY <2>1
  <2>3. \A i \in 1 .. Len(s) : i = 1 \/ \E j \in 1 .. Len(r) : i = j + 1
    <3>1. \A i \in 1 .. Len(s) : i # 1 => i - 1 \in 1 .. Len(r) /\ i = (i - 1) + 1
      BY <2>1
    <3>. QED
      BY <3>1
  <2>4. HasTask(s, n, p) => HasTask(r, n, p) \/ IsTask(s[1], n, p)
    BY <2>1, <2>3, Zenon DEF HasTask
  <2>5. HasTask(r, n, p) \/ IsTask(s[1], n, p) => HasTask(s, n, p)
    BY <2>1, <2>2, Zenon DEF HasTask
  <2>. QED
    BY <2>1, <2>4, <2>5 DEF r
<1>. QED
  BY <1>1, <1>2

\* A list, the caller or a thread that a step leaves alone has the same tasks.
LEMMA SameTasks ==
    ASSUME graph' = graph
    PROVE  /\ Taps(graph)' = Taps(graph) /\ Lists' = Lists
           /\ \A l, n, p : ready'[l] = ready[l] =>
                  (HasTask(ready[l], n, p)' <=> HasTask(ready[l], n, p))
           /\ executor' = executor =>
                  \A n, p : HasTask(executor, n, p)' <=> HasTask(executor, n, p)
           /\ \A v, n, p : pc'[v] = pc[v] /\ task'[v] = task[v] /\ todo'[v] = todo[v] =>
                  (WaitsAt(v, n, p)' <=> WaitsAt(v, n, p))
<1>1. Taps(graph)' = Taps(graph) /\ Lists' = Lists
  BY SameGraph
<1>2. ASSUME NEW l, NEW n, NEW p, ready'[l] = ready[l]
      PROVE  HasTask(ready[l], n, p)' <=> HasTask(ready[l], n, p)
  BY <1>2 DEF HasTask, IsTask
<1>3. ASSUME executor' = executor, NEW n, NEW p
      PROVE  HasTask(executor, n, p)' <=> HasTask(executor, n, p)
  BY <1>3 DEF HasTask, IsTask
<1>4. ASSUME NEW v, NEW n, NEW p, pc'[v] = pc[v], task'[v] = task[v], todo'[v] = todo[v]
      PROVE  WaitsAt(v, n, p)' <=> WaitsAt(v, n, p)
  BY <1>4 DEF WaitsAt, Pkt, Node
<1>. QED
  BY <1>1, <1>2, <1>3, <1>4

\* Where a task is pending that is no tap's, nothing else carries its packet.
LEMMA PendingIsPlaced ==
    ASSUME LineInv, NEW p \in PktIds, NEW n \in graph.nodes \ Taps(graph), Pending(n, p)
    PROVE  /\ p \in table
           /\ \A w \in Workers : WithThread(w, p) => WaitsAt(w, n, p)
<1>1. \A s : HasTask(s, n, p) => InList(s, p)
  BY DEF HasTask, IsTask, InList, Carries
<1>2. \A w \in Workers : WaitsAt(w, n, p) => WithThread(w, p)
  BY DEF WaitsAt, WithThread, Carries, InTask, Pkt, Node
<1>. DEFINE Here(a, i) == a \in Kinds /\ i \in Places /\ At(a, i, p)
<1>3. /\ n \in appTodo[p] => Here("caller", 0)
      /\ HasTask(executor, n, p) => Here("executor", 0)
      /\ \A l \in Lists : HasTask(ready[l], n, p) => Here("ready", l)
      /\ \A w \in Workers : WithThread(w, p) => Here("thread", w)
  BY <1>1 DEF At, Kinds, Places, WithCaller
<1>4. \A a, b, i, j : Here(a, i) /\ Here(b, j) => a = b /\ i = j /\ p \in table
  BY DEF LineInv, OnePlace, PlacedIsKept
<1>. HIDE DEF Here
<1>. QED
  BY <1>2, <1>3, <1>4 DEF Pending

\* A step that moves a task and leaves all packages where they are.
LEMMA TasksMove ==
    ASSUME FlowInv, graph' = graph, table' = table, inputs' = inputs, outputs' = outputs,
           AddedIsPacket',
           \A p \in PktIds : \A n : Pending(n, p)' <=> Pending(n, p),
           \A p \in table : \A w \in Workers : WithThread(w, p) =>
               WithThread(w, p)' \/ \E n \in graph.nodes \ Taps(graph) : Pending(n, p),
           \A w \in Workers : pc'[w] \in {"produce", "output", "propagate"} =>
               pc'[w] = pc[w] /\ task'[w] = task[w] /\ saw'[w] = saw[w],
           table \subseteq PktIds
    PROVE  FlowInv'
<1>. USE SameGraph DEF FlowInv
<1>1. DataWaits'
  <2>1. \A n, p : Waits(n, p)' <=> Waits(n, p)
    BY DEF Waits
  <2>. QED
    BY <2>1 DEF DataWaits
<1>2. WorkHasData'
  <2>1. \A n : Onward(n)' = Onward(n)
    BY DEF Onward
  <2>. SUFFICES ASSUME NEW w \in Workers, task'[w].node \notin Taps(graph),
                       pc'[w] \in {"produce", "output", "propagate"}
                PROVE  /\ pc'[w] = "produce" => saw'[w]
                       /\ pc'[w] \in {"output", "propagate"} =>
                              Onward(task'[w].node) \subseteq outputs[task'[w].pkt]
    BY <2>1 DEF WorkHasData, Node, Pkt
  <2>. QED
    BY DEF WorkHasData, Node, Pkt
<1>3. KeptIsSomewhere'
  <2>. SUFFICES ASSUME NEW p \in table, Somewhere(p) PROVE Somewhere(p)'
    BY DEF KeptIsSomewhere
  <2>1. (\E n \in graph.nodes \ Taps(graph) : Pending(n, p)) \/ \E w \in Workers : WithThread(w, p)'
    BY DEF Somewhere
  <2>. QED
    BY <2>1 DEF Somewhere
<1>. QED
  BY <1>1, <1>2, <1>3

\* A step of thread w that keeps the packet it has in its hands; what has to
\* be shown of that thread.
LEMMA FlowAfterStep ==
    ASSUME TypeOK, FlowInv, NEW w \in Workers, graph' = graph,
           submit' = submit, appTodo' = appTodo, ready' = ready, executor' = executor,
           table' \subseteq table,
           \A v \in Workers \ {w} :
               /\ pc'[v] = pc[v] /\ task'[v] = task[v] /\ todo'[v] = todo[v]
               /\ taken'[v] = taken[v] /\ saw'[v] = saw[v],
           \A p \in PktIds : \A n \in graph.nodes \ Taps(graph) :
               /\ Pending(n, p) => InEdges(n) \intersect inputs[p] \subseteq inputs'[p]
               /\ WaitsAt(w, n, p)' => InEdges(n) # {} /\ InEdges(n) \subseteq inputs'[p],
           \A p \in table' : WithThread(w, p) => WithThread(w, p)',
           \A v \in Workers \ {w} :
               pc[v] \in {"output", "propagate"} /\ Node(v) \notin Taps(graph) =>
                   outputs[Pkt(v)] \intersect Onward(Node(v)) \subseteq outputs'[Pkt(v)],
           task'[w].node \notin Taps(graph) =>
               /\ pc'[w] = "produce" => saw'[w]
               /\ pc'[w] \in {"output", "propagate"} =>
                      Onward(task'[w].node) \subseteq outputs'[task'[w].pkt]
    PROVE  FlowInv'
<1>1. \A v \in Workers \ {w} : \A n, p : WaitsAt(v, n, p)' <=> WaitsAt(v, n, p)
  BY SameTasks
<1>2. ASSUME NEW n, NEW p
      PROVE  /\ Pending(n, p)' => Pending(n, p) \/ WaitsAt(w, n, p)'
             /\ Pending(n, p) => Pending(n, p)' \/ WaitsAt(w, n, p)
  <2>1. /\ \A l \in Lists : HasTask(ready[l], n, p)' <=> HasTask(ready[l], n, p)
        /\ HasTask(executor, n, p)' <=> HasTask(executor, n, p)
        /\ Lists' = Lists
    BY SameTasks
  <2>. QED
    BY <1>1, <2>1 DEF Pending
<1>3. Taps(graph)' = Taps(graph) /\ Packets' = Packets /\ \A n : InEdges(n)' = InEdges(n)
  BY SameGraph
<1>4. \A n : Onward(n)' = Onward(n)
  BY <1>3, SameGraph DEF Onward
<1>5. DataWaits'
  <2>. SUFFICES ASSUME NEW p \in PktIds, NEW n \in graph.nodes \ Taps(graph), Pending(n, p)'
                PROVE  InEdges(n) # {} /\ InEdges(n) \subseteq inputs'[p]
    BY <1>3 DEF DataWaits, Waits
  <2>1. CASE WaitsAt(w, n, p)'
    BY <2>1
  <2>2. CASE Pending(n, p)
    BY <2>2 DEF FlowInv, DataWaits, Waits
  <2>. QED
    BY <1>2, <2>1, <2>2
<1>6. WorkHasData'
  <2>. SUFFICES ASSUME NEW v \in Workers, task'[v].node \notin Taps(graph)
                PROVE  /\ pc'[v] = "produce" => saw'[v]
                       /\ pc'[v] \in {"output", "propagate"} =>
                              Onward(task'[v].node) \subseteq outputs'[task'[v].pkt]
    BY <1>3, <1>4 DEF WorkHasData, Node, Pkt
  <2>1. CASE v = w
    BY <2>1
  <2>2. CASE v # w
    <3>1. Onward(Node(v)) \subseteq outputs[Pkt(v)] /\ pc'[v] \in {"output", "propagate"} =>
              Onward(Node(v)) \subseteq outputs'[Pkt(v)]
      BY <2>2 DEF Node
    <3>. QED
      BY <2>2, <3>1 DEF FlowInv, WorkHasData, Node, Pkt
  <2>. QED
    BY <2>1, <2>2
<1>7. KeptIsSomewhere'
  <2>. SUFFICES ASSUME NEW p \in table' PROVE Somewhere(p)'
    BY DEF KeptIsSomewhere
  <2>1. \A v \in Workers : WithThread(v, p) => WithThread(v, p)'
    BY Unmoved
  <2>2. \A n \in graph.nodes \ Taps(graph) : WaitsAt(w, n, p) => WithThread(w, p)
    BY DEF WaitsAt, WithThread, Carries, InTask, Pkt, Node
  <2>3. Somewhere(p)
    BY DEF FlowInv, KeptIsSomewhere
  <2>4. (\E n \in graph.nodes \ Taps(graph) : Pending(n, p)') \/ \E v \in Workers : WithThread(v, p)'
    BY <1>2, <2>1, <2>2, <2>3 DEF Somewhere
  <2>. QED
    BY <1>3, <2>4 DEF Somewhere
<1>8. AddedIsPacket'
  BY <1>3 DEF FlowInv, AddedIsPacket
<1>. QED
  BY <1>5, <1>6, <1>7, <1>8 DEF FlowInv

\* A thread whose task needs no tap's node finds the packages of its inputs.
LEMMA ThreadFindsData ==
    ASSUME TypeOK, FlowInv, NEW w \in Workers, pc[w] \in {"start", "read"},
           Node(w) \notin Taps(graph)
    PROVE  InEdges(Node(w)) # {} /\ InEdges(Node(w)) \subseteq inputs[Pkt(w)]
<1>1. Pkt(w) \in PktIds /\ Node(w) \in graph.nodes
  BY DEF TypeOK, Tasks, Pkt, Node
<1>2. Pending(Node(w), Pkt(w))
  BY DEF Pending, WaitsAt
<1>. QED
  BY <1>1, <1>2 DEF FlowInv, DataWaits, Waits

\* The steps of thread w that leave the packages where they are.
LEMMA HandKeepsFlow ==
    ASSUME TypeOK, LineInv, HandsOn(graph), FlowInv, NEW w \in Workers,
           \/ Start(w) \/ Read(w) \/ Finish(w) \/ CheckOutput(w) \/ AllAdded(w)
           \/ CallBack(w) \/ Erase(w) \/ (Produce(w) /\ AsksInVain(w))
    PROVE  FlowInv'
<1>1. /\ graph' = graph /\ submit' = submit /\ appTodo' = appTodo /\ table' \subseteq table
      /\ ready' = ready /\ executor' = executor /\ inputs' = inputs /\ outputs' = outputs
      /\ task' = task /\ taken' = taken /\ todo' = todo
  BY DEF Start, Read, Produce, Finish, CheckOutput, AllAdded, CallBack, Erase, Return,
         appVars, dataVars, queueVars, localVars, seenVars
<1>2. \A v \in Workers \ {w} : pc'[v] = pc[v] /\ saw'[v] = saw[v]
  BY DEF Start, Read, Produce, Finish, CheckOutput, AllAdded, CallBack, Erase, Return, Goto,
         appVars, dataVars, queueVars, localVars, seenVars, TypeOK
<1>. PICK q \in PktIds : q = Pkt(w)
  BY DEF TypeOK, Tasks, Pkt
<1>. PICK n \in graph.nodes : n = Node(w)
  BY DEF TypeOK, Tasks, Node
<1>3. ASSUME NEW m, NEW p
      PROVE  /\ WaitsAt(w, m, p)' <=>
                    /\ q = p
                    /\ \/ pc'[w] \in {"start", "read"} /\ n = m
                       \/ pc'[w] = "add" /\ m \in todo[w]
             /\ WaitsAt(w, m, p) <=>
                    /\ q = p
                    /\ \/ pc[w] \in {"start", "read"} /\ n = m
                       \/ pc[w] = "add" /\ m \in todo[w]
  BY <1>1 DEF WaitsAt, Pkt, Node
<1>4. /\ \A p : WithThread(w, p)' <=>
             \/ pc'[w] \in InTask /\ p = q /\ n \notin Taps(graph)
             \/ pc'[w] = "add" /\ p = q /\ todo[w] \ Taps(graph) # {}
             \/ pc'[w] \in {"callback", "erase"} /\ p = q
             \/ pc'[w] = "requeue" /\ n \notin Taps(graph) /\ taken[w] = p
      /\ \A p : WithThread(w, p) <=>
             \/ pc[w] \in InTask /\ p = q /\ n \notin Taps(graph)
             \/ pc[w] = "add" /\ p = q /\ todo[w] \ Taps(graph) # {}
             \/ pc[w] \in {"callback", "erase"} /\ p = q
             \/ pc[w] = "requeue" /\ n \notin Taps(graph) /\ taken[w] = p
  BY <1>1, SameGraph DEF WithThread, Carries, Pkt, Node, InTask
<1>0. n \notin Taps(graph) /\ pc[w] \in InTask \ {"start"} => holds[w]
  BY DEF LineInv, RunsWithContext
<1>. DEFINE Fine ==
       /\ pc'[w] \in {"start", "read"} => pc[w] \in {"start", "read"}
       /\ pc'[w] # "add"
       /\ \A p \in table' : WithThread(w, p) => WithThread(w, p)'
       /\ n \notin Taps(graph) =>
              /\ pc'[w] = "produce" => saw'[w]
              /\ pc'[w] \in {"output", "propagate"} => pc[w] \in {"output", "propagate"}
<1>. USE DEF Goto, Return, TypeOK, InTask
<1>5. ASSUME Start(w) PROVE Fine
  <2>1. pc[w] = "start" /\ pc'[w] \in {"idle", "read", "dead"}
    BY <1>5, TheLine DEF Start
  <2>2. n \notin Taps(graph) => pc'[w] = "read"
    <3>. SUFFICES ASSUME n \notin Taps(graph) PROVE pc'[w] = "read"
      OBVIOUS
    <3>1. IsInputReady(q, n)
      BY <2>1, ThreadFindsData DEF IsInputReady
    <3>2. Alive(q)
      <4>1. WithThread(w, q)
        BY <1>4, <2>1
      <4>. QED
        BY <4>1, InHandIsKept DEF LineInv, Alive
    <3>. QED
      BY <1>5, <3>1, <3>2, TheLine DEF Start
  <2>. QED
    BY <1>4, <2>1, <2>2
<1>6. ASSUME Read(w) PROVE Fine
  <2>1. pc[w] = "read" /\ pc'[w] = "produce" /\ saw'[w] = (InEdges(n) \intersect inputs[q] # {})
    BY <1>6 DEF Read
  <2>2. n \notin Taps(graph) => saw'[w]
    BY <2>1, ThreadFindsData
  <2>. QED
    BY <1>4, <2>1, <2>2
<1>7. ASSUME Finish(w) PROVE Fine
  <2>1. pc[w] = "read" /\ n = GraphNode
    BY <1>7 DEF Finish
  <2>2. n \notin Taps(graph) /\ pc[w] \in InTask \ {"start"}
    BY <2>1, TheLine
  <2>3. pc'[w] = "callback"
    BY <1>7, <2>2, <1>0 DEF Finish
  <2>. QED
    BY <1>4, <2>1, <2>3
<1>8. ASSUME CheckOutput(w) PROVE Fine
  <2>1. pc[w] = "output" /\ pc'[w] \in {"idle", "propagate"}
    BY <1>8 DEF CheckOutput
  <2>2. n \notin Taps(graph) => pc'[w] = "propagate"
    <3>. SUFFICES ASSUME n \notin Taps(graph) PROVE IsOutputReady(q, n)
      BY <1>8 DEF CheckOutput
    <3>1. Onward(n) # {} /\ Onward(n) \subseteq outputs[q]
      BY <2>1, TheLine DEF FlowInv, WorkHasData
    <3>. QED
      BY <3>1 DEF Onward, IsOutputReady
  <2>. QED
    BY <1>4, <2>1, <2>2
<1>9. ASSUME AllAdded(w) PROVE Fine
  <2>1. pc[w] = "add" /\ pc'[w] = "idle" /\ todo[w] = {}
    BY <1>9, TheLine DEF AllAdded
  <2>. QED
    BY <1>4, <2>1
<1>10. ASSUME CallBack(w) PROVE Fine
  <2>1. pc[w] = "callback" /\ pc'[w] = "erase"
    BY <1>10 DEF CallBack
  <2>. QED
    BY <1>4, <2>1
<1>11. ASSUME Erase(w) PROVE Fine
  <2>1. pc[w] = "erase" /\ pc'[w] = "idle" /\ table' = table \ {q}
    BY <1>11, TheLine DEF Erase
  <2>. QED
    BY <1>4, <2>1
<1>. HIDE DEF Goto, Return, TypeOK, InTask
<1>11a. ASSUME Produce(w), AsksInVain(w) PROVE Fine
  <2>1. pc[w] = "produce" /\ ~Alive(q) /\ pc'[w] = "dead"
    BY <1>11a DEF Produce, AsksInVain, Goto, TypeOK
  <2>2. n \in Taps(graph)
    BY <1>0, <2>1 DEF Alive, InTask
  <2>. QED
    BY <1>4, <2>1, <2>2
<1>12. Fine
  BY <1>5, <1>6, <1>7, <1>8, <1>9, <1>10, <1>11, <1>11a
<1>13. ASSUME NEW p \in PktIds, NEW m \in graph.nodes \ Taps(graph), WaitsAt(w, m, p)'
       PROVE  InEdges(m) # {} /\ InEdges(m) \subseteq inputs'[p]
  BY <1>1, <1>3, <1>12, <1>13, ThreadFindsData
<1>14. Onward(n) \subseteq outputs[q] \/ n \in Taps(graph) \/ pc[w] \notin {"output", "propagate"}
  BY DEF FlowInv, WorkHasData
<1>15. task'[w].node = n /\ task'[w].pkt = q
  BY <1>1 DEF Node, Pkt
<1>. QED
  BY <1>1, <1>2, <1>12, <1>13, <1>14, <1>15, FlowAfterStep

\* Processing node n fills the outputs that lead on, and clears n's inputs only,
\* which no other task needs.
LEMMA ProduceKeepsFlow ==
    ASSUME TypeOK, LineInv, HandsOn(graph), FlowInv, NEW w \in Workers, Produce(w),
           ~AsksInVain(w)
    PROVE  FlowInv'
<1>. PICK q \in PktIds : q = Pkt(w)
  BY DEF TypeOK, Tasks, Pkt
<1>. PICK n \in graph.nodes : n = Node(w)
  BY DEF TypeOK, Tasks, Node
<1>1. PICK filled \in SUBSET OutEdges(n) :
          /\ ~saw[w] => filled = {}
          /\ saw[w] => OutEdges(n) \ graph.filters \subseteq filled
          /\ outputs' = [outputs EXCEPT ![q] = @ \union filled]
  BY Zenon DEF Produce
<1>2. /\ pc[w] = "produce" /\ inputs' = [inputs EXCEPT ![q] = @ \ InEdges(n)]
      /\ graph' = graph /\ submit' = submit /\ appTodo' = appTodo /\ table' = table
      /\ ready' = ready /\ executor' = executor /\ pc' = [pc EXCEPT ![w] = "output"]
      /\ task' = task /\ taken' = taken /\ todo' = todo /\ saw' = saw
  BY Zenon DEF Produce, Goto, appVars, queueVars, localVars
<1>3. /\ pc'[w] = "output" /\ \A v \in Workers \ {w} : pc'[v] = pc[v]
      /\ inputs'[q] = inputs[q] \ InEdges(n) /\ \A p \in PktIds \ {q} : inputs'[p] = inputs[p]
      /\ outputs'[q] = outputs[q] \union filled
      /\ \A p \in PktIds \ {q} : outputs'[p] = outputs[p]
  BY <1>1, <1>2 DEF TypeOK
<1>4. \A v \in Workers : outputs[Pkt(v)] \subseteq outputs'[Pkt(v)]
  <2>1. \A v \in Workers : Pkt(v) \in PktIds
    BY DEF TypeOK, Tasks, Pkt
  <2>. QED
    BY <1>3, <2>1
<1>5. ASSUME NEW p \in PktIds, NEW m \in graph.nodes \ Taps(graph), Pending(m, p)
      PROVE  InEdges(m) \intersect inputs[p] \subseteq inputs'[p]
  <2>1. ~(p = q /\ m = n)
    <3>. SUFFICES ASSUME p = q, m = n PROVE FALSE
      OBVIOUS
    <3>1. WithThread(w, p)
      BY <1>2 DEF WithThread, InTask, Carries, Pkt, Node
    <3>2. WaitsAt(w, m, p)
      BY <1>5, <3>1, PendingIsPlaced
    <3>. QED
      BY <1>2, <3>2 DEF WaitsAt
  <2>2. CASE p # q
    BY <1>3, <2>2
  <2>3. CASE p = q
    <3>1. InEdges(m) \intersect InEdges(n) = {}
      BY <2>1, <2>3 DEF InEdges
    <3>. QED
      BY <1>3, <2>3, <3>1
  <2>. QED
    BY <2>2, <2>3
<1>6. \A m, p : ~WaitsAt(w, m, p)'
  BY <1>3 DEF WaitsAt
<1>7. \A p : WithThread(w, p) => WithThread(w, p)'
  BY <1>2, <1>3, SameGraph DEF WithThread, InTask, Carries
<1>8. n \notin Taps(graph) => Onward(n) \subseteq outputs'[q]
  <2>. SUFFICES ASSUME n \notin Taps(graph) PROVE Onward(n) \subseteq filled
    BY <1>3
  <2>1. saw[w]
    BY <1>2 DEF FlowInv, WorkHasData
  <2>2. OutEdges(n) \ graph.filters \subseteq filled
    BY <1>1, <2>1
  <2>3. Onward(n) \subseteq OutEdges(n) \ graph.filters
    BY TheLine DEF Onward
  <2>. QED
    BY <2>2, <2>3
<1>9. task'[w].node = n /\ task'[w].pkt = q
  BY <1>2 DEF Node, Pkt
<1>. QED
  BY <1>2, <1>3, <1>4, <1>5, <1>6, <1>7, <1>8, <1>9, FlowAfterStep

\* What the outputs hold moves to where the next node waits for it.
LEMMA PropagateKeepsFlow ==
    ASSUME TypeOK, LineInv, HandsOn(graph), FlowInv, NEW w \in Workers, Propagate(w)
    PROVE  FlowInv'
<1>. PICK q \in PktIds : q = Pkt(w)
  BY DEF TypeOK, Tasks, Pkt
<1>. PICK n \in graph.nodes : n = Node(w)
  BY DEF TypeOK, Tasks, Node
<1>. PICK moved : moved = outputs[q] \intersect OutEdges(n)
  OBVIOUS
<1>1. pc[w] = "propagate" /\ n \notin Taps(graph) /\ holds[w]
  BY DEF Propagate, LineInv, RunsWithContext, InTask
<1>2. /\ inputs' = [inputs EXCEPT ![q] = @ \union moved]
      /\ outputs' = [outputs EXCEPT ![q] = @ \ moved]
      /\ graph' = graph /\ submit' = submit /\ appTodo' = appTodo /\ table' = table
      /\ ready' = ready /\ executor' = executor /\ pc' = [pc EXCEPT ![w] = "add"]
      /\ task' = task /\ taken' = taken /\ todo' = [todo EXCEPT ![w] = Destinations(n)]
      /\ saw' = saw
  BY <1>1 DEF Propagate, Goto, appVars, queueVars
<1>3. /\ pc'[w] = "add" /\ todo'[w] = Destinations(n)
      /\ \A v \in Workers \ {w} : pc'[v] = pc[v] /\ todo'[v] = todo[v]
      /\ inputs'[q] = inputs[q] \union moved /\ \A p \in PktIds \ {q} : inputs'[p] = inputs[p]
      /\ \A p \in PktIds \ {q} : outputs'[p] = outputs[p]
  BY <1>2 DEF TypeOK
<1>4. task'[w].node = n /\ task'[w].pkt = q
  BY <1>2 DEF Node, Pkt
<1>5. WithThread(w, q) /\ \A p : WithThread(w, p) => p = q
  BY <1>1 DEF WithThread, InTask, Carries, Pkt, Node
<1>6. ASSUME NEW v \in Workers \ {w}, pc[v] \in {"output", "propagate"}, Node(v) \notin Taps(graph)
      PROVE  outputs[Pkt(v)] \subseteq outputs'[Pkt(v)]
  <2>1. Pkt(v) \in PktIds /\ WithThread(v, Pkt(v))
    BY <1>6 DEF TypeOK, Tasks, WithThread, InTask, Carries, Pkt, Node
  <2>2. Pkt(v) # q
    BY <1>5, <2>1 DEF LineInv, OnePlace, At, Kinds, Places
  <2>. QED
    BY <1>3, <2>1, <2>2
<1>7. \A p \in PktIds : inputs[p] \subseteq inputs'[p]
  BY <1>3
<1>8. ASSUME NEW p \in PktIds, NEW m \in graph.nodes \ Taps(graph), WaitsAt(w, m, p)'
      PROVE  InEdges(m) # {} /\ InEdges(m) \subseteq inputs'[p]
  <2>1. p = q /\ m \in Destinations(n) \ Taps(graph)
    BY <1>3, <1>4, <1>8 DEF WaitsAt, Pkt
  <2>2. PICK e \in Onward(n) : InEdges(m) = {e}
    BY <2>1, TheLine
  <2>3. e \in OutEdges(n) /\ e \in outputs[q]
    BY <1>1 DEF Onward, FlowInv, WorkHasData
  <2>. QED
    BY <1>3, <2>1, <2>2, <2>3
<1>9. WithThread(w, q)'
  <2>1. PICK e \in Onward(n) : TRUE
    BY <1>1, TheLine
  <2>2. e[2] \in Destinations(n) \ Taps(graph)
    BY <2>1 DEF Onward, Destinations
  <2>. QED
    BY <1>2, <1>3, <1>4, <2>2, SameGraph DEF WithThread, Pkt
<1>. QED
  BY <1>2, <1>3, <1>5, <1>6, <1>7, <1>8, <1>9, FlowAfterStep

\* A task that leaves one list or hand for another is pending all the time.
LEMMA QueuedIsPending ==
    ASSUME TypeOK, NEW q \in PktIds, NEW m \in graph.nodes, ready' = Queued(q, m),
           graph' = graph, NEW n, NEW p
    PROVE  (\E l \in Lists : HasTask(ready[l], n, p)') <=>
               (\E l \in Lists : HasTask(ready[l], n, p)) \/ (n = m /\ p = q)
<1>. DEFINE t == [pkt |-> q, node |-> m]
<1>. PICK k \in Lists : k = graph.level[m]
  BY TheGraph
<1>1. /\ ready'[k] = Append(ready[k], t) /\ t \in Tasks /\ ready[k] \in Seq(Tasks)
      /\ \A l \in Lists \ {k} : ready'[l] = ready[l]
  BY QueuedTypes DEF TypeOK
<1>2. IsTask(t, n, p) <=> n = m /\ p = q
  BY DEF IsTask
<1>. HIDE DEF t
<1>3. HasTask(ready'[k], n, p) <=> HasTask(ready[k], n, p) \/ (n = m /\ p = q)
  BY <1>1, <1>2, TasksOfList
<1>4. \A l \in Lists : HasTask(ready[l], n, p)' <=> HasTask(ready'[l], n, p)
  BY DEF HasTask, IsTask
<1>. QED
  BY <1>1, <1>3, <1>4

LEMMA ScheduleKeepsFlow ==
    ASSUME TypeOK, FlowInv, Schedule
    PROVE  FlowInv'
<1>1. PICK k \in 0 .. NumPriorities - 1 :
          /\ ready[k] # <<>>
          /\ executor' = Append(executor, Head(ready[k]))
          /\ ready' = [ready EXCEPT ![k] = Tail(@)]
  BY DEF Schedule
<1>2. k \in Lists /\ ready[k] \in Seq(Tasks) /\ executor \in Seq(Tasks)
  BY SchedulerAssumption DEF Lists, TypeOK
<1>. PICK t \in Tasks : t = Head(ready[k])
  BY <1>1, <1>2
<1>3. /\ executor' = Append(executor, t) /\ ready'[k] = Tail(ready[k])
      /\ \A l \in Lists \ {k} : ready'[l] = ready[l]
      /\ table' = table /\ submit' = submit /\ graph' = graph /\ appTodo' = appTodo
      /\ inputs' = inputs /\ outputs' = outputs /\ saw' = saw
      /\ pc' = pc /\ task' = task /\ todo' = todo /\ taken' = taken
  BY <1>1, <1>2 DEF Schedule, appVars, dataVars, localVars, TypeOK
<1>4. ASSUME NEW p \in PktIds, NEW n PROVE Pending(n, p)' <=> Pending(n, p)
  <2>1. /\ HasTask(executor', n, p) <=> HasTask(executor, n, p) \/ IsTask(t, n, p)
        /\ HasTask(ready[k], n, p) <=> HasTask(ready'[k], n, p) \/ IsTask(t, n, p)
    BY <1>1, <1>2, <1>3, TasksOfList
  <2>2. /\ HasTask(executor, n, p)' <=> HasTask(executor', n, p)
        /\ \A l : HasTask(ready[l], n, p)' <=> HasTask(ready'[l], n, p)
    BY DEF HasTask, IsTask
  <2>3. Lists' = Lists /\ \A w \in Workers : WaitsAt(w, n, p)' <=> WaitsAt(w, n, p)
    BY <1>3, SameTasks
  <2>. QED
    BY <1>2, <1>3, <2>1, <2>2, <2>3 DEF Pending
<1>5. \A w \in Workers : \A p : WithThread(w, p) => WithThread(w, p)'
  BY <1>3, Unmoved
<1>6. AddedIsPacket'
  BY <1>3, SameGraph DEF FlowInv, AddedIsPacket
<1>7. table \subseteq PktIds
  BY DEF TypeOK
<1>. QED
  BY <1>3, <1>4, <1>5, <1>6, <1>7, TasksMove

LEMMA TakeKeepsFlow ==
    ASSUME TypeOK, FlowInv, NEW w \in Workers, Take(w)
    PROVE  FlowInv'
<1>0. Step(w) /\ executor # <<>> /\ executor \in Seq(Tasks)
  BY DEF Step, Take, TypeOK
<1>. PICK t \in Tasks : t = Head(executor)
  BY <1>0
<1>1. /\ pc[w] = "idle" /\ executor' = Tail(executor)
      /\ task' = [task EXCEPT ![w] = t] /\ pc' = [pc EXCEPT ![w] = "start"]
      /\ table' = table /\ ready' = ready /\ submit' = submit /\ saw' = saw
      /\ graph' = graph /\ appTodo' = appTodo /\ inputs' = inputs /\ outputs' = outputs
  BY DEF Take, Goto, appVars, dataVars
<1>2. /\ pc'[w] = "start" /\ task'[w] = t
      /\ \A v \in Workers \ {w} : pc'[v] = pc[v] /\ task'[v] = task[v]
  BY <1>1 DEF TypeOK
<1>3. ASSUME NEW p \in PktIds, NEW n PROVE Pending(n, p)' <=> Pending(n, p)
  <2>1. HasTask(executor, n, p) <=> HasTask(executor', n, p) \/ IsTask(t, n, p)
    BY <1>0, <1>1, TasksOfList
  <2>2. WaitsAt(w, n, p)' <=> IsTask(t, n, p)
    BY <1>2 DEF WaitsAt, IsTask, Pkt, Node
  <2>3. ~WaitsAt(w, n, p)
    BY <1>1 DEF WaitsAt
  <2>4. \A v \in Workers \ {w} : WaitsAt(v, n, p)' <=> WaitsAt(v, n, p)
    BY <1>0, <1>1, StepLeaves, SameTasks
  <2>5. /\ HasTask(executor, n, p)' <=> HasTask(executor', n, p)
        /\ \A l \in Lists : HasTask(ready[l], n, p)' <=> HasTask(ready[l], n, p)
        /\ Lists' = Lists
    BY <1>1, SameTasks DEF HasTask, IsTask
  <2>. QED
    BY <1>1, <2>1, <2>2, <2>3, <2>4, <2>5 DEF Pending
<1>4. \A v \in Workers : \A p : WithThread(v, p) => WithThread(v, p)'
  <2>1. \A p : ~WithThread(w, p)
    BY <1>1 DEF WithThread, InTask
  <2>. QED
    BY <1>0, <2>1, OthersKeep
<1>5. AddedIsPacket'
  BY <1>1, SameGraph DEF FlowInv, AddedIsPacket
<1>6. table \subseteq PktIds
  BY DEF TypeOK
<1>. QED
  BY <1>1, <1>2, <1>3, <1>4, <1>5, <1>6, TasksMove

LEMMA AddTaskKeepsFlow ==
    ASSUME TypeOK, FlowInv, NEW w \in Workers, AddTask(w)
    PROVE  FlowInv'
<1>0. Step(w)
  BY DEF Step
<1>. PICK q \in PktIds : q = Pkt(w)
  BY <1>0, TheThread
<1>. PICK m \in First(todo[w]) :
         ready' = Queued(Pkt(w), m) /\ todo' = [todo EXCEPT ![w] = @ \ {m}]
  BY DEF AddTask
<1>1. /\ pc[w] = "add" /\ m \in todo[w] /\ ready' = Queued(q, m) /\ m \in graph.nodes
      /\ executor' = executor /\ table' = table /\ submit' = submit
      /\ pc' = pc /\ task' = task /\ taken' = taken /\ saw' = saw
      /\ graph' = graph /\ appTodo' = appTodo /\ inputs' = inputs /\ outputs' = outputs
  BY DEF AddTask, First, appVars, dataVars, TypeOK
<1>2. todo'[w] = todo[w] \ {m}
  BY DEF TypeOK
<1>3. ASSUME NEW p \in PktIds, NEW n PROVE Pending(n, p)' <=> Pending(n, p)
  <2>1. (\E l \in Lists : HasTask(ready[l], n, p)') <=>
            (\E l \in Lists : HasTask(ready[l], n, p)) \/ (n = m /\ p = q)
    BY <1>1, QueuedIsPending
  <2>2. WaitsAt(w, n, p)' <=> p = q /\ n \in todo[w] \ {m}
    BY <1>1, <1>2 DEF WaitsAt, Pkt
  <2>3. WaitsAt(w, n, p) <=> p = q /\ n \in todo[w]
    BY <1>1 DEF WaitsAt, Pkt
  <2>4. \A v \in Workers \ {w} : WaitsAt(v, n, p)' <=> WaitsAt(v, n, p)
    BY <1>0, <1>1, StepLeaves, SameTasks
  <2>5. /\ HasTask(executor, n, p)' <=> HasTask(executor, n, p)
        /\ Lists' = Lists
    BY <1>1, SameTasks
  <2>. QED
    BY <1>1, <2>1, <2>2, <2>3, <2>4, <2>5 DEF Pending
<1>4. \A v \in Workers : \A p \in table : WithThread(v, p) =>
          WithThread(v, p)' \/ \E n \in graph.nodes \ Taps(graph) : Pending(n, p)
  <2>1. ASSUME NEW p \in table, WithThread(w, p)
        PROVE  \E n \in graph.nodes \ Taps(graph) : Pending(n, p)
    <3>1. p = q /\ \E n \in graph.nodes \ Taps(graph) : n \in todo[w]
      BY <1>1, <2>1 DEF WithThread, InTask, TypeOK
    <3>. QED
      BY <1>1, <3>1 DEF Pending, WaitsAt
  <2>. QED
    BY <1>0, <2>1, OthersKeep
<1>5. AddedIsPacket'
  BY <1>1, SameGraph DEF FlowInv, AddedIsPacket
<1>6. table \subseteq PktIds
  BY DEF TypeOK
<1>. QED
  BY <1>1, <1>3, <1>4, <1>5, <1>6, TasksMove

LEMMA AddFirstTaskKeepsFlow ==
    ASSUME TypeOK, FlowInv, NEW q \in PktIds, AddFirstTask(q)
    PROVE  FlowInv'
<1>1. PICK m \in First(appTodo[q]) :
          /\ ready' = Queued(q, m)
          /\ appTodo' = [appTodo EXCEPT ![q] = @ \ {m}]
          /\ submit' = IF appTodo[q] = {m} THEN [submit EXCEPT ![q] = "accepted"] ELSE submit
  BY DEF AddFirstTask
<1>2. /\ submit[q] = "adding" /\ m \in appTodo[q] /\ m \in graph.nodes
      /\ table' = table /\ executor' = executor /\ graph' = graph
      /\ inputs' = inputs /\ outputs' = outputs
      /\ pc' = pc /\ task' = task /\ todo' = todo /\ taken' = taken /\ saw' = saw
  BY DEF AddFirstTask, First, dataVars, localVars, TypeOK
<1>3. appTodo'[q] = appTodo[q] \ {m} /\ \A p \in PktIds \ {q} : appTodo'[p] = appTodo[p]
  BY <1>1 DEF TypeOK
<1>4. ASSUME NEW p \in PktIds, NEW n PROVE Pending(n, p)' <=> Pending(n, p)
  <2>1. (\E l \in Lists : HasTask(ready[l], n, p)') <=>
            (\E l \in Lists : HasTask(ready[l], n, p)) \/ (n = m /\ p = q)
    BY <1>1, <1>2, QueuedIsPending
  <2>2. n \in appTodo'[p] \/ (n = m /\ p = q) <=> n \in appTodo[p]
    BY <1>2, <1>3
  <2>3. \A v \in Workers : WaitsAt(v, n, p)' <=> WaitsAt(v, n, p)
    BY <1>2, SameTasks
  <2>4. /\ HasTask(executor, n, p)' <=> HasTask(executor, n, p)
        /\ Lists' = Lists
    BY <1>2, SameTasks
  <2>. QED
    BY <2>1, <2>2, <2>3, <2>4 DEF Pending
<1>5. \A v \in Workers : \A p : WithThread(v, p) => WithThread(v, p)'
  BY <1>2, Unmoved
<1>6. AddedIsPacket'
  <2>1. ASSUME NEW p \in PktIds
        PROVE  /\ submit'[p] # "new" => p \in Packets
               /\ appTodo'[p] # {} => submit'[p] = "adding"
    <3>1. /\ submit[p] # "new" => p \in Packets
          /\ appTodo[p] # {} => submit[p] = "adding"
      BY DEF FlowInv, AddedIsPacket
    <3>2. CASE p = q
      BY <1>1, <1>2, <1>3, <3>1, <3>2 DEF TypeOK
    <3>3. CASE p # q
      BY <1>1, <1>3, <3>1, <3>3 DEF TypeOK
    <3>. QED
      BY <3>2, <3>3
  <2>. QED
    BY <1>2, <2>1, SameGraph DEF AddedIsPacket
<1>7. table \subseteq PktIds
  BY DEF TypeOK
<1>. QED
  BY <1>2, <1>4, <1>5, <1>6, <1>7, TasksMove

\* The application adds a packet: its first tasks find what it brought.
LEMMA AddPacketKeepsFlow ==
    ASSUME TypeOK, LineInv, HandsOn(graph), FlowInv, NEW q \in PktIds, AddPacketAsync(q)
    PROVE  FlowInv'
<1>1. /\ submit[q] = "new" /\ q \in Packets /\ table' = table \union {q}
      /\ submit' = [submit EXCEPT ![q] = "adding"]
      /\ appTodo' = [appTodo EXCEPT ![q] = Destinations(GraphNode)]
      /\ inputs' = [inputs EXCEPT ![q] = OutEdges(GraphNode)]
      /\ ready' = ready /\ executor' = executor /\ outputs' = outputs /\ graph' = graph
      /\ pc' = pc /\ task' = task /\ todo' = todo /\ taken' = taken /\ saw' = saw
  BY DEF AddPacketAsync, MayAdd, queueVars, localVars
<1>2. /\ submit'[q] = "adding" /\ appTodo'[q] = Destinations(GraphNode)
      /\ inputs'[q] = OutEdges(GraphNode)
      /\ \A p \in PktIds \ {q} :
             submit'[p] = submit[p] /\ appTodo'[p] = appTodo[p] /\ inputs'[p] = inputs[p]
  BY <1>1 DEF TypeOK
<1>3. q \notin table
  BY <1>1 DEF LineInv, NotAddedIsNowhere
<1>4. \A n \in graph.nodes \ Taps(graph) : ~Pending(n, q)
  BY <1>3, PendingIsPlaced
<1>5. Taps(graph)' = Taps(graph) /\ \A n : InEdges(n)' = InEdges(n) /\ Onward(n)' = Onward(n)
  BY <1>1, SameGraph DEF Onward
<1>6. ASSUME NEW p \in PktIds, NEW n
      PROVE  Pending(n, p)' <=> IF p = q THEN Pending(n, p) \/ n \in appTodo'[q] ELSE Pending(n, p)
  <2>1. /\ \A l \in Lists : HasTask(ready[l], n, p)' <=> HasTask(ready[l], n, p)
        /\ HasTask(executor, n, p)' <=> HasTask(executor, n, p)
        /\ \A v \in Workers : WaitsAt(v, n, p)' <=> WaitsAt(v, n, p)
        /\ Lists' = Lists
    BY <1>1, SameTasks
  <2>2. p = q => appTodo[p] = {}
    BY <1>1 DEF LineInv, NotAddedIsNowhere
  <2>. QED
    BY <1>2, <2>1, <2>2 DEF Pending
<1>7. DataWaits'
  <2>. SUFFICES ASSUME NEW p \in PktIds, NEW n \in graph.nodes \ Taps(graph), Pending(n, p)'
                PROVE  InEdges(n) # {} /\ InEdges(n) \subseteq inputs'[p]
    BY <1>1, <1>5 DEF DataWaits, Waits
  <2>1. CASE p # q
    BY <1>2, <1>6, <2>1 DEF FlowInv, DataWaits, Waits
  <2>2. CASE p = q
    <3>1. n \in Destinations(GraphNode) \ Taps(graph)
      BY <1>2, <1>4, <1>6, <2>2
    <3>2. PICK e \in Onward(GraphNode) : InEdges(n) = {e}
      BY <3>1, TheLine
    <3>. QED
      BY <1>2, <2>2, <3>2 DEF Onward
  <2>. QED
    BY <2>1, <2>2
<1>8. WorkHasData'
  <2>1. \A w : Node(w)' = Node(w) /\ Pkt(w)' = Pkt(w)
    BY <1>1 DEF Node, Pkt
  <2>. QED
    BY <1>1, <1>5, <2>1 DEF FlowInv, WorkHasData
<1>9. KeptIsSomewhere'
  <2>. SUFFICES ASSUME NEW p \in table \union {q} PROVE Somewhere(p)'
    BY <1>1 DEF KeptIsSomewhere
  <2>1. p \in PktIds
    BY DEF TypeOK
  <2>2. CASE p = q
    <3>1. GraphNode \in graph.nodes \ Taps(graph)
      BY TheGraph, TheLine
    <3>2. PICK e \in Onward(GraphNode) : TRUE
      BY <3>1, TheLine
    <3>3. e[2] \in Destinations(GraphNode) /\ e[2] \notin Taps(graph)
      BY DEF Onward, Destinations
    <3>4. e[2] \in graph.nodes
      BY <3>3, TheGraph
    <3>5. Pending(e[2], p)'
      BY <1>2, <1>6, <2>1, <2>2, <3>3
    <3>. QED
      BY <1>1, <1>5, <3>3, <3>4, <3>5 DEF Somewhere
  <2>3. CASE p # q
    <3>1. Somewhere(p)
      BY <2>3 DEF FlowInv, KeptIsSomewhere
    <3>2. \A w \in Workers : WithThread(w, p)' <=> WithThread(w, p)
      BY <1>1, Unmoved
    <3>3. \A n : Pending(n, p)' <=> Pending(n, p)
      BY <1>6, <2>1, <2>3
    <3>. QED
      BY <1>1, <1>5, <3>1, <3>2, <3>3 DEF Somewhere
  <2>. QED
    BY <2>2, <2>3
<1>10. AddedIsPacket'
  <2>1. Packets' = Packets
    BY <1>1, SameGraph
  <2>. QED
    BY <1>1, <1>2, <2>1 DEF FlowInv, AddedIsPacket
<1>. QED
  BY <1>7, <1>8, <1>9, <1>10 DEF FlowInv

\* A refused or announced packet, or no step at all: no package moves.
LEMMA RefusalKeepsFlow ==
    ASSUME TypeOK, FlowInv,
           UNCHANGED vars \/ \E q \in PktIds : FlowControl(q) \/ AddSkipPacket(q)
    PROVE  FlowInv'
<1>1. /\ table' = table /\ ready' = ready /\ executor' = executor /\ graph' = graph
      /\ appTodo' = appTodo /\ inputs' = inputs /\ outputs' = outputs
      /\ pc' = pc /\ task' = task /\ todo' = todo /\ taken' = taken /\ saw' = saw
  BY DEF FlowControl, AddSkipPacket, vars, appVars, dataVars, queueVars, localVars, seenVars
<1>2. \A p \in PktIds : \/ submit'[p] = submit[p]
                        \/ submit[p] # "adding" /\ p \in Packets
  <2>1. CASE UNCHANGED vars
    BY <2>1 DEF vars, appVars
  <2>2. ASSUME NEW q \in PktIds, FlowControl(q) \/ AddSkipPacket(q)
        PROVE  \A p \in PktIds : submit'[p] = submit[p] \/ (submit[p] # "adding" /\ p \in Packets)
    <3>1. submit[q] # "adding" /\ q \in Packets
      BY <2>2 DEF FlowControl, AddSkipPacket, MayAdd, FlowInv, AddedIsPacket
    <3>. QED
      BY <2>2, <3>1 DEF FlowControl, AddSkipPacket, TypeOK
  <2>. QED
    BY <2>1, <2>2
<1>3. AddedIsPacket'
  <2>1. Packets' = Packets
    BY <1>1, SameGraph
  <2>. QED
    BY <1>1, <1>2, <2>1 DEF FlowInv, AddedIsPacket
<1>4. ASSUME NEW p \in PktIds, NEW n PROVE Pending(n, p)' <=> Pending(n, p)
  BY <1>1, SameTasks DEF Pending
<1>5. \A w \in Workers : \A p : WithThread(w, p) => WithThread(w, p)'
  BY <1>1, Unmoved
<1>6. table \subseteq PktIds
  BY DEF TypeOK
<1>. QED
  BY <1>1, <1>3, <1>4, <1>5, <1>6, TasksMove

LEMMA InitFlow == ASSUME Init PROVE FlowInv
<1>1. DataWaits
  BY DEF Init, DataWaits, Pending, HasTask, WaitsAt
<1>2. WorkHasData /\ KeptIsSomewhere /\ AddedIsPacket
  BY DEF Init, WorkHasData, KeptIsSomewhere, AddedIsPacket
<1>. QED
  BY <1>1, <1>2 DEF FlowInv

\* No node keeps an order, so the other steps are not taken.
LEMMA StepKeepsFlow ==
    ASSUME TypeOK, LineInv, HandsOn(graph), FlowInv, NEW w \in Workers, Step(w)
    PROVE  FlowInv'
<1>1. pc[w] \notin {"next", "buffer", "setnext", "drain", "requeue"}
  BY TheLine DEF LineInv, OnlyOrderedNodesKeepOrder
<1>2. ~(GetNext(w) \/ Buffer(w) \/ SetNext(w) \/ TakeSmallest(w) \/ Requeue(w) \/ EndDrain(w))
  BY <1>1 DEF GetNext, Buffer, SetNext, TakeSmallest, Requeue, EndDrain
<1>. QED
  BY <1>2, HandKeepsFlow, ProduceKeepsFlow, PropagateKeepsFlow, TakeKeepsFlow, AddTaskKeepsFlow
  DEF Step

LEMMA NextKeepsFlow ==
    ASSUME TypeOK, LineInv, HandsOn(graph), FlowInv, [Next]_vars
    PROVE  FlowInv'
<1>1. CASE UNCHANGED vars
  BY <1>1, RefusalKeepsFlow
<1>2. CASE Next
  BY <1>2, AddPacketKeepsFlow, AddFirstTaskKeepsFlow, RefusalKeepsFlow, ScheduleKeepsFlow,
     StepKeepsFlow DEF Next
<1>. QED
  BY <1>1, <1>2

\* When nothing is left to run, a packet of the table would have to be somewhere.
LEMMA QuietIsEmpty == ASSUME TypeOK, LineInv, HandsOn(graph), FlowInv PROVE NothingLeaks
<1>. SUFFICES ASSUME Quiet, NEW p \in table PROVE FALSE
  BY DEF NothingLeaks
<1>1. p \in PktIds /\ Somewhere(p)
  BY DEF TypeOK, FlowInv, KeptIsSomewhere
<1>2. \A w \in Workers : ~WithThread(w, p) /\ \A n : ~WaitsAt(w, n, p)
  BY DEF Quiet, WithThread, WaitsAt, InTask
<1>3. \A n : ~HasTask(executor, n, p) /\ \A l \in Lists : ~HasTask(ready[l], n, p)
  BY DEF Quiet, HasTask
<1>4. appTodo[p] = {}
  <2>1. appTodo[p] # {} => submit[p] = "adding" /\ p \in Packets
    BY <1>1 DEF FlowInv, AddedIsPacket
  <2>2. p \in Packets => submit[p] # "adding"
    BY DEF Quiet
  <2>. QED
    BY <2>1, <2>2
<1>. QED
  BY <1>1, <1>2, <1>3, <1>4 DEF Somewhere, Pending

\* In a line whose nodes all hand on what they get, and keep no order, no
\* context stays in the table when nothing is left to run.
THEOREM LinesLeakNothing == Spec => [](HandsOn(graph) => NothingLeaks)
<1>1. Init => LeakInv
  BY InitFlow DEF LeakInv
<1>2. IInv /\ LeakInv /\ [Next]_vars => LeakInv'
  <2>. SUFFICES ASSUME IInv, LeakInv, [Next]_vars, HandsOn(graph)' PROVE FlowInv'
    BY DEF LeakInv
  <2>1. graph' = graph
    BY GraphIsKept DEF IInv
  <2>2. HandsOn(graph) /\ LineInv
    BY <2>1, TheLine DEF IInv
  <2>. QED
    BY <2>2, NextKeepsFlow DEF IInv, LeakInv
<1>3. IInv /\ LeakInv => (HandsOn(graph) => NothingLeaks)
  BY QuietIsEmpty, TheLine DEF IInv, LeakInv
<1>. QED
  BY <1>1, <1>2, <1>3, Invariant, PTL DEF Spec

-----------------------------------------------------------------------------
(***************************************************************************)
(* Lines whose levels rise: packets leave an ordered node in order.        *)
(* Whoever works at the node has the packet whose turn it is, the next id  *)
(* has passed only what left or was skipped, and what left is further on.  *)
(***************************************************************************)

Left(n) == {left[n][i] : i \in 1 .. Len(left[n])}

\* Packet p is on node n's heap.
Buffered(n, p) == order[n].heap[p] > 0

\* Thread w has packet p for node m.
Brings(w, m, p) ==
    \/ pc[w] \in InTask /\ Node(w) = m /\ Pkt(w) = p
    \/ pc[w] = "add" /\ m \in todo[w] /\ Pkt(w) = p
    \/ pc[w] = "requeue" /\ Node(w) = m /\ taken[w] = p

\* Packet p has not left node m yet, or is about to come there.
Comes(m, p) ==
    \/ m \in appTodo[p]
    \/ \E l \in Lists : HasTask(ready[l], m, p)
    \/ HasTask(executor, m, p)
    \/ \E w \in Workers : Brings(w, m, p)
    \/ m \in Ordered /\ Buffered(m, p)

IsBehind(m, n) == m = GraphNode \/ graph.level[n] < graph.level[m]

\* Thread w has the packet whose turn it is at node n; it handed the packet on.
Leaves(w, n) == Node(w) = n /\ pc[w] \in {"add", "setnext"}
Works(w, n)  ==
    Leaves(w, n) \/ (Node(w) = n /\ pc[w] \in {"read", "produce", "output", "propagate"})

NextIsId(n) == order[n].next \in 0 .. NumPkts /\ (~order[n].known => order[n].next = 0)

SkipsAreSkipped(n) == \A p \in order[n].skip : submit[p] = "skipped"

PassedOrSkipped(n) ==
    \A p \in PktIds : p < order[n].next => p \in Left(n) \/ submit[p] = "skipped"

LeftIsPassed(n) ==
    \A p \in Left(n) : p < order[n].next \/ \E w \in Workers : Leaves(w, n) /\ Pkt(w) = p

WorkIsNext(n) ==
    \A w \in Workers : Works(w, n) => order[n].known /\ order[n].next = Pkt(w)

OneLeaves(n) ==
    \A w \in Workers : Leaves(w, n) =>
        /\ Pkt(w) \in Left(n)
        /\ \A v \in Workers : Leaves(v, n) => v = w

LeftIsOffered(n) == \A p \in Left(n) : p \in PktIds /\ submit[p] \in {"adding", "accepted"}

LeftIsBehind(n) ==
    \A p \in Left(n) : \A m \in graph.nodes \ Taps(graph) : Comes(m, p) => IsBehind(m, n)

TurnInv(n) ==
    /\ NextIsId(n)
    /\ SkipsAreSkipped(n)
    /\ PassedOrSkipped(n)
    /\ LeftIsPassed(n)
    /\ WorkIsNext(n)
    /\ OneLeaves(n)
    /\ LeftIsOffered(n)
    /\ LeftIsBehind(n)

GraphNodeEnds ==
    \A w \in Workers : pc[w] \in {"produce", "output", "propagate", "add"} =>
        Node(w) # GraphNode

\* The nodes that keep order and propagate.
Keepers == {n \in Ordered \ {GraphNode} : KeepsOrder(n) /\ n \notin Taps(graph)}

OrderInv == Climbs(graph) => GraphNodeEnds /\ \A n \in Keepers : TurnInv(n)

\* What is known of such a node, and of its line.
LEMMA TheKeeper ==
    ASSUME TypeOK, Climbs(graph), NEW n \in Keepers
    PROVE  /\ n \in Ordered /\ n \in graph.nodes /\ n # GraphNode /\ KeepsOrder(n)
           /\ IsLine(graph) /\ n \notin Taps(graph)
           /\ order[n] \in OrderRecord /\ left[n] \in Seq(PktIds)
           /\ graph.level[n] \in Nat /\ ~IsBehind(n, n)
           /\ \A k \in graph.nodes \ {GraphNode} : \A m \in Destinations(k) :
                  m = GraphNode \/ graph.level[k] < graph.level[m]
<1>1. n \in Ordered /\ n \in graph.nodes /\ n # GraphNode /\ KeepsOrder(n)
  BY TheGraph DEF Keepers
<1>2. IsLine(graph) /\ n \notin Taps(graph)
  BY DEF Climbs, Keepers
<1>3. order[n] \in OrderRecord /\ left[n] \in Seq(PktIds)
  BY <1>1 DEF TypeOK
<1>4. graph.level[n] \in Nat /\ ~IsBehind(n, n)
  BY <1>1, TheGraph DEF IsBehind
<1>5. ASSUME NEW k \in graph.nodes \ {GraphNode}, NEW m \in Destinations(k), m # GraphNode
      PROVE  graph.level[k] < graph.level[m]
  <2>1. PICK e \in graph.edges : e[1] = k /\ e[2] = m
    BY DEF Destinations, OutEdges, Edges
  <2>. QED
    BY <1>5, <2>1 DEF Climbs
<1>. QED
  BY <1>1, <1>2, <1>3, <1>4, <1>5

\* A thread that a step leaves alone brings what it brought.
LEMMA SameThread ==
    ASSUME graph' = graph, NEW v, pc'[v] = pc[v], task'[v] = task[v], todo'[v] = todo[v],
           taken'[v] = taken[v]
    PROVE  /\ \A m, p : Brings(v, m, p)' <=> Brings(v, m, p)
           /\ \A n : Works(v, n)' <=> Works(v, n)
           /\ \A n : Leaves(v, n)' <=> Leaves(v, n)
           /\ Pkt(v)' = Pkt(v)
  BY DEF Brings, Works, Leaves, Pkt, Node

\* What a step of thread w does to the record of node n: only two of them
\* touch more than the heap, and only one puts a packet on it.
LEMMA OrderAfterStep ==
    ASSUME TypeOK, NEW w \in Workers, Step(w), NEW n \in Ordered
    PROVE  /\ \/ Node(w) = n /\ pc[w] \in {"next", "setnext"}
              \/ /\ order'[n].known = order[n].known /\ order'[n].next = order[n].next
                 /\ order'[n].skip = order[n].skip
           /\ \A p \in PktIds : Buffered(n, p)' =>
                  Buffered(n, p) \/ (pc[w] = "buffer" /\ Node(w) = n /\ Pkt(w) = p)
<1>0. order[n] \in OrderRecord /\ order \in [Ordered -> OrderRecord] /\ Pkt(w) \in PktIds
  BY DEF TypeOK, Tasks, Pkt
<1>1. CASE order'[n] = order[n]
  BY <1>1 DEF Buffered
<1>2. CASE GetNext(w) /\ Node(w) = n
  BY <1>0, <1>2, NextOperationsLeave DEF GetNext, Buffered
<1>3. CASE SetNext(w) /\ Node(w) = n
  <2>1. order'[n] = AfterSetNextPktId(order[n], Pkt(w) + 1) /\ pc[w] = "setnext"
    BY <1>0, <1>3 DEF SetNext
  <2>2. order'[n].heap = order[n].heap
    BY <1>0, <2>1, NextOperationsLeave
  <2>. QED
    BY <1>3, <2>1, <2>2 DEF Buffered
<1>4. CASE Buffer(w) /\ Node(w) = n
  <2>1. order'[n] = AfterAddUnprocessedPkt(order[n], Pkt(w)) /\ pc[w] = "buffer"
    BY <1>0, <1>4 DEF Buffer
  <2>. PICK o \in OrderRecord : o = order[n]
    BY <1>0
  <2>. PICK q \in PktIds : q = Pkt(w)
    BY <1>0
  <2>2. LET r == AfterAddUnprocessedPkt(o, q)
        IN  /\ r.known = o.known /\ r.next = o.next /\ r.skip = o.skip
            /\ r.heap = [o.heap EXCEPT ![q] = @ + 1]
    BY HeapOperationsLeave
  <2>3. \A p \in PktIds : Buffered(n, p)' => Buffered(n, p) \/ Pkt(w) = p
    BY <2>1, <2>2 DEF Buffered, OrderRecord
  <2>. QED
    BY <1>4, <2>1, <2>2, <2>3
<1>5. CASE TakeSmallest(w) /\ Node(w) = n
  <2>1. PICK q \in PktIds : order[n].heap[q] > 0
                            /\ order'[n] = AfterGetSmallestUnprocessedPkt(order[n], q)
    BY <1>0, <1>5 DEF TakeSmallest, HasSmallestUnprocessedPkt
  <2>. PICK o \in OrderRecord : o = order[n]
    BY <1>0
  <2>2. LET r == AfterGetSmallestUnprocessedPkt(o, q)
        IN  /\ r.known = o.known /\ r.next = o.next /\ r.skip = o.skip
            /\ r.heap = [o.heap EXCEPT ![q] = @ - 1]
    BY <2>1, HeapOperationsLeave
  <2>3. \A p \in PktIds : Buffered(n, p)' => Buffered(n, p)
    BY <2>1, <2>2 DEF Buffered, OrderRecord
  <2>. QED
    BY <2>1, <2>2, <2>3
<1>6. \/ order'[n] = order[n]
      \/ Node(w) = n /\ (GetNext(w) \/ SetNext(w) \/ Buffer(w) \/ TakeSmallest(w))
  <2>1. CASE order' = order
    BY <2>1
  <2>2. CASE GetNext(w) \/ SetNext(w) \/ Buffer(w) \/ TakeSmallest(w)
    BY <1>0, <2>2 DEF GetNext, SetNext, Buffer, TakeSmallest
  <2>. QED
    BY <2>1, <2>2 DEF Step, Take, Start, Read, Produce, Finish, CallBack, Erase, CheckOutput,
       Propagate, AddTask, AllAdded, Requeue, EndDrain
<1>. QED
  BY <1>1, <1>2, <1>3, <1>4, <1>5, <1>6

\* The tasks of the ready queue after one has joined.
LEMMA TaskJoins ==
    ASSUME TypeOK, graph' = graph, NEW q \in PktIds, NEW n \in graph.nodes,
           ready' = Queued(q, n),
           NEW l \in Lists, NEW m, NEW p, HasTask(ready[l], m, p)'
    PROVE  HasTask(ready[l], m, p) \/ (m = n /\ p = q)
<1>. DEFINE t == [pkt |-> q, node |-> n]
<1>1. /\ t \in Tasks /\ ready[graph.level[n]] \in Seq(Tasks)
      /\ ready'[graph.level[n]] = Append(ready[graph.level[n]], t)
      /\ l # graph.level[n] => ready'[l] = ready[l]
  BY QueuedTypes DEF TypeOK
<1>2. CASE l = graph.level[n]
  <2>. PICK s \in Seq(Tasks) : s = ready[l]
    BY <1>1, <1>2
  <2>1. HasTask(Append(s, t), m, p)
    BY <1>1, <1>2 DEF HasTask, IsTask
  <2>2. HasTask(s, m, p) \/ IsTask(t, m, p)
    <3>. HIDE DEF t
    <3>. QED
      BY <1>1, <2>1, TasksOfList
  <2>3. IsTask(t, m, p) => m = n /\ p = q
    BY DEF IsTask
  <2>. QED
    BY <2>2, <2>3
<1>3. CASE l # graph.level[n]
  BY <1>1, <1>3, SameTasks
<1>. QED
  BY <1>2, <1>3

\* A step of a thread brings a packet nowhere it was not to come to already,
\* but for the one that propagates it.
LEMMA StepComes ==
    ASSUME TypeOK, LineInv, NEW w \in Workers, Step(w),
           NEW m \in graph.nodes, NEW p \in PktIds, Comes(m, p)'
    PROVE  Comes(m, p) \/ (Propagate(w) /\ p = Pkt(w) /\ m \in Destinations(Node(w)))
<1>. DEFINE Goal == Comes(m, p) \/ (Propagate(w) /\ p = Pkt(w) /\ m \in Destinations(Node(w)))
<1>1. /\ graph' = graph /\ appTodo' = appTodo
      /\ \A v \in Workers \ {w} :
             /\ pc'[v] = pc[v] /\ task'[v] = task[v] /\ todo'[v] = todo[v]
             /\ taken'[v] = taken[v]
  BY StepLeaves
<1>2. \A v \in Workers \ {w} : Brings(v, m, p)' <=> Brings(v, m, p)
  BY <1>1, SameThread
<1>3. Lists' = Lists /\ Ordered' = Ordered
  BY <1>1, SameGraph
<1>4. Pkt(w) \in PktIds /\ Node(w) \in graph.nodes
  BY DEF TypeOK, Tasks, Pkt, Node
\* Its queues.
<1>5. ASSUME NEW l \in Lists, HasTask(ready[l], m, p)' PROVE Goal
  <2>1. CASE ready' = ready
    BY <1>1, <1>5, <2>1, SameTasks DEF Comes
  <2>2. ASSUME NEW q \in PktIds, NEW n \in graph.nodes, ready' = Queued(q, n),
               Brings(w, n, q)
        PROVE  Goal
    BY <1>1, <1>5, <2>2, TaskJoins DEF Comes
  <2>3. CASE AddTask(w)
    <3>1. PICK n \in First(todo[w]) : ready' = Queued(Pkt(w), n)
      BY <2>3 DEF AddTask
    <3>2. n \in graph.nodes /\ Brings(w, n, Pkt(w))
      BY <2>3 DEF First, TypeOK, AddTask, Brings
    <3>. QED
      BY <1>4, <2>2, <3>1, <3>2
  <2>4. CASE Requeue(w)
    <3>1. taken[w] \in PktIds /\ Brings(w, Node(w), taken[w])
      BY <2>4 DEF TypeOK, Requeue, Brings
    <3>. QED
      BY <1>4, <2>1, <2>2, <2>4, <3>1 DEF Requeue
  <2>. QED
    BY <2>1, <2>3, <2>4 DEF Step, Take, Start, GetNext, Buffer, Read, Produce, Finish,
       CallBack, Erase, CheckOutput, Propagate, AllAdded, SetNext, TakeSmallest, EndDrain,
       queueVars
<1>6. ASSUME HasTask(executor, m, p)' PROVE Goal
  <2>1. CASE executor' = executor
    BY <1>1, <1>6, <2>1, SameTasks DEF Comes
  <2>2. CASE Take(w)
    <3>. PICK s \in Seq(Tasks) : s = executor
      BY DEF TypeOK
    <3>1. s # <<>> /\ executor' = Tail(s) /\ Head(s) \in Tasks
      BY <2>2 DEF Take
    <3>2. HasTask(Tail(s), m, p)
      BY <1>6, <3>1 DEF HasTask, IsTask
    <3>3. HasTask(s, m, p)
      BY <3>1, <3>2, TasksOfList
    <3>. QED
      BY <3>3 DEF Comes
  <2>. QED
    BY <2>1, <2>2 DEF Step, Start, GetNext, Buffer, Read, Produce, Finish, AddTask, Requeue,
       CallBack, Erase, CheckOutput, Propagate, AllAdded, SetNext, TakeSmallest, EndDrain,
       queueVars
<1>7. ASSUME m \in Ordered, Buffered(m, p)' PROVE Goal
  <2>1. Buffered(m, p) \/ Brings(w, m, p)
    BY <1>7, OrderAfterStep DEF Brings, InTask
  <2>. QED
    BY <1>7, <2>1 DEF Comes
\* The thread itself.
<1>8. ASSUME Brings(w, m, p)' PROVE Goal
  <2>1. CASE Take(w)
    <3>. PICK s \in Seq(Tasks) : s = executor
      BY DEF TypeOK
    <3>1. s # <<>> /\ task'[w] = Head(s) /\ Head(s) \in Tasks /\ pc'[w] = "start"
      BY <2>1 DEF Take, TypeOK, Goto
    <3>2. IsTask(Head(s), m, p)
      BY <1>8, <3>1 DEF Brings, IsTask, Pkt, Node
    <3>3. HasTask(s, m, p)
      BY <3>1, <3>2, TasksOfList
    <3>. QED
      BY <3>3 DEF Comes
  <2>2. CASE TakeSmallest(w)
    <3>1. PICK q \in PktIds : /\ HasSmallestUnprocessedPkt(order[Node(w)], q)
                              /\ taken' = [taken EXCEPT ![w] = q]
                              /\ task' = task /\ pc'[w] \in {"requeue", "dead"}
      BY <2>2 DEF TakeSmallest, Goto, TypeOK
    <3>2. m = Node(w) /\ p = q
      BY <1>8, <3>1 DEF Brings, InTask, Node, TypeOK
    <3>3. KeepsOrder(m)
      BY <2>2, <3>2 DEF LineInv, OnlyOrderedNodesKeepOrder, TakeSmallest
    <3>4. m \in Ordered /\ Buffered(m, p)
      BY <3>1, <3>2, <3>3 DEF KeepsOrder, Buffered, HasSmallestUnprocessedPkt
    <3>. QED
      BY <3>4 DEF Comes
  <2>3. CASE Propagate(w)
    BY <1>8, <2>3, SameGraph, <1>1 DEF Propagate, Brings, Goto, InTask, Pkt, Node, TypeOK
  <2>4. CASE AddTask(w)
    <3>1. Brings(w, m, p)
      BY <1>8, <2>4 DEF AddTask, Brings, InTask, Pkt, Node, TypeOK
    <3>. QED
      BY <3>1 DEF Comes
  <2>5. CASE ~(Take(w) \/ TakeSmallest(w) \/ Propagate(w) \/ AddTask(w))
    <3>1. /\ task' = task /\ taken' = taken /\ todo' = todo
          /\ pc'[w] \in InTask => pc[w] \in InTask
          /\ pc'[w] \notin {"add", "requeue"}
      BY <2>5 DEF Step, Start, GetNext, Buffer, Read, Produce, Finish, Requeue, CallBack,
         Erase, CheckOutput, AllAdded, SetNext, EndDrain, Return, Goto, localVars, InTask,
         TypeOK
    <3>2. Brings(w, m, p)
      BY <1>8, <3>1 DEF Brings, Pkt, Node
    <3>. QED
      BY <3>2 DEF Comes
  <2>. QED
    BY <2>1, <2>2, <2>3, <2>4, <2>5
<1>9. \/ m \in appTodo[p]
      \/ \E l \in Lists : HasTask(ready[l], m, p)'
      \/ HasTask(executor, m, p)'
      \/ \E v \in Workers : Brings(v, m, p)'
      \/ m \in Ordered /\ Buffered(m, p)'
  BY <1>1, <1>3 DEF Comes
<1>10. m \in appTodo[p] => Goal
  BY DEF Comes
<1>11. ASSUME NEW v \in Workers \ {w}, Brings(v, m, p)' PROVE Goal
  BY <1>2, <1>11 DEF Comes
<1>. QED
  BY <1>5, <1>6, <1>7, <1>8, <1>9, <1>10, <1>11

\* A thread begins to work at an ordered node after it compared ids, and
\* leaves with the packet it propagates, until it set the next id.
LEMMA StepWorks ==
    ASSUME TypeOK, Climbs(graph), LineInv, NEW w \in Workers, Step(w), NEW n \in Keepers
    PROVE  /\ Works(w, n)' => Works(w, n) \/ (Node(w) = n /\ GetNext(w))
           /\ Leaves(w, n)' => Leaves(w, n) \/ (Node(w) = n /\ Propagate(w))
           /\ Leaves(w, n) => Leaves(w, n)' \/ (Node(w) = n /\ SetNext(w))
           /\ Works(w, n)' \/ Leaves(w, n) => Pkt(w)' = Pkt(w)
<1>. USE DEF Works, Leaves
<1>1. KeepsOrder(n) /\ n # GraphNode
  BY TheKeeper
<1>2. CASE Take(w)
  BY <1>2 DEF Take, Goto, TypeOK
<1>3. ASSUME ~Take(w) PROVE task' = task /\ Node(w)' = Node(w) /\ Pkt(w)' = Pkt(w)
  BY <1>3 DEF Step, Start, GetNext, Buffer, Read, Produce, Finish, CallBack, Erase,
     CheckOutput, Propagate, AddTask, AllAdded, SetNext, TakeSmallest, Requeue, EndDrain,
     Return, localVars, Node, Pkt
<1>4. CASE Start(w)
  <2>1. pc[w] = "start" /\ pc'[w] \in {"dead", "next", "read", "idle"}
    BY <1>4 DEF Start, Goto, Return, TypeOK
  <2>2. Node(w) = n => pc'[w] # "read"
    BY <1>1, <1>4 DEF Start, Goto, Return, TypeOK
  <2>. QED
    BY <1>3, <1>4, <2>1, <2>2 DEF Start, Take
<1>5. CASE GetNext(w)
  BY <1>3, <1>5 DEF GetNext, Take, Goto, TypeOK
<1>6. CASE Erase(w) \/ CallBack(w) \/ Finish(w)
  <2>1. Node(w) = GraphNode
    BY <1>6 DEF LineInv, OnlyGraphNodeCallsBack, Erase, CallBack, Finish
  <2>. QED
    BY <1>1, <1>3, <1>6, <2>1 DEF Erase, CallBack, Finish, Take
<1>7. CASE AllAdded(w)
  BY <1>1, <1>3, <1>7 DEF AllAdded, Take, Goto, Return, TypeOK
<1>8. CASE Propagate(w)
  BY <1>3, <1>8 DEF Propagate, Take, Goto, TypeOK
<1>9. CASE SetNext(w)
  <2>1. pc[w] = "setnext" /\ pc'[w] \in {"idle", "drain"}
    BY <1>9 DEF SetNext, Goto, Return, TypeOK
  <2>. QED
    BY <1>3, <1>9, <2>1 DEF Take
<1>10. CASE Read(w) \/ Produce(w) \/ CheckOutput(w)
  <2>1. /\ pc[w] \in {"read", "produce", "output"}
        /\ pc'[w] \in {"produce", "output", "propagate", "idle", "dead"}
    BY <1>10 DEF Read, Produce, CheckOutput, Goto, Return, TypeOK
  <2>. QED
    BY <1>3, <1>10, <2>1 DEF Take
<1>11. CASE Buffer(w) \/ TakeSmallest(w) \/ Requeue(w) \/ EndDrain(w)
  <2>1. pc[w] \in {"buffer", "drain", "requeue"} /\ pc'[w] \in {"drain", "requeue", "dead", "idle"}
    BY <1>11 DEF Buffer, TakeSmallest, Requeue, EndDrain, Goto, Return, TypeOK
  <2>. QED
    BY <1>3, <1>11, <2>1 DEF Take
<1>12. CASE AddTask(w)
  BY <1>3, <1>12 DEF AddTask, Take
<1>. QED
  BY <1>2, <1>4, <1>5, <1>6, <1>7, <1>8, <1>9, <1>10, <1>11, <1>12 DEF Step

\* The packet of a thread that works at the node was handed in, and the thread
\* has it until it leaves.
LEMMA WorkerHasPacket ==
    ASSUME TypeOK, Climbs(graph), LineInv, NEW n \in Keepers, NEW w \in Workers,
           Works(w, n) \/ (pc[w] \in InTask /\ Node(w) = n)
    PROVE  /\ Pkt(w) \in PktIds
           /\ Leaves(w, n) \/ (Comes(n, Pkt(w)) /\ WithThread(w, Pkt(w)))
           /\ Leaves(w, n) \/ submit[Pkt(w)] \in {"adding", "accepted"}
<1>1. Pkt(w) \in PktIds /\ n \notin Taps(graph)
  BY TheKeeper DEF TypeOK, Tasks, Pkt
<1>2. ASSUME ~Leaves(w, n)
      PROVE  Comes(n, Pkt(w)) /\ WithThread(w, Pkt(w))
  <2>1. pc[w] \in InTask /\ Node(w) = n
    BY <1>2 DEF Works, InTask
  <2>. QED
    BY <1>1, <2>1 DEF Comes, Brings, WithThread, Carries, Pkt, Node
<1>3. WithThread(w, Pkt(w)) => submit[Pkt(w)] \in {"adding", "accepted"}
  BY <1>1, InHandIsKept DEF LineInv, NotAddedIsNowhere, TypeOK
<1>. QED
  BY <1>1, <1>2, <1>3

\* The order of a node is undisturbed by a step that leaves its next id and
\* what left it alone, after which nobody works there who did not, and nothing
\* that left comes back.
LEMMA TurnAfterStep ==
    ASSUME TypeOK, NEW n \in Keepers, TurnInv(n), graph' = graph,
           order'[n].known = order[n].known, order'[n].next = order[n].next,
           order'[n].skip = order[n].skip, left'[n] = left[n],
           \A p \in PktIds :
               /\ submit[p] = "skipped" => submit'[p] = "skipped"
               /\ submit[p] \in {"adding", "accepted"} => submit'[p] \in {"adding", "accepted"},
           \A w \in Workers :
               /\ Works(w, n)' => Works(w, n) /\ Pkt(w)' = Pkt(w)
               /\ Leaves(w, n)' => Leaves(w, n) /\ Pkt(w)' = Pkt(w)
               /\ Leaves(w, n) => Leaves(w, n)' /\ Pkt(w)' = Pkt(w),
           \A p \in Left(n) : \A m \in graph.nodes \ Taps(graph) : Comes(m, p)' => IsBehind(m, n)
    PROVE  TurnInv(n)'
<1>. USE DEF TurnInv
<1>1. Left(n)' = Left(n) /\ n \in Ordered
  BY DEF Left, Keepers
<1>2. order[n].skip \subseteq PktIds
  BY <1>1 DEF TypeOK, OrderRecord
<1>3. NextIsId(n)'
  BY DEF NextIsId
<1>4. SkipsAreSkipped(n)'
  BY <1>2 DEF SkipsAreSkipped
<1>5. PassedOrSkipped(n)'
  BY <1>1 DEF PassedOrSkipped
<1>6. LeftIsPassed(n)'
  BY <1>1 DEF LeftIsPassed
<1>7. WorkIsNext(n)'
  BY DEF WorkIsNext
<1>8. OneLeaves(n)'
  BY <1>1 DEF OneLeaves
<1>9. LeftIsOffered(n)'
  BY <1>1 DEF LeftIsOffered
<1>10. LeftIsBehind(n)'
  BY <1>1 DEF LeftIsBehind, IsBehind
<1>. QED
  BY <1>3, <1>4, <1>5, <1>6, <1>7, <1>8, <1>9, <1>10

\* What left a node does not come back with a step of a thread.
LEMMA LeftStaysBehind ==
    ASSUME TypeOK, Climbs(graph), LineInv, GraphNodeEnds, NEW n \in Keepers, TurnInv(n),
           NEW w \in Workers, Step(w), NEW p \in Left(n),
           NEW m \in graph.nodes \ Taps(graph), Comes(m, p)'
    PROVE  IsBehind(m, n)
<1>1. p \in PktIds
  BY DEF TurnInv, LeftIsOffered
<1>2. CASE Comes(m, p)
  BY <1>2 DEF TurnInv, LeftIsBehind
<1>3. CASE Propagate(w) /\ p = Pkt(w) /\ m \in Destinations(Node(w))
  <2>. PICK k \in graph.nodes : k = Node(w)
    BY DEF TypeOK, Tasks, Node
  <2>1. pc[w] = "propagate" /\ k # GraphNode /\ k \notin Taps(graph)
    BY <1>3 DEF Propagate, GraphNodeEnds, LineInv, RunsWithContext
  <2>2. Comes(k, p)
    BY <1>3, <2>1 DEF Comes, Brings, InTask
  <2>3. graph.level[n] < graph.level[k]
    BY <2>1, <2>2 DEF TurnInv, LeftIsBehind, IsBehind
  <2>4. m = GraphNode \/ graph.level[k] < graph.level[m]
    BY <1>3, <2>1, TheKeeper
  <2>5. /\ graph.level[n] \in Nat /\ graph.level[k] \in Nat /\ graph.level[m] \in Nat
    BY TheKeeper, TheGraph
  <2>. QED
    BY <2>3, <2>4, <2>5 DEF IsBehind
<1>. QED
  BY <1>1, <1>2, <1>3, StepComes

\* The steps at other nodes, and those at this one that touch neither its
\* next id nor what left it.
LEMMA OtherStepsKeepTurn ==
    ASSUME TypeOK, Climbs(graph), LineInv, GraphNodeEnds, NEW n \in Keepers, TurnInv(n),
           NEW w \in Workers, Step(w),
           Node(w) # n \/ ~(GetNext(w) \/ Propagate(w) \/ SetNext(w))
    PROVE  TurnInv(n)'
<1>1. /\ graph' = graph /\ submit' = submit
      /\ \A v \in Workers \ {w} :
             /\ pc'[v] = pc[v] /\ task'[v] = task[v] /\ todo'[v] = todo[v]
             /\ taken'[v] = taken[v]
  BY StepLeaves
<1>2. n \in Ordered
  BY TheKeeper
<1>3. Node(w) # n \/ pc[w] \notin {"next", "setnext"}
  BY DEF Step, Take, Start, Buffer, Read, Produce, Finish, CallBack, Erase, CheckOutput,
     AddTask, AllAdded, TakeSmallest, Requeue, EndDrain
<1>4. /\ order'[n].known = order[n].known /\ order'[n].next = order[n].next
      /\ order'[n].skip = order[n].skip
  BY <1>2, <1>3, OrderAfterStep
<1>5. left'[n] = left[n]
  <2>1. CASE Propagate(w)
    BY <1>2, <2>1 DEF Propagate, TypeOK
  <2>. QED
    BY <2>1 DEF Step, Take, Start, GetNext, Buffer, Read, Produce, Finish, CallBack, Erase,
       CheckOutput, AddTask, AllAdded, SetNext, TakeSmallest, Requeue, EndDrain, seenVars
<1>6. ASSUME NEW v \in Workers
      PROVE  /\ Works(v, n)' => Works(v, n) /\ Pkt(v)' = Pkt(v)
             /\ Leaves(v, n)' => Leaves(v, n) /\ Pkt(v)' = Pkt(v)
             /\ Leaves(v, n) => Leaves(v, n)' /\ Pkt(v)' = Pkt(v)
  <2>1. CASE v = w
    <3>1. Leaves(w, n)' => Works(w, n)'
      BY DEF Works
    <3>. QED
      BY <2>1, <3>1, StepWorks
  <2>2. CASE v # w
    BY <1>1, <2>2, SameThread
  <2>. QED
    BY <2>1, <2>2
<1>7. \A p \in Left(n) : \A m \in graph.nodes \ Taps(graph) : Comes(m, p)' => IsBehind(m, n)
  BY LeftStaysBehind
<1>. QED
  BY <1>1, <1>4, <1>5, <1>6, <1>7, TurnAfterStep

\* A thread compares ids at node n: the next id steps over skipped ones, and
\* over nobody's who works there.
LEMMA GetNextKeepsTurn ==
    ASSUME NoOverflow, TypeOK, Climbs(graph), LineInv, GraphNodeEnds, NEW n \in Keepers,
           TurnInv(n), NEW w \in Workers, Node(w) = n, GetNext(w)
    PROVE  TurnInv(n)'
<1>. USE DEF TurnInv
<1>0. Step(w) /\ pc[w] = "next" /\ n \in Ordered
  BY TheKeeper DEF Step, GetNext
<1>1. /\ graph' = graph /\ submit' = submit /\ left' = left /\ Left(n)' = Left(n)
      /\ \A v \in Workers \ {w} :
             /\ pc'[v] = pc[v] /\ task'[v] = task[v] /\ todo'[v] = todo[v]
             /\ taken'[v] = taken[v]
  BY <1>0, StepLeaves DEF GetNext, seenVars, Left
<1>. PICK o \in OrderRecord : o = order[n]
  BY TheKeeper
<1>. PICK p \in PktIds : p = Pkt(w)
  BY DEF TypeOK, Tasks, Pkt
<1>. PICK next : next = NextPktId(o)
  OBVIOUS
<1>. PICK r : r = order'[n]
  OBVIOUS
<1>2. /\ r = AfterGetNextPktId(o) /\ task' = task
      /\ pc'[w] = "read" => next = p
      /\ pc'[w] \in {"buffer", "read", "drain"}
  BY <1>0 DEF GetNext, Goto, TypeOK, localVars
<1>3. /\ next \in 0 .. NumPkts /\ o.next <= next
      /\ \A j \in o.next .. next - 1 : j \in o.skip
      /\ r.known /\ r.next = next /\ r.skip \subseteq o.skip
  BY <1>2, GetNextLeaves DEF NextIsId
<1>4. o.next \in 0 .. NumPkts /\ o.skip \subseteq PktIds /\ NumPkts \in Nat
  BY NumPktsAssumption DEF NextIsId, OrderRecord
<1>5. /\ ~Leaves(w, n) /\ ~Leaves(w, n)' /\ Pkt(w)' = Pkt(w)
      /\ Works(w, n)' => next = p
  BY <1>0, <1>2 DEF Leaves, Works, Pkt
<1>6. \A v \in Workers \ {w} : /\ Works(v, n)' <=> Works(v, n)
                               /\ Leaves(v, n)' <=> Leaves(v, n)
                               /\ Pkt(v)' = Pkt(v)
  BY <1>1, SameThread
<1>7. NextIsId(n)'
  BY <1>3 DEF NextIsId
<1>8. SkipsAreSkipped(n)'
  BY <1>1, <1>3 DEF SkipsAreSkipped
<1>9. PassedOrSkipped(n)'
  <2>. SUFFICES ASSUME NEW q \in PktIds, q < next
                PROVE  q \in Left(n) \/ submit[q] = "skipped"
    BY <1>1, <1>3 DEF PassedOrSkipped
  <2>1. CASE q < o.next
    BY <2>1 DEF PassedOrSkipped
  <2>2. CASE ~(q < o.next)
    <3>1. q \in o.next .. next - 1
      BY <1>3, <1>4, <2>2 DEF PktIds
    <3>. QED
      BY <1>3, <3>1 DEF SkipsAreSkipped
  <2>. QED
    BY <2>1, <2>2
<1>10. LeftIsPassed(n)'
  <2>. SUFFICES ASSUME NEW q \in Left(n)
                PROVE  q < next \/ \E v \in Workers : Leaves(v, n)' /\ Pkt(v)' = q
    BY <1>1, <1>3 DEF LeftIsPassed
  <2>1. q \in Int
    BY DEF LeftIsOffered, PktIds
  <2>2. CASE q < o.next
    BY <1>3, <1>4, <2>1, <2>2
  <2>3. CASE \E v \in Workers : Leaves(v, n) /\ Pkt(v) = q
    BY <1>5, <1>6, <2>3
  <2>. QED
    BY <2>2, <2>3 DEF LeftIsPassed
<1>11. WorkIsNext(n)'
  <2>. SUFFICES ASSUME NEW v \in Workers, Works(v, n)' PROVE next = Pkt(v)'
    BY <1>3 DEF WorkIsNext
  <2>1. CASE v = w
    BY <1>5, <2>1
  <2>2. CASE v # w
    <3>1. Works(v, n) /\ Pkt(v)' = Pkt(v)
      BY <1>6, <2>2
    <3>2. o.next = Pkt(v) /\ Pkt(v) \in PktIds
      BY <3>1, WorkerHasPacket DEF WorkIsNext
    <3>3. submit[Pkt(v)] \in {"adding", "accepted"}
      BY <3>1, WorkerHasPacket DEF OneLeaves, LeftIsOffered
    <3>4. o.next \notin o.skip
      BY <3>2, <3>3 DEF SkipsAreSkipped
    <3>5. ~(o.next < next)
      BY <1>3, <1>4, <3>4
    <3>. QED
      BY <1>3, <1>4, <3>1, <3>2, <3>5
  <2>. QED
    BY <2>1, <2>2
<1>12. OneLeaves(n)'
  BY <1>1, <1>5, <1>6 DEF OneLeaves
<1>13. LeftIsOffered(n)'
  BY <1>1 DEF LeftIsOffered
<1>14. LeftIsBehind(n)'
  BY <1>0, <1>1, LeftStaysBehind DEF LeftIsBehind, IsBehind
<1>. QED
  BY <1>7, <1>8, <1>9, <1>10, <1>11, <1>12, <1>13, <1>14

\* A thread sets the next id: to that behind its packet, and behind skipped ones.
LEMMA SetNextKeepsTurn ==
    ASSUME NoOverflow, TypeOK, Climbs(graph), LineInv, GraphNodeEnds, NEW n \in Keepers,
           TurnInv(n), NEW w \in Workers, Node(w) = n, SetNext(w)
    PROVE  TurnInv(n)'
<1>. USE DEF TurnInv
<1>0. Step(w) /\ pc[w] = "setnext" /\ n \in Ordered
  BY TheKeeper DEF Step, SetNext
<1>1. /\ graph' = graph /\ submit' = submit /\ left' = left /\ Left(n)' = Left(n)
      /\ \A v \in Workers \ {w} :
             /\ pc'[v] = pc[v] /\ task'[v] = task[v] /\ todo'[v] = todo[v]
             /\ taken'[v] = taken[v]
  BY <1>0, StepLeaves DEF SetNext, seenVars, Left
<1>. PICK o \in OrderRecord : o = order[n]
  BY TheKeeper
<1>. PICK p \in PktIds : p = Pkt(w)
  BY DEF TypeOK, Tasks, Pkt
<1>. PICK r : r = order'[n]
  OBVIOUS
<1>2. r = AfterSetNextPktId(o, p + 1) /\ pc'[w] \in {"idle", "drain"}
  BY <1>0 DEF SetNext, Goto, Return, TypeOK
<1>3. p + 1 \in 0 .. NumPkts /\ NumPkts \in Nat /\ o.skip \subseteq PktIds
  BY NumPktsAssumption DEF PktIds, OrderRecord
<1>4. /\ r.known /\ r.next \in p + 1 .. NumPkts
      /\ \A j \in p + 1 .. r.next - 1 : j \in o.skip
      /\ r.skip \subseteq o.skip
  BY <1>2, <1>3, SetNextLeaves
<1>5. Leaves(w, n) /\ o.next = p /\ p \in Left(n)
  BY <1>0 DEF Leaves, Works, WorkIsNext, OneLeaves
<1>6. ~Works(w, n)' /\ ~Leaves(w, n)'
  BY <1>2 DEF Works, Leaves
<1>7. \A v \in Workers \ {w} : /\ Works(v, n)' <=> Works(v, n)
                               /\ Leaves(v, n)' <=> Leaves(v, n)
                               /\ Pkt(v)' = Pkt(v)
  BY <1>1, SameThread
<1>8. NextIsId(n)'
  BY <1>3, <1>4 DEF NextIsId
<1>9. SkipsAreSkipped(n)'
  BY <1>1, <1>4 DEF SkipsAreSkipped
<1>10. PassedOrSkipped(n)'
  <2>. SUFFICES ASSUME NEW q \in PktIds, q < r.next
                PROVE  q \in Left(n) \/ submit[q] = "skipped"
    BY <1>1 DEF PassedOrSkipped
  <2>1. CASE q < p
    BY <1>5, <2>1 DEF PassedOrSkipped
  <2>2. CASE q = p
    BY <1>5, <2>2
  <2>3. CASE p < q
    <3>1. q \in p + 1 .. r.next - 1
      BY <1>3, <1>4, <2>3 DEF PktIds
    <3>. QED
      BY <1>4, <3>1 DEF SkipsAreSkipped
  <2>. QED
    BY <2>1, <2>2, <2>3 DEF PktIds
<1>11. LeftIsPassed(n)'
  <2>. SUFFICES ASSUME NEW q \in Left(n) PROVE q < r.next
    BY <1>1 DEF LeftIsPassed
  <2>1. q \in Int /\ p \in Int
    BY DEF LeftIsOffered, PktIds
  <2>2. q < o.next \/ q = o.next
    BY DEF LeftIsPassed, WorkIsNext, Works
  <2>. QED
    BY <1>3, <1>4, <1>5, <2>1, <2>2
<1>12. \A v \in Workers \ {w} : ~Works(v, n)
  <2>. SUFFICES ASSUME NEW v \in Workers \ {w}, Works(v, n) PROVE FALSE
    OBVIOUS
  <2>1. Pkt(v) = p
    BY <1>5 DEF WorkIsNext
  <2>2. ~Leaves(v, n)
    BY <1>5 DEF OneLeaves
  <2>3. Comes(n, p)
    BY <2>1, <2>2, WorkerHasPacket
  <2>. QED
    BY <1>5, <2>3, TheKeeper DEF LeftIsBehind
<1>13. WorkIsNext(n)' /\ OneLeaves(n)'
  BY <1>6, <1>7, <1>12 DEF WorkIsNext, OneLeaves, Works
<1>14. LeftIsOffered(n)'
  BY <1>1 DEF LeftIsOffered
<1>15. LeftIsBehind(n)'
  BY <1>0, <1>1, LeftStaysBehind DEF LeftIsBehind, IsBehind
<1>. QED
  BY <1>8, <1>9, <1>10, <1>11, <1>13, <1>14, <1>15

\* The packet a thread propagates from node n is the one whose turn it is: all
\* before it left or were skipped, and those that left were before it.
LEMMA PropagatesInTurn ==
    ASSUME TypeOK, Climbs(graph), LineInv, NEW n \in Keepers, TurnInv(n),
           NEW w \in Workers, Node(w) = n, Propagate(w)
    PROVE  /\ Pkt(w) \in PktIds /\ submit[Pkt(w)] \in {"adding", "accepted"}
           /\ Pkt(w) \notin Left(n)
           /\ \A q \in PktIds : q < Pkt(w) => q \in Left(n) \/ submit[q] = "skipped"
           /\ \A q \in Left(n) : q < Pkt(w)
           /\ \A v \in Workers : ~Leaves(v, n)
           /\ left' = [left EXCEPT ![n] = Append(@, Pkt(w))]
           /\ Left(n)' = Left(n) \union {Pkt(w)}
           /\ pc'[w] = "add" /\ todo'[w] = Destinations(n)
<1>. USE DEF TurnInv
<1>. PICK p \in PktIds : p = Pkt(w)
  BY DEF TypeOK, Tasks, Pkt
<1>1. /\ pc[w] = "propagate" /\ Works(w, n) /\ ~Leaves(w, n)
      /\ n \in Ordered /\ KeepsOrder(n)
  BY TheKeeper DEF Propagate, Works, Leaves
<1>2. order[n].next = p /\ Comes(n, p) /\ submit[p] \in {"adding", "accepted"}
  BY <1>1, WorkerHasPacket DEF WorkIsNext
<1>3. p \notin Left(n)
  BY <1>2, TheKeeper DEF LeftIsBehind
<1>4. \A v \in Workers : ~Leaves(v, n)
  <2>. SUFFICES ASSUME NEW v \in Workers, Leaves(v, n) PROVE FALSE
    OBVIOUS
  <2>1. Pkt(v) = p
    BY <1>2 DEF WorkIsNext, Works
  <2>. QED
    BY <1>3, <2>1 DEF OneLeaves
<1>5. \A q \in Left(n) : q < p
  BY <1>2, <1>4 DEF LeftIsPassed
<1>6. \A q \in PktIds : q < p => q \in Left(n) \/ submit[q] = "skipped"
  BY <1>2 DEF PassedOrSkipped
<1>7. holds[w]
  BY <1>1 DEF LineInv, RunsWithContext, InTask
<1>8. left' = [left EXCEPT ![n] = Append(@, p)] /\ pc'[w] = "add" /\ todo'[w] = Destinations(n)
  BY <1>1, <1>7 DEF Propagate, Goto, TypeOK
<1>9. Left(n)' = Left(n) \union {p}
  <2>. PICK s \in Seq(PktIds) : s = left[n]
    BY TheKeeper
  <2>1. left'[n] = Append(s, p)
    BY <1>1, <1>8 DEF TypeOK
  <2>2. /\ Len(Append(s, p)) = Len(s) + 1 /\ Append(s, p)[Len(s) + 1] = p /\ Len(s) \in Nat
        /\ \A i \in 1 .. Len(s) : Append(s, p)[i] = s[i]
    OBVIOUS
  <2>3. \A i : i \in 1 .. Len(s) + 1 <=> i \in 1 .. Len(s) \/ i = Len(s) + 1
    BY <2>2
  <2>. QED
    BY <2>1, <2>2, <2>3 DEF Left
<1>. QED
  BY <1>2, <1>3, <1>4, <1>5, <1>6, <1>8, <1>9

\* A packet that is propagated comes to the destinations, and nowhere else.
LEMMA PropagatedComesOnward ==
    ASSUME TypeOK, LineInv, NEW w \in Workers, Propagate(w), Node(w) \notin Taps(graph),
           todo'[w] = Destinations(Node(w)), pc'[w] = "add",
           NEW p \in PktIds, p = Pkt(w), NEW m \in graph.nodes \ Taps(graph), Comes(m, p)'
    PROVE  m \in Destinations(Node(w))
<1>0. Step(w) /\ pc[w] = "propagate"
  BY DEF Step, Propagate
<1>1. /\ graph' = graph /\ appTodo' = appTodo
      /\ \A v \in Workers \ {w} :
             /\ pc'[v] = pc[v] /\ task'[v] = task[v] /\ todo'[v] = todo[v]
             /\ taken'[v] = taken[v]
  BY <1>0, StepLeaves
<1>2. ready' = ready /\ executor' = executor /\ order' = order /\ task' = task
  BY DEF Propagate, queueVars
\* Before the step, it is with the thread only.
<1>3. WithThread(w, p)
  BY <1>0 DEF WithThread, InTask, Carries, Pkt, Node
<1>. DEFINE Here(a, i) == a \in Kinds /\ i \in Places /\ At(a, i, p)
<1>4. Here("thread", w) /\ \A a, b, i, j : Here(a, i) /\ Here(b, j) => a = b /\ i = j
  <2>1. Here("thread", w)
    BY <1>3 DEF At, Kinds, Places
  <2>2. \A a, b, i, j : Here(a, i) /\ Here(b, j) => a = b /\ i = j
    BY DEF LineInv, OnePlace
  <2>. QED
    BY <2>1, <2>2
<1>5. /\ \A s : HasTask(s, m, p) => InList(s, p)
      /\ \A v \in Workers : Brings(v, m, p) => WithThread(v, p)
  BY DEF HasTask, IsTask, InList, Carries, Brings, WithThread, InTask, Pkt, Node
<1>6. /\ m \in appTodo[p] => Here("caller", 0)
      /\ HasTask(executor, m, p) => Here("executor", 0)
      /\ \A l \in Lists : HasTask(ready[l], m, p) => Here("ready", l)
      /\ \A v \in Workers : Brings(v, m, p) => Here("thread", v)
      /\ m \in Ordered /\ Buffered(m, p) => Here("heap", m)
  BY <1>5 DEF At, Kinds, Places, WithCaller, InHeap, Buffered
<1>. HIDE DEF Here
<1>7. /\ m \notin appTodo[p] /\ ~HasTask(executor, m, p)
      /\ \A l \in Lists : ~HasTask(ready[l], m, p)
      /\ \A v \in Workers \ {w} : ~Brings(v, m, p)
      /\ ~(m \in Ordered /\ Buffered(m, p))
  BY <1>4, <1>6
\* After it, too.
<1>8. /\ \A v \in Workers \ {w} : Brings(v, m, p)' <=> Brings(v, m, p)
      /\ \A l \in Lists : HasTask(ready[l], m, p)' <=> HasTask(ready[l], m, p)
      /\ HasTask(executor, m, p)' <=> HasTask(executor, m, p)
      /\ Buffered(m, p)' <=> Buffered(m, p)
      /\ Lists' = Lists /\ Ordered' = Ordered
  BY <1>1, <1>2, SameThread, SameTasks, SameGraph DEF Buffered
<1>9. Brings(w, m, p)'
  BY <1>1, <1>7, <1>8 DEF Comes
<1>. QED
  BY <1>9 DEF Brings, InTask

\* Node n propagates a packet: it is the last that left, and its thread the only
\* one that leaves.
LEMMA PropagateKeepsTurn ==
    ASSUME TypeOK, Climbs(graph), LineInv, GraphNodeEnds, NEW n \in Keepers,
           TurnInv(n), NEW w \in Workers, Node(w) = n, Propagate(w)
    PROVE  TurnInv(n)'
<1>. USE DEF TurnInv
<1>0. Step(w) /\ n \in Ordered /\ n \in graph.nodes /\ n # GraphNode /\ n \notin Taps(graph)
  BY TheKeeper DEF Step
<1>. PICK p \in PktIds : p = Pkt(w)
  BY DEF TypeOK, Tasks, Pkt
<1>1. /\ graph' = graph /\ submit' = submit /\ order' = order /\ task' = task
      /\ \A v \in Workers \ {w} :
             /\ pc'[v] = pc[v] /\ task'[v] = task[v] /\ todo'[v] = todo[v]
             /\ taken'[v] = taken[v]
  BY <1>0, StepLeaves DEF Propagate
<1>2. /\ submit[p] \in {"adding", "accepted"}
      /\ Left(n)' = Left(n) \union {p} /\ pc'[w] = "add" /\ todo'[w] = Destinations(n)
      /\ \A v \in Workers : ~Leaves(v, n)
  BY PropagatesInTurn
<1>3. Leaves(w, n)' /\ Pkt(w)' = p /\ Works(w, n)
  BY <1>1, <1>2 DEF Leaves, Works, Node, Pkt, Propagate
<1>4. \A v \in Workers \ {w} : /\ Works(v, n)' <=> Works(v, n)
                               /\ Leaves(v, n)' <=> Leaves(v, n)
                               /\ Pkt(v)' = Pkt(v)
  BY <1>1, SameThread
<1>5. NextIsId(n)' /\ SkipsAreSkipped(n)'
  BY <1>1 DEF NextIsId, SkipsAreSkipped
<1>6. PassedOrSkipped(n)'
  BY <1>1, <1>2 DEF PassedOrSkipped
<1>7. LeftIsPassed(n)'
  BY <1>1, <1>2, <1>3 DEF LeftIsPassed
<1>8. WorkIsNext(n)'
  BY <1>1, <1>3, <1>4 DEF WorkIsNext
<1>9. OneLeaves(n)'
  BY <1>2, <1>3, <1>4 DEF OneLeaves
<1>10. LeftIsOffered(n)'
  BY <1>1, <1>2 DEF LeftIsOffered
<1>11. LeftIsBehind(n)'
  <2>. SUFFICES ASSUME NEW q \in Left(n) \union {p}, NEW m \in graph.nodes \ Taps(graph),
                       Comes(m, q)'
                PROVE  IsBehind(m, n)
    BY <1>1, <1>2 DEF LeftIsBehind, IsBehind
  <2>1. CASE q \in Left(n)
    BY <1>0, <2>1, LeftStaysBehind
  <2>2. CASE q = p
    BY <1>0, <1>2, <2>2, PropagatedComesOnward, TheKeeper DEF IsBehind
  <2>. QED
    BY <2>1, <2>2
<1>. QED
  BY <1>5, <1>6, <1>7, <1>8, <1>9, <1>10, <1>11

\* The scheduler thread and the application bring no packet anywhere it was not
\* to come to already, but for one that is handed in.
LEMMA CallerComes ==
    ASSUME TypeOK, NEW m \in graph.nodes, NEW p \in PktIds, Comes(m, p)',
           \/ Schedule
           \/ \E q \in PktIds : AddPacketAsync(q) \/ FlowControl(q) \/ AddFirstTask(q)
                                \/ AddSkipPacket(q)
    PROVE  Comes(m, p) \/ AddPacketAsync(p)
<1>. USE DEF appVars, dataVars, queueVars, localVars, seenVars
<1>1. graph' = graph /\ pc' = pc /\ task' = task /\ todo' = todo /\ taken' = taken
  BY DEF Schedule, AddPacketAsync, FlowControl, AddFirstTask, AddSkipPacket
<1>2. /\ \A v \in Workers : Brings(v, m, p)' <=> Brings(v, m, p)
      /\ Lists' = Lists /\ Ordered' = Ordered
  BY <1>1, SameThread, SameGraph
<1>3. \A n \in Ordered : Buffered(n, p)' <=> Buffered(n, p)
  <2>1. CASE order' = order
    BY <2>1 DEF Buffered
  <2>2. ASSUME NEW q \in PktIds, AddSkipPacket(q), NEW n \in Ordered
        PROVE  order'[n].heap = order[n].heap
    <3>. PICK o \in OrderRecord : o = order[n]
      BY DEF TypeOK
    <3>1. order'[n] = AfterAddSkipPktId(o, q)
      BY <2>2 DEF AddSkipPacket
    <3>. QED
      BY <3>1, AddSkipLeaves
  <2>. QED
    BY <2>1, <2>2 DEF Schedule, AddPacketAsync, FlowControl, AddFirstTask, Buffered
<1>4. /\ m \in appTodo[p] => Comes(m, p)
      /\ HasTask(executor, m, p) => Comes(m, p)
      /\ \A l \in Lists : HasTask(ready[l], m, p) => Comes(m, p)
      /\ \A v \in Workers : Brings(v, m, p) => Comes(m, p)
      /\ m \in Ordered /\ Buffered(m, p) => Comes(m, p)
  BY DEF Comes
<1>5. \/ m \in appTodo'[p]
      \/ \E l \in Lists : HasTask(ready[l], m, p)'
      \/ HasTask(executor, m, p)'
      \/ Comes(m, p)
  BY <1>2, <1>3, <1>4 DEF Comes
<1>6. CASE Schedule
  <2>1. PICK k \in 0 .. NumPriorities - 1 :
            /\ ready[k] # <<>>
            /\ executor' = Append(executor, Head(ready[k]))
            /\ ready' = [ready EXCEPT ![k] = Tail(@)]
            /\ appTodo' = appTodo
    BY <1>6 DEF Schedule
  <2>2. k \in Lists
    BY SchedulerAssumption DEF Lists
  <2>. PICK s \in Seq(Tasks) : s = ready[k]
    BY <2>2 DEF TypeOK
  <2>. PICK x \in Seq(Tasks) : x = executor
    BY DEF TypeOK
  <2>. PICK t \in Tasks : t = Head(s)
    BY <2>1
  <2>3. HasTask(s, m, p) => Comes(m, p)
    BY <1>4, <2>2
  <2>4. HasTask(executor, m, p)' => Comes(m, p)
    <3>1. HasTask(executor, m, p)' <=> HasTask(Append(x, t), m, p)
      BY <2>1 DEF HasTask, IsTask
    <3>2. HasTask(Append(x, t), m, p) => HasTask(x, m, p) \/ HasTask(s, m, p)
      BY <2>1, TasksOfList
    <3>. QED
      BY <1>4, <2>3, <3>1, <3>2
  <2>5. ASSUME NEW l \in Lists, HasTask(ready[l], m, p)' PROVE Comes(m, p)
    <3>1. CASE l = k
      <4>1. HasTask(Tail(s), m, p)
        BY <2>1, <2>2, <2>5, <3>1 DEF HasTask, IsTask, TypeOK
      <4>2. HasTask(s, m, p)
        BY <2>1, <4>1, TasksOfList
      <4>. QED
        BY <2>3, <4>2
    <3>2. CASE l # k
      <4>1. ready'[l] = ready[l]
        BY <2>1, <3>2 DEF TypeOK
      <4>. QED
        BY <1>1, <1>4, <2>5, <4>1, SameTasks
    <3>. QED
      BY <3>1, <3>2
  <2>. QED
    BY <1>4, <1>5, <2>1, <2>4, <2>5
<1>7. ASSUME NEW q \in PktIds, AddFirstTask(q) PROVE Comes(m, p)
  <2>1. PICK n \in First(appTodo[q]) :
            ready' = Queued(q, n) /\ appTodo' = [appTodo EXCEPT ![q] = @ \ {n}]
    BY <1>7 DEF AddFirstTask
  <2>2. n \in appTodo[q] /\ n \in graph.nodes /\ executor' = executor
    BY <1>7 DEF First, TypeOK, AddFirstTask
  <2>3. m \in appTodo'[p] => m \in appTodo[p]
    BY <2>1 DEF TypeOK
  <2>4. HasTask(executor, m, p)' => HasTask(executor, m, p)
    BY <1>1, <2>2, SameTasks
  <2>5. ASSUME NEW l \in Lists, HasTask(ready[l], m, p)' PROVE Comes(m, p)
    <3>1. HasTask(ready[l], m, p) \/ (m = n /\ p = q)
      BY <1>1, <2>1, <2>2, <2>5, TaskJoins
    <3>. QED
      BY <1>4, <2>2, <3>1
  <2>. QED
    BY <1>4, <1>5, <2>3, <2>4, <2>5
<1>8. ASSUME NEW q \in PktIds, AddPacketAsync(q) \/ FlowControl(q) \/ AddSkipPacket(q),
             ~AddPacketAsync(p)
      PROVE  Comes(m, p)
  <2>1. ready' = ready /\ executor' = executor
    BY <1>8 DEF AddPacketAsync, FlowControl, AddSkipPacket
  <2>2. appTodo'[p] = appTodo[p]
    BY <1>8 DEF AddPacketAsync, MayAdd, FlowControl, AddSkipPacket, TypeOK
  <2>3. /\ \A l \in Lists : HasTask(ready[l], m, p)' <=> HasTask(ready[l], m, p)
        /\ HasTask(executor, m, p)' <=> HasTask(executor, m, p)
    BY <1>1, <2>1, SameTasks
  <2>. QED
    BY <1>4, <1>5, <2>2, <2>3
<1>. QED
  BY <1>6, <1>7, <1>8

LEMMA CallersKeepTurn ==
    ASSUME TypeOK, Climbs(graph), NEW n \in Keepers, TurnInv(n),
           \/ Schedule
           \/ \E q \in PktIds : AddPacketAsync(q) \/ FlowControl(q) \/ AddFirstTask(q)
                                \/ AddSkipPacket(q)
    PROVE  TurnInv(n)'
<1>. USE DEF appVars, dataVars, queueVars, localVars, seenVars
<1>1. /\ graph' = graph /\ pc' = pc /\ task' = task /\ todo' = todo /\ taken' = taken
      /\ left' = left
  BY DEF Schedule, AddPacketAsync, FlowControl, AddFirstTask, AddSkipPacket
<1>2. n \in Ordered /\ Left(n)' = Left(n)
  BY <1>1, TheKeeper DEF Left
<1>3. \A w \in Workers : /\ Works(w, n)' <=> Works(w, n)
                         /\ Leaves(w, n)' <=> Leaves(w, n)
                         /\ Pkt(w)' = Pkt(w)
  BY <1>1, SameThread
<1>4. \A p \in PktIds :
          /\ submit[p] = "skipped" => submit'[p] = "skipped"
          /\ submit[p] \in {"adding", "accepted"} => submit'[p] \in {"adding", "accepted"}
  BY DEF Schedule, AddPacketAsync, MayAdd, FlowControl, AddFirstTask, AddSkipPacket, TypeOK
<1>5. \A p \in Left(n) : p \in PktIds /\ ~AddPacketAsync(p)
  BY DEF TurnInv, LeftIsOffered, AddPacketAsync, MayAdd
<1>6. \A p \in Left(n) : \A m \in graph.nodes \ Taps(graph) : Comes(m, p)' => IsBehind(m, n)
  BY <1>5, CallerComes DEF TurnInv, LeftIsBehind
<1>7. CASE order' = order
  BY <1>1, <1>3, <1>4, <1>6, <1>7, TurnAfterStep
<1>8. ASSUME NEW q \in PktIds, AddSkipPacket(q) PROVE TurnInv(n)'
  <2>. PICK o \in OrderRecord : o = order[n]
    BY TheKeeper
  <2>. PICK r : r = order'[n]
    OBVIOUS
  <2>1. r = AfterAddSkipPktId(o, q) /\ submit'[q] = "skipped"
    BY <1>2, <1>8 DEF AddSkipPacket, TypeOK
  <2>2. r.known = o.known /\ r.next = o.next /\ r.skip \subseteq o.skip \union {q}
    BY <2>1, AddSkipLeaves
  <2>3. o.skip \subseteq PktIds
    BY DEF OrderRecord
  <2>. USE DEF TurnInv
  <2>4. NextIsId(n)'
    BY <2>2 DEF NextIsId
  <2>5. SkipsAreSkipped(n)'
    BY <1>4, <2>1, <2>2, <2>3 DEF SkipsAreSkipped
  <2>6. PassedOrSkipped(n)'
    BY <1>2, <1>4, <2>2 DEF PassedOrSkipped
  <2>7. LeftIsPassed(n)'
    BY <1>2, <1>3, <2>2 DEF LeftIsPassed
  <2>8. WorkIsNext(n)'
    BY <1>3, <2>2 DEF WorkIsNext
  <2>9. OneLeaves(n)'
    BY <1>2, <1>3 DEF OneLeaves
  <2>10. LeftIsOffered(n)'
    BY <1>2, <1>4 DEF LeftIsOffered
  <2>11. LeftIsBehind(n)'
    BY <1>1, <1>2, <1>6 DEF LeftIsBehind, IsBehind
  <2>. QED
    BY <2>4, <2>5, <2>6, <2>7, <2>8, <2>9, <2>10, <2>11
<1>. QED
  BY <1>7, <1>8 DEF Schedule, AddPacketAsync, FlowControl, AddFirstTask

\* Only a thread that is not at the graph node processes and propagates.
LEMMA GraphNodeStaysEnd ==
    ASSUME TypeOK, GraphNodeEnds, [Next]_vars PROVE GraphNodeEnds'
<1>. DEFINE Hands(w) == pc[w] \in {"produce", "output", "propagate", "add"}
<1>1. CASE \E w \in Workers : Step(w)
  <2>. PICK w \in Workers : Step(w)
    BY <1>1
  <2>1. \A v \in Workers \ {w} : pc'[v] = pc[v] /\ task'[v] = task[v]
    BY StepLeaves
  <2>2. Hands(w)' => Node(w) # GraphNode /\ task' = task
    <3>1. CASE Take(w)
      BY <3>1 DEF Take, Goto, TypeOK
    <3>2. CASE Start(w) \/ GetNext(w) \/ Buffer(w) \/ Read(w) \/ Produce(w) \/ Finish(w)
      BY <3>2 DEF Start, GetNext, Buffer, Read, Produce, Finish, Goto, Return, TypeOK,
         localVars, GraphNodeEnds
    <3>3. CASE CallBack(w) \/ Erase(w) \/ CheckOutput(w) \/ Propagate(w) \/ AddTask(w)
      BY <3>3 DEF CallBack, Erase, CheckOutput, Propagate, AddTask, Goto, Return, TypeOK,
         localVars, GraphNodeEnds
    <3>4. CASE AllAdded(w) \/ SetNext(w) \/ TakeSmallest(w) \/ Requeue(w) \/ EndDrain(w)
      BY <3>4 DEF AllAdded, SetNext, TakeSmallest, Requeue, EndDrain, Goto, Return, TypeOK,
         localVars, GraphNodeEnds
    <3>. QED
      BY <3>1, <3>2, <3>3, <3>4 DEF Step
  <2>. QED
    BY <2>1, <2>2 DEF GraphNodeEnds, Node
<1>2. CASE pc' = pc /\ task' = task
  BY <1>2 DEF GraphNodeEnds, Node
<1>. QED
  BY <1>1, <1>2 DEF Next, Schedule, AddPacketAsync, FlowControl, AddFirstTask, AddSkipPacket,
     vars, localVars

LEMMA InitOrder == Init => OrderInv
<1>. SUFFICES ASSUME Init, NEW n \in Keepers PROVE GraphNodeEnds /\ TurnInv(n)
  BY DEF OrderInv, Init, GraphNodeEnds
<1>1. GraphNodeEnds /\ \A w \in Workers : ~Works(w, n) /\ ~Leaves(w, n)
  BY DEF Init, GraphNodeEnds, Works, Leaves
<1>2. n \in Ordered
  BY DEF Keepers
<1>3. Left(n) = {}
  BY <1>2 DEF Init, Left
<1>4. order[n].next = 0 /\ ~order[n].known /\ order[n].skip = {}
  BY <1>2 DEF Init, EmptyOrder
<1>. QED
  BY <1>1, <1>3, <1>4, NumPktsAssumption DEF TurnInv, NextIsId, SkipsAreSkipped,
     PassedOrSkipped, LeftIsPassed, WorkIsNext, OneLeaves, LeftIsOffered, LeftIsBehind, PktIds

\* The graph stays the one that was chosen.
LEMMA GraphStays == ASSUME [Next]_vars PROVE graph' = graph
  BY DEF Next, Step, Take, Start, GetNext, Buffer, Read, Produce, Finish, CallBack, Erase,
     CheckOutput, Propagate, AddTask, AllAdded, SetNext, TakeSmallest, Requeue, EndDrain,
     Schedule, AddPacketAsync, FlowControl, AddFirstTask, AddSkipPacket, vars, appVars

LEMMA NextKeepsOrder ==
    ASSUME NoOverflow, IInv, OrderInv, [Next]_vars PROVE OrderInv'
<1>1. graph' = graph /\ Keepers' = Keepers
  BY GraphStays, SameGraph DEF Keepers
<1>. SUFFICES ASSUME Climbs(graph), NEW n \in Keepers PROVE GraphNodeEnds' /\ TurnInv(n)'
  <2>1. Climbs(graph) => GraphNodeEnds'
    BY GraphNodeStaysEnd DEF OrderInv, IInv
  <2>. QED
    BY <1>1, <2>1 DEF OrderInv, Climbs
<1>2. TypeOK /\ LineInv /\ GraphNodeEnds /\ TurnInv(n)
  BY DEF IInv, OrderInv, Climbs
<1>3. GraphNodeEnds'
  BY <1>2, GraphNodeStaysEnd
<1>4. CASE \E w \in Workers : Step(w)
  <2>. PICK w \in Workers : Step(w)
    BY <1>4
  <2>. QED
    BY <1>2, <1>3, OtherStepsKeepTurn, GetNextKeepsTurn, PropagateKeepsTurn, SetNextKeepsTurn
<1>5. CASE \/ Schedule
           \/ \E q \in PktIds : AddPacketAsync(q) \/ FlowControl(q) \/ AddFirstTask(q)
                                \/ AddSkipPacket(q)
  BY <1>2, <1>3, <1>5, CallersKeepTurn
<1>6. CASE UNCHANGED vars
  <2>1. /\ order' = order /\ left' = left /\ submit' = submit
        /\ pc' = pc /\ task' = task /\ todo' = todo /\ taken' = taken
        /\ appTodo' = appTodo /\ ready' = ready /\ executor' = executor
    BY <1>6 DEF vars, appVars, dataVars, queueVars, localVars, seenVars
  <2>2. \A v \in Workers :
            /\ \A m, p : Brings(v, m, p)' <=> Brings(v, m, p)
            /\ Works(v, n)' <=> Works(v, n)
            /\ Leaves(v, n)' <=> Leaves(v, n)
            /\ Pkt(v)' = Pkt(v)
    BY <1>1, <2>1, SameThread
  <2>3. /\ \A m, p : \A l \in Lists : HasTask(ready[l], m, p)' <=> HasTask(ready[l], m, p)
        /\ \A m, p : HasTask(executor, m, p)' <=> HasTask(executor, m, p)
        /\ \A m, p : Buffered(m, p)' <=> Buffered(m, p)
        /\ Lists' = Lists /\ Ordered' = Ordered
    BY <1>1, <2>1, SameTasks, SameGraph DEF Buffered
  <2>4. \A m, p : Comes(m, p)' => Comes(m, p)
    BY <2>1, <2>2, <2>3 DEF Comes
  <2>5. \A p \in Left(n) : \A m \in graph.nodes \ Taps(graph) : Comes(m, p)' => IsBehind(m, n)
    BY <1>2, <2>4 DEF TurnInv, LeftIsBehind
  <2>. QED
    BY <1>1, <1>2, <1>3, <2>1, <2>2, <2>5, TurnAfterStep
<1>. QED
  BY <1>3, <1>4, <1>5, <1>6 DEF Next

-----------------------------------------------------------------------------
(***************************************************************************)
(* The steps of a line are steps of InOrderDelivery at each ordered node.  *)
(***************************************************************************)

Offered == {p \in PktIds : submit[p] \in {"adding", "accepted"}}
Skipped == {p \in PktIds : submit[p] = "skipped"}

\* What a step changes of the three: one of them, and one packet, at most.
LEMMA StepDelivers ==
    ASSUME TypeOK, Climbs(graph), LineInv, GraphNodeEnds,
           \A k \in Keepers : TurnInv(k), [Next]_vars, NEW n \in Ordered \ {GraphNode}
    PROVE  [Delivery(n)!Next]_(Delivery(n)!vars)
<1>. USE DEF Delivery!vars, Delivery!Next
<1>1. ASSUME NEW p \in PktIds, AddPacketAsync(p) PROVE Delivery(n)!Offer(p)
  BY <1>1 DEF AddPacketAsync, MayAdd, seenVars, TypeOK, Delivery!Offer
<1>2. ASSUME NEW p \in PktIds, AddSkipPacket(p) PROVE Delivery(n)!Skip(p)
  BY <1>2 DEF AddSkipPacket, seenVars, TypeOK, Delivery!Skip
<1>3. CASE Offered' = Offered /\ Skipped' = Skipped /\ left'[n] = left[n]
  BY <1>3 DEF Offered, Skipped
<1>4. ASSUME NEW w \in Workers, Propagate(w), Node(w) = n, n \in Keepers
      PROVE  Delivery(n)!Deliver(Pkt(w))
  <2>1. /\ Pkt(w) \in PktIds /\ submit[Pkt(w)] \in {"adding", "accepted"}
        /\ Pkt(w) \notin Left(n)
        /\ \A q \in PktIds : q < Pkt(w) => q \in Left(n) \/ submit[q] = "skipped"
        /\ \A q \in Left(n) : q < Pkt(w)
        /\ left' = [left EXCEPT ![n] = Append(@, Pkt(w))]
    BY <1>4, PropagatesInTurn
  <2>2. submit' = submit /\ left'[n] = Append(left[n], Pkt(w))
    BY <1>4, <2>1 DEF Propagate, appVars, TypeOK
  <2>. QED
    BY <2>1, <2>2 DEF Delivery!Deliver, Delivery!Delivered, Left
<1>5. ASSUME NEW w \in Workers, Step(w)
      PROVE  /\ submit' = submit
             /\ left'[n] = left[n] \/ (Propagate(w) /\ Node(w) = n /\ n \in Keepers)
  <2>1. submit' = submit
    BY <1>5, StepLeaves
  <2>2. CASE Propagate(w)
    BY <2>1, <2>2 DEF Propagate, TypeOK, Keepers, LineInv, RunsWithContext
  <2>3. CASE left' = left
    BY <2>1, <2>3
  <2>. QED
    BY <1>5, <2>1, <2>2, <2>3 DEF Step, Take, Start, GetNext, Buffer, Read, Produce, Finish,
       CallBack, Erase, CheckOutput, AddTask, AllAdded, SetNext, TakeSmallest, Requeue,
       EndDrain, seenVars
<1>6. CASE \E w \in Workers : Step(w)
  <2>. PICK w \in Workers : Step(w)
    BY <1>6
  <2>1. Pkt(w) \in PktIds
    BY DEF TypeOK, Tasks, Pkt
  <2>. QED
    BY <1>3, <1>4, <1>5, <2>1 DEF Offered, Skipped
<1>7. CASE \/ UNCHANGED vars \/ Schedule
           \/ \E p \in PktIds : FlowControl(p) \/ AddFirstTask(p)
  <2>1. left' = left
    BY <1>7 DEF vars, seenVars, Schedule, FlowControl, AddFirstTask
  <2>2. Offered' = Offered /\ Skipped' = Skipped
    <3>1. CASE submit' = submit
      BY <3>1 DEF Offered, Skipped
    <3>2. ASSUME NEW p \in PktIds, FlowControl(p)
          PROVE  Offered' = Offered /\ Skipped' = Skipped
      BY <3>2 DEF FlowControl, MayAdd, Offered, Skipped, TypeOK
    <3>3. ASSUME NEW p \in PktIds, AddFirstTask(p)
          PROVE  Offered' = Offered /\ Skipped' = Skipped
      BY <3>1, <3>3 DEF AddFirstTask, Offered, Skipped, TypeOK
    <3>. QED
      BY <1>7, <3>1, <3>2, <3>3 DEF vars, appVars, Schedule
  <2>. QED
    BY <1>3, <2>1, <2>2
<1>. QED
  BY <1>1, <1>2, <1>6, <1>7 DEF Next

\* In every line whose levels rise, at each ordered node but the graph node,
\* packets leave in the order of their ids, each once, none before those in
\* front of it left or were announced, whatever the nodes before do to their
\* order; as long as no id overflows the int of the next id.
THEOREM LinesDeliverInOrder ==
    ASSUME NoOverflow PROVE Spec /\ Climbs(graph) => OrderedNodesDeliverInOrder
<1>1. ASSUME Climbs(graph), OrderInv, IInv, [Next]_vars
      PROVE  \A n \in Ordered \ {GraphNode} : [Delivery(n)!Next]_(Delivery(n)!vars)
  <2>1. TypeOK /\ LineInv /\ GraphNodeEnds /\ \A k \in Keepers : TurnInv(k)
    BY <1>1 DEF IInv, OrderInv, Climbs
  <2>. QED
    BY <1>1, <2>1, StepDelivers
<1>2. OrderInv /\ IInv /\ [Next]_vars => OrderInv'
  BY NextKeepsOrder
<1>3. Init => OrderInv
  BY InitOrder
<1>4. Climbs(graph) /\ [Next]_vars => Climbs(graph)'
  BY GraphStays
<1>. QED
  BY <1>1, <1>2, <1>3, <1>4, Invariant, PTL DEF Spec, OrderedNodesDeliverInOrder

-----------------------------------------------------------------------------
(***************************************************************************)
(* What the taps of a line do.  A tap's heap gives no packet back, because *)
(* nobody sets its next id; so a tap's thread can only find a context gone *)
(* where it starts and in its calculator, and then the packet, which was   *)
(* handed in and is not in the table, has been called back.                *)
(***************************************************************************)

Added(p) == submit[p] \in {"adding", "accepted"}

ComesIsAdded == \A p \in PktIds : \A m \in graph.nodes : Comes(m, p) => Added(p)

AddedIsKept == \A p \in PktIds : Added(p) => p \in table \/ p \in ToSet(called)

EraserHasCalled == \A w \in Workers : pc[w] = "erase" => Pkt(w) \in ToSet(called)

\* The first of the packets handed in one after the other meets an empty table.
FirstIsAdded ==
    graph.inTurn =>
        submit[0] \notin {"refused", "skipped"} /\ (submit[0] = "new" => table = {})

TapsKeepFirst ==
    \A n \in Ordered \intersect Taps(graph) :
        order[n].next = 0 /\ 0 \notin order[n].skip /\ ~Buffered(n, 0)

TapsEnd ==
    \A w \in Workers : Node(w) \in Taps(graph) =>
        pc[w] \notin {"add", "setnext", "requeue"} /\ (pc[w] = "buffer" => Pkt(w) # 0)

TapInv ==
    /\ ComesIsAdded
    /\ AddedIsKept
    /\ EraserHasCalled
    /\ FirstIsAdded
    /\ TapsKeepFirst
    /\ TapsEnd
    /\ OnlyLateTapsCrash

LateInv == IsLine(graph) => TapInv

LEMMA FirstPacket == ASSUME TypeOK PROVE 0 \in PktIds
  BY NumPktsAssumption, TheGraph DEF IsGraph, PktIds

\* Packets stay handed in and called back.
LEMMA AddedStays ==
    ASSUME TypeOK, [Next]_vars
    PROVE  /\ \A p \in PktIds : Added(p) => Added(p)'
           /\ ToSet(called) \subseteq ToSet(called)'
<1>1. \A p \in PktIds : Added(p) => Added(p)'
  <2>1. CASE submit' = submit
    BY <2>1 DEF Added
  <2>2. CASE \E q \in PktIds : AddPacketAsync(q) \/ FlowControl(q) \/ AddFirstTask(q)
                               \/ AddSkipPacket(q)
    BY <2>2 DEF AddPacketAsync, MayAdd, FlowControl, AddFirstTask, AddSkipPacket, TypeOK, Added
  <2>. QED
    BY <2>1, <2>2, StepLeaves DEF Next, Schedule, vars, appVars
<1>2. called \in Seq(PktIds)
  BY DEF TypeOK
<1>3. called' = called \/ \E p \in PktIds : called' = Append(called, p)
  <2>1. ASSUME NEW w \in Workers, CallBack(w) PROVE \E p \in PktIds : called' = Append(called, p)
    BY <2>1 DEF CallBack, TypeOK, Tasks, Pkt
  <2>. QED
    BY <2>1 DEF Next, Step, Take, Start, GetNext, Buffer, Read, Produce, Finish, Erase,
       CheckOutput, Propagate, AddTask, AllAdded, SetNext, TakeSmallest, Requeue, EndDrain,
       Schedule, AddPacketAsync, FlowControl, AddFirstTask, AddSkipPacket, vars, seenVars
<1>4. ASSUME NEW p \in PktIds, called' = Append(called, p)
      PROVE  ToSet(called) \subseteq ToSet(called)'
  <2>1. /\ DOMAIN called = 1 .. Len(called) /\ DOMAIN called' = 1 .. Len(called) + 1
        /\ Len(called) \in Nat /\ \A i \in 1 .. Len(called) : called'[i] = called[i]
    BY <1>2, <1>4
  <2>. QED
    BY <2>1 DEF ToSet
<1>. QED
  BY <1>1, <1>3, <1>4 DEF ToSet

\* Only a packet that is handed in comes anywhere.
LEMMA ComesStaysAdded ==
    ASSUME TypeOK, LineInv, ComesIsAdded, [Next]_vars
    PROVE  ComesIsAdded'
<1>. SUFFICES ASSUME NEW p \in PktIds, NEW m \in graph.nodes, Comes(m, p)' PROVE Added(p)'
  BY GraphStays DEF ComesIsAdded
<1>1. CASE Comes(m, p)
  BY <1>1, AddedStays DEF ComesIsAdded
<1>2. ASSUME NEW w \in Workers, Step(w) PROVE Added(p)'
  <2>1. CASE Propagate(w) /\ p = Pkt(w)
    <3>1. Node(w) \in graph.nodes /\ Comes(Node(w), p)
      BY <1>2, <2>1, TheThread DEF Comes, Brings, Propagate, InTask
    <3>. QED
      BY <3>1, AddedStays DEF ComesIsAdded
  <2>. QED
    BY <1>1, <1>2, <2>1, StepComes
<1>3. CASE \/ Schedule
           \/ \E q \in PktIds : AddPacketAsync(q) \/ FlowControl(q) \/ AddFirstTask(q)
                                \/ AddSkipPacket(q)
  <2>1. CASE AddPacketAsync(p)
    BY <2>1 DEF AddPacketAsync, Added, TypeOK
  <2>. QED
    BY <1>1, <1>3, <2>1, CallerComes
<1>4. CASE UNCHANGED vars
  <2>1. Comes(m, p)
    <3>1. /\ order' = order /\ pc' = pc /\ task' = task /\ todo' = todo /\ taken' = taken
          /\ appTodo' = appTodo /\ ready' = ready /\ executor' = executor /\ graph' = graph
      BY <1>4 DEF vars, appVars, dataVars, queueVars, localVars, seenVars
    <3>2. \A v \in Workers : Brings(v, m, p)' <=> Brings(v, m, p)
      BY <3>1, SameThread
    <3>3. /\ \A l \in Lists : HasTask(ready[l], m, p)' <=> HasTask(ready[l], m, p)
          /\ HasTask(executor, m, p)' <=> HasTask(executor, m, p)
          /\ Lists' = Lists /\ Ordered' = Ordered
      BY <3>1, SameTasks, SameGraph
    <3>. QED
      BY <3>1, <3>2, <3>3 DEF Comes, Buffered
  <2>. QED
    BY <1>1, <2>1
<1>. QED
  BY <1>2, <1>3, <1>4 DEF Next

\* What was handed in is in the table until it has been called back.
LEMMA AddedStaysKept ==
    ASSUME TypeOK, AddedIsKept, EraserHasCalled, [Next]_vars
    PROVE  AddedIsKept' /\ EraserHasCalled'
<1>1. ToSet(called) \subseteq ToSet(called)'
  BY AddedStays
<1>2. CASE \E w \in Workers : Step(w)
  <2>. PICK w \in Workers : Step(w)
    BY <1>2
  <2>1. /\ submit' = submit
        /\ \A v \in Workers \ {w} : pc'[v] = pc[v] /\ Pkt(v)' = Pkt(v)
    BY StepLeaves DEF Pkt
  <2>2. table' = table \/ (Erase(w) /\ table' = table \ {Pkt(w)})
    BY DEF Step, Take, Start, GetNext, Buffer, Read, Produce, Finish, CallBack, Erase,
       CheckOutput, Propagate, AddTask, AllAdded, SetNext, TakeSmallest, Requeue, EndDrain
  <2>3. Erase(w) => Pkt(w) \in ToSet(called)
    BY DEF Erase, EraserHasCalled
  <2>4. AddedIsKept'
    BY <1>1, <2>1, <2>2, <2>3 DEF AddedIsKept, Added
  <2>5. pc'[w] = "erase" => CallBack(w)
    BY DEF Step, Take, Start, GetNext, Buffer, Read, Produce, Finish, CallBack, Erase, Goto,
       CheckOutput, Propagate, AddTask, AllAdded, SetNext, TakeSmallest, Requeue, EndDrain,
       Return, TypeOK, EraserHasCalled
  <2>6. CallBack(w) => Pkt(w)' \in ToSet(called)'
    <3>. SUFFICES ASSUME CallBack(w) PROVE Pkt(w)' \in ToSet(called)'
      OBVIOUS
    <3>. PICK c \in Seq(PktIds) : c = called
      BY DEF TypeOK
    <3>. PICK p \in PktIds : p = Pkt(w)
      BY DEF TypeOK, Tasks, Pkt
    <3>1. called' = Append(c, p) /\ Pkt(w)' = p
      BY DEF CallBack, localVars, Pkt
    <3>2. /\ DOMAIN Append(c, p) = 1 .. Len(c) + 1 /\ Append(c, p)[Len(c) + 1] = p
          /\ Len(c) \in Nat
      OBVIOUS
    <3>. QED
      BY <3>1, <3>2 DEF ToSet
  <2>7. EraserHasCalled'
    BY <1>1, <2>1, <2>5, <2>6 DEF EraserHasCalled
  <2>. QED
    BY <2>4, <2>7
<1>3. ASSUME pc' = pc, task' = task, table \subseteq table',
             \A p \in PktIds : Added(p)' => Added(p) \/ p \in table'
      PROVE  AddedIsKept' /\ EraserHasCalled'
  BY <1>1, <1>3 DEF AddedIsKept, EraserHasCalled, Pkt
<1>4. CASE UNCHANGED vars \/ Schedule
  BY <1>3, <1>4 DEF vars, appVars, localVars, Schedule, Added
<1>5. ASSUME NEW q \in PktIds,
             AddPacketAsync(q) \/ FlowControl(q) \/ AddFirstTask(q) \/ AddSkipPacket(q)
      PROVE  AddedIsKept' /\ EraserHasCalled'
  <2>1. pc' = pc /\ task' = task /\ table \subseteq table'
    BY <1>5 DEF AddPacketAsync, FlowControl, AddFirstTask, AddSkipPacket, localVars
  <2>2. \A p \in PktIds : Added(p)' => Added(p) \/ p \in table'
    BY <1>5 DEF AddPacketAsync, FlowControl, AddFirstTask, AddSkipPacket, MayAdd, Added, TypeOK
  <2>. QED
    BY <1>3, <2>1, <2>2
<1>. QED
  BY <1>2, <1>4, <1>5 DEF Next

\* The first packet is not refused: nothing is added before it.
LEMMA FirstStaysAdded ==
    ASSUME TypeOK, FirstIsAdded, [Next]_vars PROVE FirstIsAdded'
<1>. SUFFICES ASSUME graph.inTurn
              PROVE  /\ submit'[0] \notin {"refused", "skipped"}
                     /\ submit'[0] = "new" => table' = {}
  BY GraphStays DEF FirstIsAdded
<1>1. /\ 0 \in PktIds /\ submit[0] \notin {"refused", "skipped"}
      /\ submit[0] = "new" => table = {}
  BY FirstPacket DEF FirstIsAdded
<1>2. CASE \E w \in Workers : Step(w)
  <2>. PICK w \in Workers : Step(w)
    BY <1>2
  <2>1. submit' = submit /\ table' \subseteq table
    BY StepLeaves DEF Step, Take, Start, GetNext, Buffer, Read, Produce, Finish, CallBack,
       Erase, CheckOutput, Propagate, AddTask, AllAdded, SetNext, TakeSmallest, Requeue,
       EndDrain
  <2>. QED
    BY <1>1, <2>1
<1>3. CASE UNCHANGED vars \/ Schedule
  BY <1>1, <1>3 DEF vars, appVars, Schedule
<1>4. ASSUME NEW q \in PktIds, AddPacketAsync(q) \/ FlowControl(q),
             q # 0
      PROVE  submit'[0] = submit[0] /\ submit[0] # "new"
  <2>1. MayAdd(q) /\ submit'[0] = submit[0]
    BY <1>1, <1>4 DEF AddPacketAsync, FlowControl, TypeOK
  <2>2. 0 \in 0 .. q - 1
    BY <1>4 DEF PktIds
  <2>. QED
    BY <2>1, <2>2 DEF MayAdd
<1>5. AddPacketAsync(0) => submit'[0] = "adding"
  BY <1>1 DEF AddPacketAsync, TypeOK
<1>6. ~FlowControl(0)
  <2>1. graph.limit \in Nat \ {0}
    BY TheGraph DEF IsGraph
  <2>. QED
    BY <1>1, <2>1, FS_EmptySet DEF FlowControl, MayAdd
<1>7. ASSUME NEW q \in PktIds, AddFirstTask(q) \/ AddSkipPacket(q)
      PROVE  /\ table' = table
             /\ submit'[0] = submit[0] \/ submit'[0] = "accepted"
  BY <1>1, <1>7 DEF AddFirstTask, AddSkipPacket, TypeOK
<1>. QED
  BY <1>1, <1>2, <1>3, <1>4, <1>5, <1>6, <1>7 DEF Next

\* A tap waits for packet 0, which is not on its heap: nothing leaves the heap.
LEMMA TapsTakeNothing ==
    ASSUME NoOverflow, TypeOK, TapsKeepFirst, NEW n \in Ordered \intersect Taps(graph),
           NEW q \in PktIds
    PROVE  ~HasSmallestUnprocessedPkt(order[n], q)
<1>. SUFFICES ASSUME HasSmallestUnprocessedPkt(order[n], q) PROVE FALSE
  OBVIOUS
<1>1. order[n].next = 0 /\ ~Buffered(n, 0)
  BY DEF TapsKeepFirst
<1>2. ToInt(q) = q
  BY NumPktsAssumption, IntIsWideEnough DEF PktIds
<1>. QED
  BY <1>1, <1>2 DEF HasSmallestUnprocessedPkt, Buffered

\* A task of a tap ends without handing anything on, and if it buffers a packet
\* that is not packet 0.
LEMMA TapsStayEnds ==
    ASSUME NoOverflow, TypeOK, LineInv, TapsKeepFirst, TapsEnd, [Next]_vars
    PROVE  TapsEnd'
<1>1. graph' = graph
  BY GraphStays
<1>2. CASE \E w \in Workers : Step(w)
  <2>. PICK w \in Workers : Step(w)
    BY <1>2
  <2>1. \A v \in Workers \ {w} : pc'[v] = pc[v] /\ task'[v] = task[v]
    BY StepLeaves
  <2>. DEFINE Ends == pc'[w] \notin {"add", "setnext", "requeue"}
                      /\ (pc'[w] = "buffer" => Pkt(w)' # 0)
  <2>. SUFFICES ASSUME Node(w)' \in Taps(graph) PROVE Ends
    BY <1>1, <2>1, SameGraph DEF TapsEnd, Node, Pkt
  <2>. USE DEF Goto, Return, TypeOK
  <2>2. CASE Take(w)
    BY <2>2 DEF Take
  <2>3. ASSUME ~Take(w) PROVE task' = task /\ Node(w) \in Taps(graph) /\ Pkt(w)' = Pkt(w)
    <3>1. task' = task
      BY <2>3 DEF Step, Start, GetNext, Buffer, Read, Produce, Finish, CallBack, Erase,
         CheckOutput, Propagate, AddTask, AllAdded, SetNext, TakeSmallest, Requeue, EndDrain,
         localVars
    <3>. QED
      BY <3>1 DEF Node, Pkt
  <2>4. CASE Start(w)
    BY <2>4 DEF Start
  <2>5. CASE GetNext(w)
    <3>1. pc[w] = "next" /\ ~Take(w)
      BY <2>5 DEF GetNext, Take
    <3>2. Node(w) \in Ordered
      BY <3>1 DEF LineInv, OnlyOrderedNodesKeepOrder, KeepsOrder
    <3>. PICK o \in OrderRecord : o = order[Node(w)]
      BY <3>2
    <3>3. o.next = 0 /\ 0 \notin o.skip
      BY <2>3, <3>1, <3>2 DEF TapsKeepFirst
    <3>4. NextPktId(o) \in 0 .. NumPkts
      <4>1. o.next \in 0 .. NumPkts /\ (~o.known => o.next = 0)
        BY <3>3, NumPktsAssumption
      <4>. QED
        BY <4>1, GetNextLeaves
    <3>5. pc'[w] = "buffer" => Pkt(w) # 0
      BY <2>5, <3>4 DEF GetNext
    <3>. QED
      BY <2>3, <2>5, <3>1, <3>5 DEF GetNext
  <2>6. CASE Buffer(w) \/ Read(w) \/ Produce(w) \/ CheckOutput(w) \/ EndDrain(w)
    BY <2>6 DEF Buffer, Read, Produce, CheckOutput, EndDrain
  <2>7. CASE Finish(w) \/ CallBack(w) \/ Erase(w)
    <3>1. ~Take(w)
      BY <2>7 DEF Finish, CallBack, Erase, Take
    <3>2. Node(w) = GraphNode
      BY <2>7 DEF Finish, CallBack, Erase, LineInv, OnlyGraphNodeCallsBack
    <3>. QED
      BY <2>3, <3>1, <3>2 DEF Taps
  <2>8. CASE Propagate(w) \/ AddTask(w) \/ AllAdded(w) \/ SetNext(w) \/ Requeue(w)
    <3>1. ~Take(w) /\ pc[w] \in {"propagate", "add", "setnext", "requeue"}
      BY <2>8 DEF Propagate, AddTask, AllAdded, SetNext, Requeue, Take
    <3>. QED
      BY <2>3, <3>1 DEF LineInv, RunsWithContext, TapsEnd
  <2>9. CASE TakeSmallest(w)
    <3>1. pc[w] = "drain" /\ ~Take(w)
      BY <2>9 DEF TakeSmallest, Take
    <3>2. Node(w) \in Ordered
      BY <3>1 DEF LineInv, OnlyOrderedNodesKeepOrder, KeepsOrder
    <3>. QED
      BY <2>3, <2>9, <3>1, <3>2, TapsTakeNothing DEF TakeSmallest
  <2>. HIDE DEF Ends
  <2>. QED
    BY <2>2, <2>4, <2>5, <2>6, <2>7, <2>8, <2>9 DEF Step
<1>3. CASE pc' = pc /\ task' = task
  BY <1>1, <1>3, SameGraph DEF TapsEnd, Node, Pkt
<1>. QED
  BY <1>2, <1>3 DEF Next, Schedule, AddPacketAsync, FlowControl, AddFirstTask, AddSkipPacket,
     vars, localVars

\* The next id of a tap stays that of packet 0, which does not come to its heap.
LEMMA TapsStayAtFirst ==
    ASSUME NoOverflow, TypeOK, LineInv, FirstIsAdded, TapsKeepFirst, TapsEnd, [Next]_vars
    PROVE  TapsKeepFirst'
<1>1. graph' = graph /\ 0 \in PktIds
  BY GraphStays, FirstPacket
<1>. SUFFICES ASSUME NEW n \in Ordered, n \in Taps(graph)
              PROVE  order'[n].next = 0 /\ 0 \notin order'[n].skip /\ ~Buffered(n, 0)'
  BY <1>1, SameGraph DEF TapsKeepFirst
<1>. PICK o \in OrderRecord : o = order[n]
  BY DEF TypeOK
<1>2. o.next = 0 /\ 0 \notin o.skip /\ ~Buffered(n, 0)
  BY DEF TapsKeepFirst
<1>3. CASE order'[n] = o
  BY <1>2, <1>3 DEF Buffered
<1>4. ASSUME NEW w \in Workers, Step(w)
      PROVE  order'[n].next = 0 /\ 0 \notin order'[n].skip /\ ~Buffered(n, 0)'
  <2>1. Node(w) = n => pc[w] # "setnext" /\ (pc[w] = "buffer" => Pkt(w) # 0)
    BY DEF TapsEnd
  <2>2. ~Buffered(n, 0)'
    BY <1>1, <1>2, <1>4, <2>1, OrderAfterStep
  <2>3. CASE Node(w) = n /\ pc[w] = "next"
    <3>1. order'[n] = AfterGetNextPktId(o)
      BY <1>4, <2>3 DEF Step, Take, Start, GetNext, Buffer, Read, Produce, Finish, CallBack,
         Erase, CheckOutput, Propagate, AddTask, AllAdded, SetNext, TakeSmallest, Requeue,
         EndDrain, TypeOK
    <3>2. NextPktId(o) = 0
      BY <1>2, IntIsWideEnough, NumPktsAssumption DEF NextPktId, PastSkipped
    <3>3. o.next \in 0 .. NumPkts /\ (~o.known => o.next = 0)
      BY <1>2, NumPktsAssumption
    <3>4. order'[n].next = 0 /\ order'[n].skip \subseteq o.skip
      BY <3>1, <3>2, <3>3, GetNextLeaves
    <3>. QED
      BY <1>2, <2>2, <3>4
  <2>. QED
    BY <1>2, <1>4, <2>1, <2>2, <2>3, OrderAfterStep
<1>5. ASSUME NEW q \in PktIds, AddSkipPacket(q)
      PROVE  order'[n].next = 0 /\ 0 \notin order'[n].skip /\ ~Buffered(n, 0)'
  <2>1. order'[n] = AfterAddSkipPktId(o, q)
    BY <1>5 DEF AddSkipPacket
  <2>2. q # 0
    BY <1>5 DEF AddSkipPacket, FirstIsAdded
  <2>. PICK r : r = order'[n]
    OBVIOUS
  <2>3. r.next = o.next /\ r.heap = o.heap /\ r.skip \subseteq o.skip \union {q}
    BY <2>1, AddSkipLeaves
  <2>. QED
    BY <1>2, <2>2, <2>3 DEF Buffered
<1>6. CASE order' = order
  BY <1>3, <1>6
<1>. QED
  BY <1>4, <1>5, <1>6 DEF Next, Schedule, AddPacketAsync, FlowControl, AddFirstTask, vars

\* A thread finds a context gone where a task of a tap starts, or in the tap's
\* calculator; its packet was handed in and is not in the table.
LEMMA CrashesStayLate ==
    ASSUME NoOverflow, TypeOK, LineInv, TapInv, OnlyTapsCrash', [Next]_vars
    PROVE  OnlyLateTapsCrash'
<1>1. graph' = graph /\ ToSet(called) \subseteq ToSet(called)'
  BY GraphStays, AddedStays
<1>2. CASE \E w \in Workers : Step(w)
  <2>. PICK w \in Workers : Step(w)
    BY <1>2
  <2>1. \A v \in Workers \ {w} : pc'[v] = pc[v] /\ task'[v] = task[v]
    BY StepLeaves
  <2>2. ASSUME NEW v \in Workers \ {w}, pc'[v] = "dead" PROVE LateAtTap(v)'
    <3>1. LateAtTap(v)
      BY <2>1, <2>2 DEF TapInv, OnlyLateTapsCrash
    <3>. QED
      BY <1>1, <2>1, <3>1, SameGraph DEF LateAtTap, Node, Pkt
  <2>3. ASSUME pc'[w] = "dead" PROVE LateAtTap(w)'
    <3>1. Pkt(w) \in PktIds /\ Node(w) \in graph.nodes
      BY TheThread
    <3>2. Node(w)' \in Taps(graph)
      BY <1>1, <2>3, SameGraph DEF OnlyTapsCrash
    <3>3. ~(Take(w) \/ GetNext(w) \/ Buffer(w) \/ Read(w) \/ CallBack(w) \/ Erase(w)
            \/ CheckOutput(w) \/ AddTask(w) \/ AllAdded(w) \/ SetNext(w) \/ EndDrain(w))
      BY <2>3 DEF Take, GetNext, Buffer, Read, CallBack, Erase, CheckOutput, AddTask,
         AllAdded, SetNext, EndDrain, Goto, Return, TypeOK
    <3>4. /\ Start(w) \/ Produce(w) \/ Finish(w) \/ Propagate(w) \/ TakeSmallest(w)
             \/ Requeue(w)
          /\ task' = task /\ called' = called
      BY <3>3 DEF Step, Start, Produce, Finish, Propagate, TakeSmallest, Requeue, Return,
         localVars, seenVars
    <3>5. Node(w) \in Taps(graph) /\ Pkt(w)' = Pkt(w) /\ Node(w)' = Node(w)
      BY <3>2, <3>4 DEF Node, Pkt
    <3>6. ~(Finish(w) \/ Propagate(w) \/ Requeue(w))
      BY <3>5 DEF Finish, Propagate, Requeue, Taps, LineInv, RunsWithContext, TapInv, TapsEnd
    <3>7. ~TakeSmallest(w)
      <4>. SUFFICES ASSUME TakeSmallest(w) PROVE FALSE
        OBVIOUS
      <4>1. Node(w) \in Ordered
        BY DEF TakeSmallest, LineInv, OnlyOrderedNodesKeepOrder, KeepsOrder
      <4>. QED
        BY <3>5, <4>1, TapsTakeNothing DEF TakeSmallest, TapInv
    <3>8. pc[w] \in InTask /\ ~Alive(Pkt(w))
          /\ (graph.policy = "ordered" \/ Node(w) \in graph.asks)
      <4>1. CASE Start(w)
        BY <2>3, <4>1 DEF Start, Goto, Return, TypeOK, InTask
      <4>2. CASE Produce(w)
        BY <2>3, <4>2 DEF Produce, AsksInVain, Goto, TypeOK, InTask
      <4>. QED
        BY <3>4, <3>6, <3>7, <4>1, <4>2
    <3>9. Comes(Node(w), Pkt(w))
      BY <3>8 DEF Comes, Brings
    <3>10. Pkt(w) \in ToSet(called)
      BY <3>1, <3>8, <3>9 DEF TapInv, ComesIsAdded, AddedIsKept, Alive
    <3>. QED
      BY <1>1, <3>5, <3>8, <3>10, SameGraph DEF LateAtTap
  <2>. QED
    BY <2>2, <2>3 DEF OnlyLateTapsCrash
<1>3. CASE pc' = pc /\ task' = task
  BY <1>1, <1>3, SameGraph DEF TapInv, OnlyLateTapsCrash, LateAtTap, Node, Pkt
<1>. QED
  BY <1>2, <1>3 DEF Next, Schedule, AddPacketAsync, FlowControl, AddFirstTask, AddSkipPacket,
     vars, localVars

LEMMA InitLate == Init => LateInv
<1>. SUFFICES ASSUME Init PROVE TapInv
  BY DEF LateInv
<1>1. TypeOK /\ 0 \in PktIds
  BY InitTypes, FirstPacket
<1>2. \A p \in PktIds : ~Added(p)
  BY DEF Init, Added
<1>3. \A p \in PktIds : \A m \in graph.nodes : ~Comes(m, p)
  <2>1. \A w \in Workers : \A m, p : ~Brings(w, m, p)
    BY DEF Init, Brings, InTask
  <2>2. /\ \A l \in Lists : \A m, p : ~HasTask(ready[l], m, p)
        /\ \A m, p : ~HasTask(executor, m, p)
    BY DEF Init, HasTask
  <2>3. \A p \in PktIds : appTodo[p] = {} /\ \A n \in Ordered : ~Buffered(n, p)
    BY DEF Init, EmptyOrder, Buffered
  <2>. QED
    BY <2>1, <2>2, <2>3 DEF Comes
<1>4. ComesIsAdded /\ AddedIsKept
  BY <1>2, <1>3 DEF ComesIsAdded, AddedIsKept
<1>5. \A w \in Workers : pc[w] = "idle"
  BY DEF Init
<1>6. EraserHasCalled /\ TapsEnd /\ OnlyLateTapsCrash
  BY <1>5 DEF EraserHasCalled, TapsEnd, OnlyLateTapsCrash
<1>7. FirstIsAdded
  BY <1>1 DEF Init, FirstIsAdded
<1>8. TapsKeepFirst
  BY <1>1 DEF Init, EmptyOrder, TapsKeepFirst, Buffered
<1>. QED
  BY <1>4, <1>6, <1>7, <1>8 DEF TapInv

LEMMA NextKeepsLate == ASSUME NoOverflow, IInv, IInv', LateInv, [Next]_vars PROVE LateInv'
<1>1. graph' = graph
  BY GraphStays
<1>. SUFFICES ASSUME IsLine(graph) PROVE TapInv'
  BY <1>1 DEF LateInv, IsLine
<1>2. TypeOK /\ LineInv /\ TapInv /\ OnlyTapsCrash'
  BY <1>1 DEF IInv, LateInv, LineInv, IsLine
<1>3. ComesIsAdded' /\ AddedIsKept' /\ EraserHasCalled' /\ FirstIsAdded'
  BY <1>2, ComesStaysAdded, AddedStaysKept, FirstStaysAdded DEF TapInv
<1>4. TapsKeepFirst' /\ TapsEnd'
  BY <1>2, TapsStayAtFirst, TapsStayEnds DEF TapInv
<1>5. OnlyLateTapsCrash'
  BY <1>2, CrashesStayLate
<1>. QED
  BY <1>3, <1>4, <1>5 DEF TapInv

\* In a line, with whatever taps, scheduler and ordered nodes, a thread that
\* dereferences a context that is gone runs the task of a tap, under the
\* scheduler that asks the context first or with a calculator that asks for
\* it, and the packet has been called back; as long as no id overflows the int
\* of the next id.
THEOREM LinesCrashLateAtTapsOnly ==
    ASSUME NoOverflow PROVE Spec => [](IsLine(graph) => OnlyLateTapsCrash)
<1>1. Init => LateInv
  BY InitLate
<1>2. IInv /\ IInv' /\ LateInv /\ [Next]_vars => LateInv'
  BY NextKeepsLate
<1>3. LateInv => (IsLine(graph) => OnlyLateTapsCrash)
  BY DEF LateInv, TapInv
<1>. QED
  BY <1>1, <1>2, <1>3, Invariant, PTL DEF Spec

==============================================================================
