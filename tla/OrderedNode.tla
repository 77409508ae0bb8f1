---------------------------- MODULE OrderedNode ----------------------------
(***************************************************************************)
(* One order-preserving node of a graph under the policy                   *)
(* GRAPH_SCH_ASYNC_ORDER_PRESERVING, for the packets of one input stream:  *)
(* the executor threads that run the node's ready tasks                    *)
(* (SchedulerAsyncOrderPreserving::DoSchedule) around the node's           *)
(* OrderInformation record.                                                *)
(*                                                                         *)
(* The node has one upstream node, so a packet puts at most one ready task *)
(* for it in the queue (AddTask after the upstream DoPropagate), carrying  *)
(* data or, when the upstream calculator filled another port only, none.   *)
(* Several packets travel through the upstream part of the graph at once,  *)
(* so they arrive in any order.  The ready list of the node's level and    *)
(* the executor's queue behind it are first-in first-out and are moved by  *)
(* one scheduler thread: they are one queue here.                          *)
(***************************************************************************)
EXTENDS OrderInformation, Sequences

CONSTANTS
    Workers,      \* the threads of executor_
    IsGraphNode,  \* the node is the graph node: the packet ends here
    Announced,    \* packets that may be announced with AddSkipPktId instead of sent
    Filtered,     \* packets filtered upstream without an announcement
    Mute          \* packets for which this node's calculator may produce no output

ASSUME IsGraphNodeAssumption == IsGraphNode \in BOOLEAN
ASSUME PacketSetsAssumption ==
    /\ Announced \subseteq PktIds
    /\ Filtered \subseteq PktIds
    /\ Mute \subseteq PktIds

VARIABLES
    \* upstream nodes and the application
    upstream,   \* per packet: "none" | "data" | "empty", the task that was added for it
    skipped,    \* packets announced as skipped
    \* shared between the threads
    queue,      \* packet ids of the node's tasks, ready or handed to the executor
    ready,      \* packets whose inputs at this node hold data (IsInputReady)
    order,      \* the node's entry in the stream's order_information_
    \* the executor threads
    pc,
    task,       \* the packet a thread works on
    \* what the node did
    processed,  \* the packets ProcessCtx ran for, in order
    emitted     \* the packets propagated (or called back), in order

upVars   == <<upstream, skipped>>
nodeVars == <<queue, ready, order>>
vars     == <<upVars, nodeVars, pc, task, processed, emitted>>

PC == {"idle", "next", "buffer", "process", "output", "setnext", "drain",
       "requeue", "dead"}

Init ==
    /\ upstream = [p \in PktIds |-> "none"]
    /\ skipped = {}
    /\ queue = <<>>
    /\ ready = {}
    /\ order = EmptyOrder
    /\ pc = [w \in Workers |-> "idle"]
    /\ task = [w \in Workers |-> 0]
    /\ processed = <<>>
    /\ emitted = <<>>

Goto(w, label) == pc' = [pc EXCEPT ![w] = label]

(***************************************************************************)
(* The environment: upstream nodes, and whoever announces skips.           *)
(***************************************************************************)

\* The upstream node propagated data for p here and added the ready task.
Send(p) ==
    /\ upstream[p] = "none"
    /\ p \notin skipped \union Filtered
    /\ upstream' = [upstream EXCEPT ![p] = "data"]
    /\ ready' = ready \union {p}
    /\ queue' = Append(queue, p)
    /\ UNCHANGED <<skipped, order, pc, task, processed, emitted>>

\* The upstream node propagated, but nothing on the port that leads here:
\* the task is added all the same.
SendEmpty(p) ==
    /\ upstream[p] = "none"
    /\ p \in skipped \union Filtered
    /\ upstream' = [upstream EXCEPT ![p] = "empty"]
    /\ queue' = Append(queue, p)
    /\ UNCHANGED <<skipped, ready, order, pc, task, processed, emitted>>

\* AddSkipPacket or AddSkipNode announces p, which this node never gets.
AnnounceSkip(p) ==
    /\ p \in Announced \ skipped
    /\ upstream[p] = "none"
    /\ skipped' = skipped \union {p}
    /\ order' = AfterAddSkipPktId(order, p)
    /\ UNCHANGED <<upstream, queue, ready, pc, task, processed, emitted>>

(***************************************************************************)
(* The task an executor thread runs, cut where the threads can interleave: *)
(* each call into OrderInformation and into the queue holds its own lock.  *)
(***************************************************************************)

\* A thread takes a task whose inputs are not ready: nothing to do.
TakeNotReady(w) ==
    /\ pc[w] = "idle"
    /\ queue # <<>>
    /\ Head(queue) \notin ready
    /\ queue' = Tail(queue)
    /\ UNCHANGED <<upVars, ready, order, pc, task, processed, emitted>>

Take(w) ==
    /\ pc[w] = "idle"
    /\ queue # <<>>
    /\ Head(queue) \in ready
    /\ queue' = Tail(queue)
    /\ task' = [task EXCEPT ![w] = Head(queue)]
    /\ Goto(w, "next")
    /\ UNCHANGED <<upVars, ready, order, processed, emitted>>

\* Mutant: a packet that is early is processed too.
GetNextNeverBuffers(w) ==
    /\ pc[w] = "next"
    /\ order' = AfterGetNextPktId(order)
    /\ Goto(w, IF NextPktId(order) <= task[w] THEN "process" ELSE "drain")
    /\ UNCHANGED <<upVars, queue, ready, task, processed, emitted>>

\* GetNextPktId, and the comparison that decides the rest of the task.
GetNext(w) ==
    /\ pc[w] = "next"
    /\ order' = AfterGetNextPktId(order)
    /\ LET next == NextPktId(order) IN
       \/ next < task[w] /\ Goto(w, "buffer")
       \/ next = task[w] /\ Goto(w, "process")
       \/ next > task[w] /\ Goto(w, "drain")
    /\ UNCHANGED <<upVars, queue, ready, task, processed, emitted>>

\* Mutant: a thread that buffered a packet does not look at the heap.
BufferReturns(w) ==
    /\ pc[w] = "buffer"
    /\ order' = AfterAddUnprocessedPkt(order, task[w])
    /\ Goto(w, "idle")
    /\ UNCHANGED <<upVars, queue, ready, task, processed, emitted>>

\* AddUnprocessedPkt; the drain loop follows.
Buffer(w) ==
    /\ pc[w] = "buffer"
    /\ order' = AfterAddUnprocessedPkt(order, task[w])
    /\ Goto(w, "drain")
    /\ UNCHANGED <<upVars, queue, ready, task, processed, emitted>>

\* Mutant: the next id is set before the output is propagated.
ProcessSetsNext(w) ==
    /\ pc[w] = "process"
    /\ processed' = Append(processed, task[w])
    /\ ready' = IF IsGraphNode THEN ready ELSE ready \ {task[w]}
    /\ order' = AfterSetNextPktId(order, task[w] + 1)
    /\ Goto(w, "output")
    /\ UNCHANGED <<upVars, queue, task, emitted>>

\* Node::ProcessCtx consumes the inputs; GraphNode::ProcessCtx keeps them.
Process(w) ==
    /\ pc[w] = "process"
    /\ processed' = Append(processed, task[w])
    /\ ready' = IF IsGraphNode THEN ready ELSE ready \ {task[w]}
    /\ Goto(w, "output")
    /\ UNCHANGED <<upVars, queue, order, task, emitted>>

\* The graph node: the finished callback.
CallBack(w) ==
    /\ pc[w] = "output"
    /\ IsGraphNode
    /\ emitted' = Append(emitted, task[w])
    /\ Goto(w, "setnext")
    /\ UNCHANGED <<upVars, nodeVars, task, processed>>

\* IsOutputReady is false: the task ends, the next id stays where it is.
NoOutput(w) ==
    /\ pc[w] = "output"
    /\ ~IsGraphNode
    /\ task[w] \in Mute
    /\ Goto(w, "idle")
    /\ UNCHANGED <<upVars, nodeVars, task, processed, emitted>>

\* DoPropagate and the ready tasks of the downstream nodes.
Propagate(w) ==
    /\ pc[w] = "output"
    /\ ~IsGraphNode
    /\ emitted' = Append(emitted, task[w])
    /\ Goto(w, "setnext")
    /\ UNCHANGED <<upVars, nodeVars, task, processed>>

\* Mutant: every node returns after setting the next id.
SetNextReturns(w) ==
    /\ pc[w] = "setnext"
    /\ order' = AfterSetNextPktId(order, task[w] + 1)
    /\ Goto(w, "idle")
    /\ UNCHANGED <<upVars, queue, ready, task, processed, emitted>>

\* SetNextPktId(pkt_id + 1); the graph node then returns, any other node
\* looks at the buffered packets.
SetNext(w) ==
    /\ pc[w] = "setnext"
    /\ order' = AfterSetNextPktId(order, task[w] + 1)
    /\ Goto(w, IF IsGraphNode THEN "idle" ELSE "drain")
    /\ UNCHANGED <<upVars, queue, ready, task, processed, emitted>>

\* One round of the drain loop: GetSmallestUnprocessedPkt.  A null context
\* is dereferenced when the new ready task's priority is computed.
TakeSmallest(w) ==
    /\ pc[w] = "drain"
    /\ \E p \in PktIds :
        /\ HasSmallestUnprocessedPkt(order, p)
        /\ order' = AfterGetSmallestUnprocessedPkt(order, p)
        /\ task' = [task EXCEPT ![w] = p]
        /\ Goto(w, IF SmallestHasContext(order, p) THEN "requeue" ELSE "dead")
    /\ UNCHANGED <<upVars, queue, ready, processed, emitted>>

Requeue(w) ==
    /\ pc[w] = "requeue"
    /\ queue' = Append(queue, task[w])
    /\ Goto(w, "drain")
    /\ UNCHANGED <<upVars, ready, order, task, processed, emitted>>

EndDrain(w) ==
    /\ pc[w] = "drain"
    /\ \A p \in PktIds : ~HasSmallestUnprocessedPkt(order, p)
    /\ Goto(w, "idle")
    /\ UNCHANGED <<upVars, nodeVars, task, processed, emitted>>

Step(w) ==
    \/ TakeNotReady(w) \/ Take(w) \/ GetNext(w) \/ Buffer(w) \/ Process(w)
    \/ CallBack(w) \/ NoOutput(w) \/ Propagate(w) \/ SetNext(w)
    \/ TakeSmallest(w) \/ Requeue(w) \/ EndDrain(w)

Next ==
    \/ \E p \in PktIds : Send(p) \/ SendEmpty(p) \/ AnnounceSkip(p)
    \/ \E w \in Workers : Step(w)

Spec == Init /\ [][Next]_vars

\* Threads are scheduled, and every packet that can be sent is sent.
FairSpec ==
    /\ Spec
    /\ \A w \in Workers : WF_vars(Step(w))
    /\ \A p \in PktIds : WF_vars(Send(p))

-----------------------------------------------------------------------------
(***************************************************************************)
(* Properties                                                              *)
(***************************************************************************)

TypeOK ==
    /\ upstream \in [PktIds -> {"none", "data", "empty"}]
    /\ skipped \subseteq PktIds
    /\ queue \in Seq(PktIds)
    /\ ready \subseteq PktIds
    /\ order \in OrderRecord
    /\ pc \in [Workers -> PC]
    /\ task \in [Workers -> Nat]
    /\ processed \in Seq(PktIds)
    /\ emitted \in Seq(PktIds)

Working(w) == pc[w] \in {"process", "output", "setnext"}

\* The order record is read, compared and written under three separate
\* locks, and still no two threads are between the comparison that let a
\* packet through and the SetNextPktId that lets the next one through.
OneAtATime == \A v, w \in Workers : Working(v) /\ Working(w) => v = w

\* A packet whose turn it is never sits in the heap with nobody left to
\* look: a thread that may have missed it is still on its way through the
\* drain loop.
NoPacketStranded ==
    \A p \in PktIds :
        order.heap[p] > 0 /\ order.known /\ ToInt(p) = order.next
            => \E w \in Workers : pc[w] \in {"buffer", "drain", "requeue"}

\* The heap never hands out a packet whose context is gone.
NoNullContext == \A w \in Workers : pc[w] # "dead"

\* The next id never moves back, whichever threads read and write it.
NextNeverDecreases ==
    [][order.known => order'.next >= order.next]_vars

\* Packets leave the node in the order of their ids, each once, and none
\* overtakes one that was not announced as skipped.
Abstract == INSTANCE InOrderDelivery WITH
    Packets   <- PktIds,
    offered   <- {p \in PktIds : upstream[p] = "data"},
    delivered <- emitted

InOrder == Abstract!Spec

Emitted == {emitted[i] : i \in 1 .. Len(emitted)}

\* The calculator yielded nothing for p, and its thread has left it.
Silent(p) ==
    /\ \E i \in 1 .. Len(processed) : processed[i] = p
    /\ p \notin Emitted
    /\ \A w \in Workers : ~(Working(w) /\ task[w] = p)

\* Every packet that reaches the node leaves it, unless the calculator yielded
\* nothing for it or for one before it, which leaves the next id in place.
EveryPacketLeaves ==
    \A p \in PktIds :
        upstream[p] = "data" ~> p \in Emitted \/ \E q \in 0 .. p : Silent(q)

\* With announcements every packet leaves too if packets follow them.  An
\* announcement wakes nobody: GetNextPktId of a later packet steps over it, but
\* the first call of all looks at no announcement, so that two must follow
\* where the node has seen none and packet 0 is announced.
AllSettled == \A p \in Announced : p \in skipped \/ upstream[p] = "data"
Unsent     == {p \in PktIds : upstream[p] = "none" /\ p \notin skipped \union Filtered}

Followed ==
    /\ AllSettled
    /\ Cardinality(Unsent) >= IF 0 \in skipped /\ ~order.known THEN 2 ELSE 1

EveryPacketLeavesAfterSkips == <>Followed => EveryPacketLeaves
=============================================================================
