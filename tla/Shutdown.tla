------------------------------ MODULE Shutdown ------------------------------
(***************************************************************************)
(* The end of a graph under one of the asynchronous schedulers: calls of   *)
(* Stop against the scheduler thread, which shares two flags and a         *)
(* condition variable with them, and the destruction of GraphHelper: first *)
(* of the manager of the input streams, then of Graph, which calls Stop    *)
(* once more and destroys its members while the executor's threads may     *)
(* still be running tasks.                                                 *)
(*                                                                         *)
(* A packet passes Steps tasks one after the other, the last of which is   *)
(* the graph node's, and a callback is registered; order and priorities    *)
(* are the subject of AsyncGraph, and so are calculators that ask for the  *)
(* stream.  base::PipeManager is not part of the repository: its Stop is   *)
(* taken to wait for the tasks its threads are running.                    *)
(***************************************************************************)
EXTENDS Integers, Sequences, SequencesExt, FiniteSets

CONSTANTS
    Packets,
    Managed,        \* the packets of a stream that only input_stream_manager_ holds
    Steps,          \* the tasks of a packet
    Workers,        \* the threads of executor_
    Stoppers,       \* application threads that call GraphHelper::Stop
    Destructor,     \* the thread that destroys the graph
    NoCaller

ASSUME ShutdownAssumption ==
    /\ Packets # {}
    /\ Managed \subseteq Packets
    /\ Steps \in Nat \ {0}
    /\ Destructor \notin Stoppers
    /\ NoCaller \notin Stoppers \union {Destructor}

Callers == Stoppers \union {Destructor}
Tasks   == Packets \X (1 .. Steps)

VARIABLES
    \* how the graph is set up
    ordered,    \* the policy is ORDER_PRESERVING, otherwise NON_ORDER_PRESERVING
    short,      \* the callback is an AsyncResultFunc, otherwise an AsyncResultFullFunc
    \* shared by Stop and the scheduler thread
    stop,       \* stop_
    stopped,    \* stopped_
    mtx,        \* who holds mtx_
    caller,     \* where a caller of Stop is
    \* the scheduler thread
    loop,       \* "test" | "top" | "hand" | "set" | "notify" | "ended"
    popped,     \* what Top returned: a sequence of at most one task
    \* tasks and packets
    ready,      \* ready_task_queue_
    executor,   \* the executor's queue
    pc, task,   \* the executor's threads: where they are, and with which task
    holds,      \* the task's lambda holds the packet's context
    keeps,      \* it holds the packet's stream
    new,        \* the packets not yet handed in
    adding,     \* those whose AddPacketAsync has inserted the context and not scheduled it
    table,      \* packet_contexts_
    \* destruction
    life,       \* what ~GraphHelper has left so far
    orphans     \* history: the packets in the table when Graph's members were destroyed

setup == <<ordered, short>>
stopVars  == <<stop, stopped, mtx, caller>>
loopVars  == <<loop, popped>>
threadVars == <<pc, task, holds, keeps>>
packetVars == <<new, adding, table, life, orphans>>
vars == <<setup, stopVars, loopVars, ready, executor, threadVars, packetVars>>

\* What is still there, in the order of destruction: everything; the Graph but
\* not the manager of the streams; of Graph no member but scheduler_; of that
\* not the queue either; nothing.
Lives == {"whole", "graph", "scheduler", "executor", "gone"}

\* Graph has all its members.
GraphIsWhole == life \in {"whole", "graph"}

Init ==
    /\ ordered \in BOOLEAN
    /\ short \in BOOLEAN
    /\ stop = FALSE
    /\ stopped = FALSE
    /\ mtx = NoCaller
    /\ caller = [c \in Callers |-> "new"]
    /\ loop = "test"
    /\ popped = <<>>
    /\ ready = <<>>
    /\ executor = <<>>
    /\ pc = [w \in Workers |-> "idle"]
    /\ task = [w \in Workers |-> CHOOSE t \in Tasks : TRUE]
    /\ holds = [w \in Workers |-> FALSE]
    /\ keeps = [w \in Workers |-> FALSE]
    /\ new = Packets
    /\ adding = {}
    /\ table = {}
    /\ life = "whole"
    /\ orphans = {}

-----------------------------------------------------------------------------
(***************************************************************************)
(* Stop, called by the application or by ~Graph.                           *)
(***************************************************************************)
At(c, here)  == caller[c] = here
Move(c, to)  == caller' = [caller EXCEPT ![c] = to]

\* The application calls Stop on a whole graph, ~Graph when the streams are gone.
StopCalled(c) ==
    /\ At(c, "new")
    /\ life = IF c = Destructor THEN "graph" ELSE "whole"
    /\ stop' = TRUE
    /\ Move(c, "lock")
    /\ UNCHANGED <<stopped, mtx>>

Lock(c) ==
    /\ mtx = NoCaller
    /\ \/ At(c, "lock") /\ Move(c, "test")
       \/ At(c, "woken") /\ Move(c, "test")
       \/ At(c, "late") /\ Move(c, "join")
    /\ mtx' = c
    /\ UNCHANGED <<stop, stopped>>

\* wait_for evaluates its predicate...
TestStopped(c) ==
    /\ At(c, "test")
    /\ Move(c, IF stopped THEN "join" ELSE "block")
    /\ UNCHANGED <<stop, stopped, mtx>>

\* ...and lets go of the lock to wait: a notification in between is lost.
Block(c) ==
    /\ At(c, "block")
    /\ mtx' = NoCaller
    /\ Move(c, "wait")
    /\ UNCHANGED <<stop, stopped>>

SpuriousWakeup(c) ==
    /\ At(c, "wait")
    /\ Move(c, "woken")
    /\ UNCHANGED <<stop, stopped, mtx>>

\* Mutant: wait, as in the line above wait_for that is commented out.
NeverTimesOut(c) == FALSE /\ At(c, "wait") /\ UNCHANGED stopVars

\* Ten seconds are over.
TimeOut(c) ==
    /\ At(c, "wait")
    /\ Move(c, "late")
    /\ UNCHANGED <<stop, stopped, mtx>>

\* Mutant: pool_.Stop is left out, as in Scheduler::Stop.
LeavePool(c) ==
    /\ At(c, "join")
    /\ mtx' = NoCaller
    /\ Move(c, "returned")
    /\ UNCHANGED <<stop, stopped>>

\* pool_.Stop, with the lock held; Stop returns.
StopPool(c) ==
    /\ At(c, "join")
    /\ loop = "ended"
    /\ mtx' = NoCaller
    /\ Move(c, "returned")
    /\ UNCHANGED <<stop, stopped>>

Only(callerAction) ==
    callerAction /\ UNCHANGED <<setup, loopVars, ready, executor, threadVars, packetVars>>

StopStep(c) == Lock(c) \/ TestStopped(c) \/ Block(c) \/ StopPool(c)

-----------------------------------------------------------------------------
(***************************************************************************)
(* The scheduler thread.                                                   *)
(***************************************************************************)
TestStop ==
    /\ loop = "test"
    /\ loop' = IF stop THEN "set" ELSE "top"
    /\ UNCHANGED <<stopVars, popped, ready, executor>>

Top ==
    /\ loop = "top"
    /\ \/ /\ ready = <<>>
          /\ loop' = "test"
          /\ UNCHANGED <<popped, ready>>
       \/ /\ ready # <<>>
          /\ popped' = <<Head(ready)>>
          /\ ready' = Tail(ready)
          /\ loop' = "hand"
    /\ UNCHANGED <<stopVars, executor>>

\* Mutant: the thread looks at stop_ once more before it hands the task over.
HandOverUnlessStopped ==
    /\ loop = "hand"
    /\ executor' = IF stop THEN executor ELSE executor \o popped
    /\ popped' = <<>>
    /\ loop' = "test"
    /\ UNCHANGED <<stopVars, ready>>

HandOver ==
    /\ loop = "hand"
    /\ executor' = executor \o popped
    /\ popped' = <<>>
    /\ loop' = "test"
    /\ UNCHANGED <<stopVars, ready>>

SetStopped ==
    /\ loop = "set"
    /\ stopped' = TRUE
    /\ loop' = "notify"
    /\ UNCHANGED <<stop, mtx, caller, popped, ready, executor>>

\* Mutant: a waiting caller is handed the lock with the notification.
NotifyHandsLock ==
    /\ loop = "notify"
    /\ \/ \E c \in Callers : At(c, "wait") /\ Move(c, "test")
       \/ (\A c \in Callers : ~At(c, "wait")) /\ UNCHANGED caller
    /\ loop' = "ended"
    /\ UNCHANGED <<stop, stopped, mtx, popped, ready, executor>>

\* stopped_cd_.notify_one(): one waiting caller, if any, has to lock mtx_.
NotifyOne ==
    /\ loop = "notify"
    /\ \/ \E c \in Callers : At(c, "wait") /\ Move(c, "woken")
       \/ (\A c \in Callers : ~At(c, "wait")) /\ UNCHANGED caller
    /\ loop' = "ended"
    /\ UNCHANGED <<stop, stopped, mtx, popped, ready, executor>>

SchedulerStep ==
    /\ TestStop \/ Top \/ HandOver \/ SetStopped \/ NotifyOne
    /\ UNCHANGED <<setup, threadVars, packetVars>>

-----------------------------------------------------------------------------
(***************************************************************************)
(* Packets and the executor's threads.  A thread that uses what has been   *)
(* destroyed, or the context of a packet that is gone, is "dead".          *)
(***************************************************************************)
Goto(w, label) == pc' = [pc EXCEPT ![w] = label]

\* AddPacketAsync asks nobody whether the graph has been stopped: it inserts
\* the context under the mutex of Graph...
AddPacketContext(p) ==
    /\ p \in new
    /\ life = "whole"
    /\ new' = new \ {p}
    /\ adding' = adding \union {p}
    /\ table' = table \union {p}
    /\ UNCHANGED ready

\* ...and then queues the first task.
Schedule(p) ==
    /\ p \in adding
    /\ adding' = adding \ {p}
    /\ ready' = Append(ready, <<p, 1>>)
    /\ UNCHANGED <<new, table>>

AddPacketAsync(p) ==
    /\ AddPacketContext(p) \/ Schedule(p)
    /\ UNCHANGED <<setup, stopVars, loopVars, executor, threadVars, life, orphans>>

Take(w) ==
    /\ pc[w] = "idle"
    /\ executor # <<>>
    /\ life # "gone"
    /\ task' = [task EXCEPT ![w] = Head(executor)]
    /\ executor' = Tail(executor)
    /\ Goto(w, "start")
    /\ UNCHANGED <<ready, holds, keeps, table>>

Alive(p) == p \in table \/ \E w \in Workers : holds[w] /\ task[w][1] = p

\* Contexts refer to their stream weakly.
StreamIsThere(p) ==
    \/ p \notin Managed
    \/ life = "whole"
    \/ \E w \in Workers : keeps[w] /\ task[w][1] \in Managed

\* The context is locked, under ORDER_PRESERVING the stream too; the node is run.
Start(w) ==
    LET p == task[w][1]
        found == Alive(p) /\ (ordered => StreamIsThere(p))
    IN
    /\ pc[w] = "start"
    /\ \/ /\ found
          /\ holds' = [holds EXCEPT ![w] = TRUE]
          /\ keeps' = [keeps EXCEPT ![w] = ordered]
          /\ Goto(w, IF task[w][2] = Steps THEN "callback" ELSE "add")
       \/ /\ ~found
          /\ Goto(w, "dead")
          /\ UNCHANGED <<holds, keeps>>
    /\ UNCHANGED <<ready, executor, task, table>>

\* The lambda ends and lets go of what it holds.
Return(w) ==
    /\ Goto(w, "idle")
    /\ holds' = [holds EXCEPT ![w] = FALSE]
    /\ keeps' = [keeps EXCEPT ![w] = FALSE]

\* ready_task_queue_->AddTask for the next node.
AddTask(w) ==
    /\ pc[w] = "add"
    /\ \/ /\ GraphIsWhole \/ life = "scheduler"
          /\ ready' = Append(ready, <<task[w][1], task[w][2] + 1>>)
          /\ Return(w)
       \/ /\ life \in {"executor", "gone"}
          /\ Goto(w, "dead")
          /\ UNCHANGED <<ready, holds, keeps>>
    /\ UNCHANGED <<executor, task, table>>

\* Mutant: the context is erased before the result is handed out.
EraseFirst(w) ==
    /\ pc[w] = "callback"
    /\ GraphIsWhole
    /\ table' = table \ {task[w][1]}
    /\ Goto(w, "erase")
    /\ UNCHANGED <<ready, executor, task, holds, keeps>>

\* RemovePacketContextIfFinished, a method of Graph: the callback, for which the
\* short form uses the stream and the full one locks it...
CallBack(w) ==
    LET p == task[w][1] IN
    /\ pc[w] = "callback"
    /\ Goto(w, IF GraphIsWhole /\ (short => StreamIsThere(p)) THEN "erase" ELSE "dead")
    /\ keeps' = [keeps EXCEPT ![w] = StreamIsThere(p) /\ (ordered \/ ~short)]
    /\ UNCHANGED <<ready, executor, task, holds, table>>

\* ...and the erasure under the mutex of Graph.
Erase(w) ==
    /\ pc[w] = "erase"
    /\ \/ /\ GraphIsWhole
          /\ table' = table \ {task[w][1]}
          /\ keeps' = [keeps EXCEPT ![w] = ordered]
          /\ Goto(w, "source")
       \/ /\ ~GraphIsWhole
          /\ Goto(w, "dead")
          /\ UNCHANGED <<table, keeps>>
    /\ UNCHANGED <<ready, executor, task, holds>>

\* The lambda goes on: it logs the id of the packet's stream.
LogSource(w) ==
    /\ pc[w] = "source"
    /\ \/ /\ StreamIsThere(task[w][1])
          /\ Return(w)
       \/ /\ ~StreamIsThere(task[w][1])
          /\ Goto(w, "dead")
          /\ UNCHANGED <<holds, keeps>>
    /\ UNCHANGED <<ready, executor, task, table>>

WorkerStep(w) ==
    /\ Take(w) \/ Start(w) \/ AddTask(w) \/ CallBack(w) \/ Erase(w) \/ LogSource(w)
    /\ UNCHANGED <<setup, stopVars, loopVars, new, adding, life, orphans>>

-----------------------------------------------------------------------------
(***************************************************************************)
(* ~GraphHelper: the members of every class in the reverse order of their  *)
(* declaration.                                                            *)
(***************************************************************************)

\* input_stream_manager_ is declared after graph_, whose destructor calls Stop.
\* The application does not destroy the graph while it is calling it.
DestroyStreams ==
    /\ life = "whole"
    /\ adding = {}
    /\ \A c \in Stoppers : caller[c] \in {"new", "returned"}
    /\ life' = "graph"
    /\ UNCHANGED <<setup, stopVars, loopVars, ready, executor, threadVars,
                   new, adding, table, orphans>>

\* Stop has returned; the members of Graph but scheduler_...
DestroyMembers ==
    /\ At(Destructor, "returned")
    /\ life = "graph"
    /\ life' = "scheduler"
    /\ orphans' = table
    /\ table' = {}
    /\ UNCHANGED <<ready, executor>>

\* ...then, of that one, ready_task_queue_, declared after executor_...
DestroyQueue ==
    /\ life = "scheduler"
    /\ life' = "executor"
    /\ ready' = <<>>
    /\ UNCHANGED <<executor, table, orphans>>

\* ...whose destructor waits for the threads; tasks that wait may be dropped.
DestroyExecutor ==
    /\ life = "executor"
    /\ \A w \in Workers : pc[w] = "idle"
    /\ life' = "gone"
    /\ executor' = <<>>
    /\ UNCHANGED <<ready, table, orphans>>

Destroy ==
    /\ DestroyMembers \/ DestroyQueue \/ DestroyExecutor
    /\ UNCHANGED <<setup, stopVars, loopVars, threadVars, new, adding>>

Next ==
    \/ \E c \in Callers : Only(StopCalled(c) \/ StopStep(c) \/ SpuriousWakeup(c) \/ TimeOut(c))
    \/ SchedulerStep
    \/ \E p \in Packets : AddPacketAsync(p)
    \/ \E w \in Workers : WorkerStep(w)
    \/ DestroyStreams
    \/ Destroy

Spec == Init /\ [][Next]_vars

\* Every thread runs, destruction goes on once begun, and the deadline of
\* wait_for comes however often the wait is left in vain.  Nobody has to call
\* Stop, to add a packet or to destroy the graph.
FairSpec ==
    /\ Spec
    /\ WF_vars(SchedulerStep)
    /\ \A c \in Callers :
        /\ WF_vars(Only(StopStep(c)))
        /\ SF_vars(Only(TimeOut(c)))
    /\ \A w \in Workers : WF_vars(WorkerStep(w))
    /\ WF_vars(Only(StopCalled(Destructor)))
    /\ WF_vars(Destroy)

-----------------------------------------------------------------------------
(***************************************************************************)
(* Properties                                                              *)
(***************************************************************************)

\* The variables keep their types, and mtx_ is held exactly by the caller
\* that is between locking and waiting or returning.
TypeOK ==
    /\ ordered \in BOOLEAN /\ short \in BOOLEAN
    /\ stop \in BOOLEAN /\ stopped \in BOOLEAN
    /\ mtx \in Callers \union {NoCaller}
    /\ caller \in [Callers -> {"new", "lock", "test", "block", "wait", "woken", "late",
                               "join", "returned"}]
    /\ \A c \in Callers : mtx = c <=> caller[c] \in {"test", "block", "join"}
    /\ loop \in {"test", "top", "hand", "set", "notify", "ended"}
    /\ popped \in Seq(Tasks) /\ Len(popped) <= 1
    /\ ready \in Seq(Tasks)
    /\ executor \in Seq(Tasks)
    /\ pc \in [Workers -> {"idle", "start", "add", "callback", "erase", "source", "dead"}]
    /\ task \in [Workers -> Tasks]
    /\ holds \in [Workers -> BOOLEAN]
    /\ keeps \in [Workers -> BOOLEAN]
    /\ new \subseteq Packets
    /\ adding \subseteq Packets
    /\ table \subseteq Packets
    /\ life \in Lives
    /\ orphans \subseteq Packets

\* The number of places, queues and threads, where a packet is.  Its last thread
\* has the packet until it erases it.
InQueue(q, p) == Cardinality({i \in DOMAIN q : q[i][1] = p})
InHands(p)    == Cardinality({w \in Workers : pc[w] \notin {"idle", "source"} /\ task[w][1] = p})
Adding(p)     == IF p \in adding THEN 1 ELSE 0
Places(p)     == Adding(p) + InQueue(ready \o popped \o executor, p) + InHands(p)

\* Stopping loses no task: as long as the graph is whole, a packet is in the
\* table exactly while its task is in one place, with the caller that adds it,
\* in a queue or with a thread.  (What Stop leaves in the ready queue stays there.)
EveryPacketHasItsTask ==
    life = "whole" => \A p \in Packets : Places(p) = IF p \in table THEN 1 ELSE 0

\* Once a Stop has returned, no task is handed to the executor any more.
NothingHandedOverAfterStop ==
    [][(\E c \in Callers : At(c, "returned")) => IsSuffix(executor', executor)]_vars

\* A thread uses what ~GraphHelper has destroyed only for a packet whose context
\* was in the table when the members of Graph were, or, from the destruction of
\* input_stream_manager_ on, for one whose stream nobody else held.  That the
\* contexts are erased, and not just the callbacks done, lets an application
\* destroy the graph; but it must hold the streams of its packets itself.
OnlyOrphansEndBadly ==
    \A w \in Workers : pc[w] = "dead" =>
        \/ task[w][1] \in orphans
        \/ task[w][1] \in Managed /\ life # "whole"

\* Every call of Stop returns, also if the only notification is lost.
StopReturns == \A c \in Callers : At(c, "lock") ~> At(c, "returned")
=============================================================================
