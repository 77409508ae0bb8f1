-------------------------- MODULE Shutdown_proofs --------------------------
(***************************************************************************)
(* Proofs about Shutdown, for any number of packets, tasks per packet,     *)
(* executor threads and callers of Stop.                                   *)
(***************************************************************************)
EXTENDS Shutdown, FiniteSetTheorems, TLAPS

\* A sequence of tasks has one of packet p; it has no two of one packet.
Queues(s, p) == \E i \in 1 .. Len(s) : s[i][1] = p
OnePerPacket(s)   == \A i, j \in 1 .. Len(s) : s[i][1] = s[j][1] => i = j

\* A thread has a packet until it erases it, or ends badly.
Busy(w)   == pc[w] \notin {"idle", "source", "dead"}
InHand(p) == \E w \in Workers : Busy(w) /\ task[w][1] = p

\* A task of the packet is somewhere, its first perhaps still with the caller.
HasTask(p) ==
    p \in adding \/ Queues(ready, p) \/ Queues(popped, p) \/ Queues(executor, p) \/ InHand(p)

-----------------------------------------------------------------------------
(***************************************************************************)
(* The inductive invariant.  Counting is avoided: a packet has no two      *)
(* tasks in one queue, none in two queues, and none with two threads.      *)
(***************************************************************************)

OneTaskPerQueue == OnePerPacket(ready) /\ OnePerPacket(popped) /\ OnePerPacket(executor)

OneQueuePerPacket ==
    \A p \in Packets :
        /\ p \in adding =>
             ~Queues(ready, p) /\ ~Queues(popped, p) /\ ~Queues(executor, p) /\ ~InHand(p)
        /\ Queues(ready, p) => ~Queues(popped, p) /\ ~Queues(executor, p) /\ ~InHand(p)
        /\ Queues(popped, p) => ~Queues(executor, p) /\ ~InHand(p)
        /\ Queues(executor, p) => ~InHand(p)

OneThreadPerPacket ==
    \A v, w \in Workers : Busy(v) /\ Busy(w) /\ task[v][1] = task[w][1] => v = w

NewHasNoTask == \A p \in new : ~HasTask(p) /\ p \notin table

\* The packets with a task are in the table, and while nothing is destroyed no
\* others are; when Graph has lost its members they are orphans.
TableHasTasks ==
    /\ life = "whole" => \A p \in Packets : p \in table => HasTask(p)
    /\ GraphIsWhole => \A p \in Packets : HasTask(p) => p \in table
    /\ ~GraphIsWhole => \A p \in Packets : HasTask(p) => p \in orphans

OrphansLast == GraphIsWhole => orphans = {}

AddsToWhole == adding # {} => life = "whole"

DiesLater == \A w \in Workers : pc[w] = "dead" => life # "whole"

HandedOverWhole == loop # "hand" => popped = <<>>

AddsNextOnly == \A w \in Workers : pc[w] = "add" => task[w][2] < Steps

ReturnsAfterLoop == \A c \in Callers : At(c, "returned") => loop = "ended"

IInv ==
    /\ TypeOK
    /\ OneTaskPerQueue
    /\ OneQueuePerPacket
    /\ OneThreadPerPacket
    /\ NewHasNoTask
    /\ TableHasTasks
    /\ OrphansLast
    /\ AddsToWhole
    /\ DiesLater
    /\ HandedOverWhole
    /\ AddsNextOnly
    /\ ReturnsAfterLoop
    /\ OnlyOrphansEndBadly

-----------------------------------------------------------------------------
(***************************************************************************)
(* Queues of tasks.                                                        *)
(***************************************************************************)

\* Putting one queue behind another: the tasks are those of both.
LEMMA ConcatQueues ==
    ASSUME NEW s \in Seq(Tasks), NEW u \in Seq(Tasks)
    PROVE  /\ s \o u \in Seq(Tasks)
           /\ \A p : Queues(s \o u, p) <=> Queues(s, p) \/ Queues(u, p)
           /\ OnePerPacket(s) /\ OnePerPacket(u) /\ (\A p \in Packets : ~(Queues(s, p) /\ Queues(u, p)))
                => OnePerPacket(s \o u)
<1>. DEFINE t == s \o u
<1>1. /\ t \in Seq(Tasks) /\ Len(t) = Len(s) + Len(u)
      /\ Len(s) \in Nat /\ Len(u) \in Nat
      /\ \A i \in 1 .. Len(s) : t[i] = s[i]
      /\ \A i \in 1 .. Len(u) : t[Len(s) + i] = u[i]
  OBVIOUS
<1>2. \A i \in 1 .. Len(t) : i \in 1 .. Len(s) \/ \E j \in 1 .. Len(u) : i = Len(s) + j
  <2>1. ASSUME NEW i \in 1 .. Len(t), i \notin 1 .. Len(s)
        PROVE  i - Len(s) \in 1 .. Len(u) /\ i = Len(s) + (i - Len(s))
    BY <1>1, <2>1
  <2>. QED
    BY <2>1
<1>3. ASSUME NEW p PROVE Queues(t, p) <=> Queues(s, p) \/ Queues(u, p)
  <2>1. Queues(t, p) => Queues(s, p) \/ Queues(u, p)
    BY <1>1, <1>2 DEF Queues
  <2>2. ASSUME NEW i \in 1 .. Len(s) PROVE i \in 1 .. Len(t)
    BY <1>1
  <2>3. ASSUME NEW i \in 1 .. Len(u) PROVE Len(s) + i \in 1 .. Len(t)
    BY <1>1
  <2>. QED
    BY <1>1, <2>1, <2>2, <2>3 DEF Queues
<1>4. ASSUME OnePerPacket(s), OnePerPacket(u), \A p \in Packets : ~(Queues(s, p) /\ Queues(u, p))
      PROVE  OnePerPacket(t)
  <2>1. \A i \in 1 .. Len(s) : s[i][1] \in Packets
    BY DEF Tasks
  <2>2. \A i \in 1 .. Len(s), j \in 1 .. Len(u) : s[i][1] # u[j][1]
    BY <1>4, <2>1 DEF Queues
  <2>3. \A i, j \in 1 .. Len(s) : t[i][1] = t[j][1] => i = j
    BY <1>1, <1>4 DEF OnePerPacket
  <2>4. \A i, j \in 1 .. Len(u) : t[Len(s) + i][1] = t[Len(s) + j][1] => i = j
    BY <1>1, <1>4 DEF OnePerPacket
  <2>5. \A i \in 1 .. Len(s), j \in 1 .. Len(u) : t[i][1] # t[Len(s) + j][1]
    BY <1>1, <2>2
  <2>6. ASSUME NEW i \in 1 .. Len(t), NEW j \in 1 .. Len(t), t[i][1] = t[j][1] PROVE i = j
    <3>. HIDE DEF t
    <3>1. CASE i \in 1 .. Len(s) /\ j \in 1 .. Len(s)
      BY <2>3, <2>6, <3>1
    <3>2. CASE i \notin 1 .. Len(s) \/ j \notin 1 .. Len(s)
      BY <1>2, <2>4, <2>5, <2>6, <3>2
    <3>. QED
      BY <3>1, <3>2
  <2>. QED
    BY <2>6 DEF OnePerPacket
<1>. QED
  BY <1>1, <1>3, <1>4

\* Adding a task at the end.
LEMMA AppendQueues ==
    ASSUME NEW s \in Seq(Tasks), NEW t \in Tasks
    PROVE  /\ Append(s, t) \in Seq(Tasks)
           /\ \A p : Queues(Append(s, t), p) <=> Queues(s, p) \/ p = t[1]
           /\ OnePerPacket(s) /\ ~Queues(s, t[1]) => OnePerPacket(Append(s, t))
<1>1. /\ <<t>> \in Seq(Tasks) /\ Append(s, t) = s \o <<t>> /\ OnePerPacket(<<t>>)
      /\ \A p : Queues(<<t>>, p) <=> p = t[1]
  BY DEF OnePerPacket, Queues
<1>. QED
  BY <1>1, ConcatQueues

\* Taking the first task.
LEMMA TailQueues ==
    ASSUME NEW s \in Seq(Tasks), s # <<>>
    PROVE  /\ Tail(s) \in Seq(Tasks)
           /\ Head(s) \in Tasks
           /\ \A p : Queues(s, p) <=> Queues(Tail(s), p) \/ p = Head(s)[1]
           /\ OnePerPacket(s) => OnePerPacket(Tail(s)) /\ ~Queues(Tail(s), Head(s)[1])
<1>. DEFINE t == Tail(s)
<1>1. /\ t \in Seq(Tasks) /\ Head(s) \in Tasks /\ Head(s) = s[1]
      /\ Len(s) \in Nat /\ Len(s) >= 1 /\ Len(t) = Len(s) - 1
      /\ \A i \in 1 .. Len(t) : t[i] = s[i + 1]
  OBVIOUS
<1>2. \A i \in 1 .. Len(t) : i + 1 \in 1 .. Len(s)
  BY <1>1
<1>3. \A i \in 1 .. Len(s) : i = 1 \/ \E j \in 1 .. Len(t) : i = j + 1
  <2>1. ASSUME NEW i \in 1 .. Len(s), i # 1 PROVE i - 1 \in 1 .. Len(t) /\ i = (i - 1) + 1
    BY <1>1, <2>1
  <2>. QED
    BY <2>1
<1>4. \A p : Queues(s, p) <=> Queues(t, p) \/ p = Head(s)[1]
  BY <1>1, <1>2, <1>3 DEF Queues
<1>5. OnePerPacket(s) => OnePerPacket(t) /\ ~Queues(t, Head(s)[1])
  BY <1>1, <1>2 DEF OnePerPacket, Queues
<1>. QED
  BY <1>1, <1>4, <1>5

\* An empty queue.
LEMMA EmptyQueues == OnePerPacket(<<>>) /\ \A p : ~Queues(<<>>, p)
  BY DEF OnePerPacket, Queues

-----------------------------------------------------------------------------
(***************************************************************************)
(* The steps preserve the invariant: callers of Stop, the scheduler's      *)
(* thread, the packets, the executor's threads, the destructor.            *)
(***************************************************************************)

\* What is said of the tasks depends on the queues, the threads and the table.
TaskParts ==
    /\ OneTaskPerQueue /\ OneQueuePerPacket /\ OneThreadPerPacket /\ NewHasNoTask
    /\ TableHasTasks /\ OrphansLast /\ AddsToWhole /\ DiesLater

\* The part of TypeOK about Stop.
StopTypes ==
    /\ stop \in BOOLEAN /\ stopped \in BOOLEAN
    /\ mtx \in Callers \union {NoCaller}
    /\ caller \in [Callers -> {"new", "lock", "test", "block", "wait", "woken", "late",
                               "join", "returned"}]
    /\ \A c \in Callers : mtx = c <=> caller[c] \in {"test", "block", "join"}

\* A step of a caller of Stop moves it between the places that have the lock
\* and those that do not, and lets it return only when the loop has ended.
LEMMA CallerSteps ==
    ASSUME IInv, NEW c \in Callers,
           Only(StopCalled(c) \/ StopStep(c) \/ SpuriousWakeup(c) \/ TimeOut(c))
    PROVE  IInv'
<1>. USE DEF IInv
<1>1. UNCHANGED <<setup, loopVars, ready, executor, threadVars, packetVars>>
  BY DEF Only
<1>2. (TaskParts /\ HandedOverWhole /\ AddsNextOnly /\ OnlyOrphansEndBadly)'
  BY <1>1 DEF loopVars, threadVars, packetVars, TaskParts, OneTaskPerQueue, OneQueuePerPacket,
     OneThreadPerPacket, NewHasNoTask, TableHasTasks, OrphansLast, AddsToWhole, DiesLater,
     GraphIsWhole, HasTask, InHand, Busy, HandedOverWhole,
     AddsNextOnly, OnlyOrphansEndBadly
<1>3. \/ StopCalled(c) \/ Lock(c) \/ TestStopped(c) \/ Block(c) \/ StopPool(c)
      \/ SpuriousWakeup(c) \/ TimeOut(c)
  BY DEF Only, StopStep
<1>4. /\ caller \in [Callers -> {"new", "lock", "test", "block", "wait", "woken", "late",
                                 "join", "returned"}]
      /\ \A d \in Callers : mtx = d <=> caller[d] \in {"test", "block", "join"}
      /\ NoCaller \notin Callers
  BY ShutdownAssumption DEF TypeOK, Callers
<1>5. StopTypes'
  <2>1. ASSUME StopCalled(c) \/ TestStopped(c) \/ SpuriousWakeup(c) \/ TimeOut(c)
        PROVE  StopTypes'
    BY <1>4, <2>1 DEF StopTypes, TypeOK, StopCalled, TestStopped, SpuriousWakeup, TimeOut, At, Move
  <2>2. CASE Lock(c)
    BY <1>4, <2>2 DEF StopTypes, TypeOK, Lock, At, Move
  <2>3. CASE Block(c) \/ StopPool(c)
    BY <1>4, <2>3 DEF StopTypes, TypeOK, Block, StopPool, At, Move
  <2>. QED
    BY <1>3, <2>1, <2>2, <2>3
<1>6. TypeOK'
  BY <1>1, <1>5 DEF StopTypes, TypeOK, setup, loopVars, threadVars, packetVars
<1>7. ReturnsAfterLoop'
  BY <1>1, <1>3, <1>4 DEF ReturnsAfterLoop, loopVars, At, Move, StopCalled, Lock, TestStopped,
     Block, StopPool, SpuriousWakeup, TimeOut
<1>. QED
  BY <1>2, <1>6, <1>7 DEF TaskParts

\* The scheduler's thread moves a task from the ready queue to the executor's.
LEMMA SchedulerSteps == ASSUME IInv, SchedulerStep PROVE IInv'
<1>. USE DEF IInv
<1>1. UNCHANGED <<setup, threadVars, packetVars>>
  BY DEF SchedulerStep
<1>2. (AddsNextOnly /\ OnlyOrphansEndBadly)'
  BY <1>1 DEF threadVars, packetVars, AddsNextOnly, OnlyOrphansEndBadly
<1>3. ready \in Seq(Tasks) /\ executor \in Seq(Tasks) /\ popped \in Seq(Tasks) /\ Len(popped) <= 1
  BY DEF TypeOK
<1>4. CASE TestStop \/ SetStopped
  <2>1. UNCHANGED <<popped, ready, executor, caller, mtx>> /\ loop # "hand"
    BY <1>4 DEF TestStop, SetStopped, stopVars
  <2>2. TypeOK'
    BY <1>1, <1>4, <2>1 DEF TypeOK, TestStop, SetStopped, setup, stopVars, threadVars, packetVars
  <2>3. TaskParts'
    BY <1>1, <2>1 DEF threadVars, packetVars, TaskParts, OneTaskPerQueue, OneQueuePerPacket,
       OneThreadPerPacket, NewHasNoTask, TableHasTasks, OrphansLast, AddsToWhole, DiesLater,
     GraphIsWhole, HasTask, InHand, Busy
  <2>4. (HandedOverWhole /\ ReturnsAfterLoop)'
    BY <1>1, <1>4, <2>1 DEF HandedOverWhole, ReturnsAfterLoop, At, TestStop,
       SetStopped
  <2>. QED
    BY <1>2, <2>2, <2>3, <2>4 DEF TaskParts
<1>5. CASE NotifyOne
  <2>1. UNCHANGED <<popped, ready, executor, stop, stopped, mtx>> /\ loop' = "ended" /\ loop = "notify"
    BY <1>5 DEF NotifyOne
  <2>2. \/ UNCHANGED caller
        \/ \E c \in Callers : caller[c] = "wait" /\ caller' = [caller EXCEPT ![c] = "woken"]
    BY <1>5 DEF NotifyOne, At, Move
  <2>3. TypeOK'
    BY <1>1, <2>1, <2>2 DEF TypeOK, setup, threadVars, packetVars
  <2>4. TaskParts'
    BY <1>1, <2>1 DEF threadVars, packetVars, TaskParts, OneTaskPerQueue, OneQueuePerPacket,
       OneThreadPerPacket, NewHasNoTask, TableHasTasks, OrphansLast, AddsToWhole, DiesLater,
     GraphIsWhole, HasTask, InHand, Busy
  <2>5. (HandedOverWhole /\ ReturnsAfterLoop)'
    BY <2>1 DEF HandedOverWhole, ReturnsAfterLoop
  <2>. QED
    BY <1>2, <2>3, <2>4, <2>5 DEF TaskParts
<1>6. CASE Top /\ ready = <<>>
  <2>1. UNCHANGED <<popped, ready, executor, stopVars>> /\ loop = "top" /\ loop' = "test"
    BY <1>6 DEF Top
  <2>2. TypeOK'
    BY <1>1, <2>1 DEF TypeOK, setup, stopVars, threadVars, packetVars
  <2>3. TaskParts'
    BY <1>1, <2>1 DEF threadVars, packetVars, TaskParts, OneTaskPerQueue, OneQueuePerPacket,
       OneThreadPerPacket, NewHasNoTask, TableHasTasks, OrphansLast, AddsToWhole, DiesLater,
     GraphIsWhole, HasTask, InHand, Busy
  <2>4. (HandedOverWhole /\ ReturnsAfterLoop)'
    BY <1>1, <2>1 DEF HandedOverWhole, ReturnsAfterLoop, At, stopVars
  <2>. QED
    BY <1>2, <2>2, <2>3, <2>4 DEF TaskParts
<1>7. CASE Top /\ ready # <<>>
  <2>. DEFINE t == Head(ready)
  <2>1. /\ UNCHANGED <<executor, stopVars>> /\ loop = "top" /\ loop' = "hand" /\ popped = <<>>
        /\ ready' = Tail(ready) /\ popped' = <<t>>
    BY <1>7 DEF Top, HandedOverWhole
  <2>2. /\ ready' \in Seq(Tasks) /\ t \in Tasks
        /\ \A p : Queues(ready, p) <=> Queues(ready', p) \/ p = t[1]
        /\ OnePerPacket(ready') /\ ~Queues(ready', t[1])
    BY <1>3, <1>7, <2>1, TailQueues DEF OneTaskPerQueue
  <2>3. /\ popped' \in Seq(Tasks) /\ Len(popped') <= 1 /\ OnePerPacket(popped')
        /\ \A p : Queues(popped', p) <=> p = t[1]
    BY <2>1, <2>2 DEF OnePerPacket, Queues
  <2>. HIDE DEF t
  <2>4. \A p : ~Queues(popped, p)
    BY <2>1, EmptyQueues
  <2>5. TypeOK'
    BY <1>1, <2>1, <2>2, <2>3 DEF TypeOK, setup, stopVars, threadVars, packetVars
  <2>6. \A p : HasTask(p)' <=> HasTask(p)
    BY <1>1, <2>1, <2>2, <2>3, <2>4 DEF HasTask, InHand, Busy, threadVars, packetVars
  <2>7. OneTaskPerQueue' /\ OneThreadPerPacket'
    BY <1>1, <2>1, <2>2, <2>3 DEF OneTaskPerQueue, OneThreadPerPacket, Busy, threadVars
  <2>8. OneQueuePerPacket'
    BY <1>1, <2>1, <2>2, <2>3, <2>4 DEF OneQueuePerPacket, InHand, Busy, threadVars, packetVars
  <2>9. (NewHasNoTask /\ TableHasTasks /\ OrphansLast /\ AddsToWhole /\ DiesLater)'
    BY <1>1, <2>6 DEF NewHasNoTask, TableHasTasks, OrphansLast, AddsToWhole, DiesLater, GraphIsWhole,
       threadVars, packetVars
  <2>10. (HandedOverWhole /\ ReturnsAfterLoop)'
    BY <1>1, <2>1 DEF HandedOverWhole, ReturnsAfterLoop, At, stopVars
  <2>. QED
    BY <1>2, <2>5, <2>7, <2>8, <2>9, <2>10
<1>8. CASE HandOver
  <2>1. /\ UNCHANGED <<ready, stopVars>> /\ loop = "hand" /\ loop' = "test" /\ popped' = <<>>
        /\ executor' = executor \o popped
    BY <1>8 DEF HandOver
  <2>2. /\ executor' \in Seq(Tasks)
        /\ \A p : Queues(executor', p) <=> Queues(executor, p) \/ Queues(popped, p)
    BY <1>3, <2>1, ConcatQueues
  <2>3. OnePerPacket(executor')
    <3>1. \A p \in Packets : ~(Queues(executor, p) /\ Queues(popped, p))
      BY DEF OneQueuePerPacket
    <3>. QED
      BY <1>3, <2>1, <3>1, ConcatQueues DEF OneTaskPerQueue
  <2>4. OnePerPacket(popped') /\ \A p : ~Queues(popped', p)
    BY <2>1, EmptyQueues
  <2>5. TypeOK'
    BY <1>1, <2>1, <2>2 DEF TypeOK, setup, stopVars, threadVars, packetVars
  <2>6. \A p : HasTask(p)' <=> HasTask(p)
    BY <1>1, <2>1, <2>2, <2>4 DEF HasTask, InHand, Busy, threadVars, packetVars
  <2>7. OneTaskPerQueue' /\ OneThreadPerPacket'
    BY <1>1, <2>1, <2>3, <2>4 DEF OneTaskPerQueue, OneThreadPerPacket, Busy, threadVars
  <2>8. OneQueuePerPacket'
    BY <1>1, <2>1, <2>2, <2>4 DEF OneQueuePerPacket, InHand, Busy, threadVars, packetVars
  <2>9. (NewHasNoTask /\ TableHasTasks /\ OrphansLast /\ AddsToWhole /\ DiesLater)'
    BY <1>1, <2>6 DEF NewHasNoTask, TableHasTasks, OrphansLast, AddsToWhole, DiesLater, GraphIsWhole,
       threadVars, packetVars
  <2>10. (HandedOverWhole /\ ReturnsAfterLoop)'
    BY <1>1, <2>1 DEF HandedOverWhole, ReturnsAfterLoop, At, stopVars
  <2>. QED
    BY <1>2, <2>5, <2>7, <2>8, <2>9, <2>10
<1>. QED
  BY <1>4, <1>5, <1>6, <1>7, <1>8 DEF SchedulerStep

\* A packet that is handed in gets its place in the table and then its first
\* task; it had neither.
LEMMA AddSteps == ASSUME IInv, NEW p \in Packets, AddPacketAsync(p) PROVE IInv'
<1>. USE DEF IInv
<1>1. UNCHANGED <<setup, stopVars, loopVars, executor, threadVars, life, orphans>>
  BY DEF AddPacketAsync
<1>2. (HandedOverWhole /\ AddsNextOnly /\ ReturnsAfterLoop /\ OrphansLast /\ DiesLater
       /\ OnlyOrphansEndBadly)'
  BY <1>1 DEF HandedOverWhole, AddsNextOnly, ReturnsAfterLoop, OrphansLast, DiesLater, GraphIsWhole,
     OnlyOrphansEndBadly, At, stopVars, loopVars, threadVars
<1>3. /\ \A q : InHand(q)' <=> InHand(q)
      /\ OneThreadPerPacket'
  BY <1>1 DEF InHand, OneThreadPerPacket, Busy, threadVars
<1>4. CASE AddPacketContext(p)
  <2>1. /\ p \in new /\ new' = new \ {p} /\ table' = table \union {p}
        /\ adding' = adding \union {p} /\ UNCHANGED ready /\ life = "whole"
    BY <1>4 DEF AddPacketContext
  <2>2. ~HasTask(p)
    BY <2>1 DEF NewHasNoTask
  <2>3. \A q : HasTask(q)' <=> HasTask(q) \/ q = p
    BY <1>1, <1>3, <2>1 DEF HasTask, loopVars
  <2>4. TypeOK'
    BY <1>1, <2>1 DEF TypeOK, setup, stopVars, loopVars, threadVars
  <2>5. OneTaskPerQueue'
    BY <1>1, <2>1 DEF OneTaskPerQueue, loopVars
  <2>6. OneQueuePerPacket'
    BY <1>1, <1>3, <2>1, <2>2 DEF OneQueuePerPacket, HasTask, loopVars
  <2>7. NewHasNoTask' /\ TableHasTasks' /\ AddsToWhole'
    BY <1>1, <2>1, <2>3 DEF NewHasNoTask, TableHasTasks, AddsToWhole, GraphIsWhole
  <2>. QED
    BY <1>2, <1>3, <2>4, <2>5, <2>6, <2>7
<1>5. CASE Schedule(p)
  <2>. DEFINE t == <<p, 1>>
  <2>1. /\ p \in adding /\ adding' = adding \ {p} /\ UNCHANGED <<new, table>>
        /\ ready' = Append(ready, t) /\ ready \in Seq(Tasks) /\ t \in Tasks /\ t[1] = p
    BY <1>5, ShutdownAssumption DEF Schedule, TypeOK, Tasks
  <2>. HIDE DEF t
  <2>2. /\ ready' \in Seq(Tasks)
        /\ \A q : Queues(ready', q) <=> Queues(ready, q) \/ q = p
        /\ OnePerPacket(ready) /\ ~Queues(ready, p) => OnePerPacket(ready')
    BY <2>1, AppendQueues
  <2>3. ~Queues(ready, p) /\ ~Queues(popped, p) /\ ~Queues(executor, p) /\ ~InHand(p)
    BY <2>1 DEF OneQueuePerPacket
  <2>4. \A q : HasTask(q)' <=> HasTask(q)
    BY <1>1, <1>3, <2>1, <2>2 DEF HasTask, loopVars
  <2>5. TypeOK'
    BY <1>1, <2>1, <2>2 DEF TypeOK, setup, stopVars, loopVars, threadVars
  <2>6. OneTaskPerQueue'
    BY <1>1, <2>1, <2>2, <2>3 DEF OneTaskPerQueue, loopVars
  <2>7. OneQueuePerPacket'
    BY <1>1, <1>3, <2>1, <2>2, <2>3 DEF OneQueuePerPacket, loopVars
  <2>8. NewHasNoTask' /\ TableHasTasks' /\ AddsToWhole'
    BY <1>1, <2>1, <2>4 DEF NewHasNoTask, TableHasTasks, AddsToWhole, GraphIsWhole
  <2>. QED
    BY <1>2, <1>3, <2>5, <2>6, <2>7, <2>8
<1>. QED
  BY <1>4, <1>5 DEF AddPacketAsync

\* A thread takes a task, keeps it through its places, and lets go of it by
\* adding the next one or by erasing the packet; what it uses is there unless
\* the packet is an orphan or its stream went with the manager.
LEMMA WorkerSteps == ASSUME IInv, NEW w \in Workers, WorkerStep(w) PROVE IInv'
<1>. USE DEF IInv
<1>. DEFINE p == task[w][1]
            Bad == p \in orphans \/ (p \in Managed /\ life # "whole")
<1>1. UNCHANGED <<setup, stopVars, loopVars, new, adding, life, orphans>>
  BY DEF WorkerStep
<1>2. (HandedOverWhole /\ ReturnsAfterLoop /\ OrphansLast /\ AddsToWhole)'
  BY <1>1 DEF HandedOverWhole, ReturnsAfterLoop, OrphansLast, AddsToWhole, GraphIsWhole, At,
     stopVars, loopVars
<1>3. /\ ready \in Seq(Tasks) /\ executor \in Seq(Tasks) /\ task \in [Workers -> Tasks]
      /\ pc \in [Workers -> {"idle", "start", "add", "callback", "erase", "source", "dead"}]
      /\ holds \in [Workers -> BOOLEAN] /\ keeps \in [Workers -> BOOLEAN]
      /\ ordered \in BOOLEAN /\ short \in BOOLEAN
  BY DEF TypeOK
<1>4. p \in Packets /\ task[w][2] \in 1 .. Steps
  BY <1>3 DEF Tasks
<1>5. Busy(w) =>
        InHand(p) /\ HasTask(p) /\ (GraphIsWhole => p \in table) /\ (~GraphIsWhole => p \in orphans)
  BY <1>4 DEF HasTask, InHand, TableHasTasks
<1>6. ~StreamIsThere(p) => Bad /\ life # "whole"
  BY DEF StreamIsThere
<1>7. ~GraphIsWhole => life # "whole"
  BY DEF GraphIsWhole
<1>8. CASE Take(w)
  <2>. DEFINE t == Head(executor)
  <2>1. /\ UNCHANGED <<ready, holds, keeps, table>> /\ executor # <<>> /\ executor' = Tail(executor)
        /\ ~Busy(w) /\ task' = [task EXCEPT ![w] = t] /\ pc' = [pc EXCEPT ![w] = "start"]
    BY <1>8 DEF Take, Goto, Busy
  <2>2. /\ executor' \in Seq(Tasks) /\ t \in Tasks
        /\ \A q : Queues(executor, q) <=> Queues(executor', q) \/ q = t[1]
        /\ OnePerPacket(executor') /\ ~Queues(executor', t[1])
    BY <1>3, <2>1, TailQueues DEF OneTaskPerQueue
  <2>. HIDE DEF t
  <2>3. /\ Busy(w)' /\ task'[w] = t /\ pc'[w] = "start"
        /\ \A v \in Workers \ {w} : task'[v] = task[v] /\ pc'[v] = pc[v]
    BY <1>3, <2>1 DEF Busy
  <2>4. \A q : InHand(q)' <=> InHand(q) \/ q = t[1]
    BY <2>1, <2>3 DEF InHand, Busy
  <2>5. TypeOK'
    BY <1>1, <1>3, <2>1, <2>2 DEF TypeOK, setup, stopVars, loopVars
  <2>6. \A q : HasTask(q)' <=> HasTask(q)
    BY <1>1, <2>1, <2>2, <2>4 DEF HasTask, loopVars
  <2>7. /\ t[1] \in Packets /\ ~InHand(t[1]) /\ ~Queues(ready, t[1]) /\ ~Queues(popped, t[1])
        /\ t[1] \notin adding
    BY <2>2 DEF OneQueuePerPacket, Tasks
  <2>8. OneTaskPerQueue'
    BY <1>1, <2>1, <2>2 DEF OneTaskPerQueue, loopVars
  <2>9. OneThreadPerPacket'
    BY <2>3, <2>7 DEF OneThreadPerPacket, InHand, Busy
  <2>10. OneQueuePerPacket'
    BY <1>1, <2>1, <2>2, <2>4, <2>7 DEF OneQueuePerPacket, loopVars
  <2>11. NewHasNoTask' /\ TableHasTasks'
    BY <1>1, <2>1, <2>6 DEF NewHasNoTask, TableHasTasks, GraphIsWhole
  <2>12. AddsNextOnly' /\ DiesLater' /\ OnlyOrphansEndBadly'
    BY <1>1, <2>3 DEF AddsNextOnly, DiesLater, OnlyOrphansEndBadly
  <2>. QED
    BY <1>2, <2>5, <2>8, <2>9, <2>10, <2>11, <2>12
<1>9. ASSUME NEW here \in {"add", "callback", "erase"}, Busy(w),
             UNCHANGED <<ready, executor, task, table>>,
             holds' \in [Workers -> BOOLEAN], keeps' \in [Workers -> BOOLEAN],
             pc' = [pc EXCEPT ![w] = here],
             here = "add" => task[w][2] < Steps
      PROVE  IInv'
  <2>1. \A v \in Workers : Busy(v)' <=> Busy(v)
    BY <1>3, <1>9 DEF Busy
  <2>2. \A q : (InHand(q)' <=> InHand(q)) /\ (HasTask(q)' <=> HasTask(q))
    BY <1>1, <1>9, <2>1 DEF HasTask, InHand, loopVars
  <2>3. TypeOK'
    BY <1>1, <1>3, <1>9 DEF TypeOK, setup, stopVars, loopVars
  <2>4. OneTaskPerQueue' /\ OneThreadPerPacket'
    BY <1>1, <1>9, <2>1 DEF OneTaskPerQueue, OneThreadPerPacket, loopVars
  <2>5. OneQueuePerPacket' /\ NewHasNoTask' /\ TableHasTasks'
    BY <1>1, <1>9, <2>2 DEF OneQueuePerPacket, NewHasNoTask, TableHasTasks, GraphIsWhole, loopVars
  <2>6. AddsNextOnly' /\ DiesLater' /\ OnlyOrphansEndBadly'
    BY <1>1, <1>3, <1>9 DEF AddsNextOnly, DiesLater, OnlyOrphansEndBadly
  <2>. QED
    BY <1>2, <2>3, <2>4, <2>5, <2>6
<1>10. ASSUME NEW here \in {"source", "idle", "dead"},
              UNCHANGED <<ready, executor, task>>,
              table' = table \/ (Busy(w) /\ table' = table \ {p}),
              Busy(w) /\ life = "whole" => table' = table \ {p},
              holds' \in [Workers -> BOOLEAN], keeps' \in [Workers -> BOOLEAN],
              pc' = [pc EXCEPT ![w] = here],
              here = "dead" => Bad /\ life # "whole"
       PROVE  IInv'
  <2>1. /\ ~Busy(w)' /\ pc'[w] = here
        /\ \A v \in Workers \ {w} : (Busy(v)' <=> Busy(v)) /\ pc'[v] = pc[v]
    BY <1>3, <1>10 DEF Busy
  <2>2. \A q : InHand(q)' <=> InHand(q) /\ ~(Busy(w) /\ q = p)
    BY <1>10, <2>1 DEF InHand, OneThreadPerPacket
  <2>3. Busy(w) =>
          ~Queues(ready, p) /\ ~Queues(popped, p) /\ ~Queues(executor, p) /\ p \notin adding
    BY <1>4, <1>5 DEF OneQueuePerPacket
  <2>4. \A q : HasTask(q)' <=> HasTask(q) /\ ~(Busy(w) /\ q = p)
    BY <1>1, <1>10, <2>2, <2>3 DEF HasTask, loopVars
  <2>5. TypeOK'
    BY <1>1, <1>3, <1>10 DEF TypeOK, setup, stopVars, loopVars
  <2>6. OneTaskPerQueue' /\ OneThreadPerPacket'
    BY <1>1, <1>10, <2>1 DEF OneTaskPerQueue, OneThreadPerPacket, loopVars
  <2>7. OneQueuePerPacket'
    BY <1>1, <1>10, <2>2 DEF OneQueuePerPacket, loopVars
  <2>8. NewHasNoTask' /\ TableHasTasks'
    <3>. HIDE DEF p
    <3>1. NewHasNoTask'
      BY <1>1, <1>10, <2>4 DEF NewHasNoTask
    <3>2. TableHasTasks'
      BY <1>1, <1>10, <2>4 DEF TableHasTasks, GraphIsWhole
    <3>. QED
      BY <3>1, <3>2
  <2>9. AddsNextOnly' /\ DiesLater' /\ OnlyOrphansEndBadly'
    BY <1>1, <1>10, <2>1 DEF AddsNextOnly, DiesLater, OnlyOrphansEndBadly
  <2>. QED
    BY <1>2, <2>5, <2>6, <2>7, <2>8, <2>9
<1>11. CASE Start(w)
  <2>. DEFINE found == Alive(p) /\ (ordered => StreamIsThere(p))
  <2>1. Busy(w) /\ UNCHANGED <<ready, executor, task, table>>
    BY <1>11 DEF Start, Busy
  <2>2. CASE found
    <3>. DEFINE here == IF task[w][2] = Steps THEN "callback" ELSE "add"
    <3>1. /\ pc' = [pc EXCEPT ![w] = here] /\ holds' = [holds EXCEPT ![w] = TRUE]
          /\ keeps' = [keeps EXCEPT ![w] = ordered]
      BY <1>11, <2>2 DEF Start, Goto
    <3>2. here \in {"add", "callback", "erase"} /\ (here = "add" => task[w][2] < Steps)
      BY <1>4, ShutdownAssumption
    <3>3. holds' \in [Workers -> BOOLEAN] /\ keeps' \in [Workers -> BOOLEAN]
      BY <1>3, <3>1
    <3>. HIDE DEF here
    <3>. QED
      BY <1>9, <2>1, <3>1, <3>2, <3>3
  <2>3. CASE ~found
    <3>1. pc' = [pc EXCEPT ![w] = "dead"] /\ UNCHANGED <<holds, keeps>>
      BY <1>11, <2>3 DEF Start, Goto
    <3>2. Bad /\ life # "whole"
      BY <1>5, <1>6, <1>7, <2>1, <2>3 DEF Alive
    <3>. HIDE DEF Bad
    <3>. QED
      BY <1>3, <1>10, <2>1, <3>1, <3>2
  <2>. QED
    BY <2>2, <2>3
<1>12. CASE AddTask(w)
  <2>1. pc[w] = "add" /\ Busy(w) /\ UNCHANGED <<executor, task, table>> /\ task[w][2] < Steps
    BY <1>12 DEF AddTask, AddsNextOnly, Busy
  <2>2. CASE life \in {"executor", "gone"}
    <3>1. pc' = [pc EXCEPT ![w] = "dead"] /\ UNCHANGED <<ready, holds, keeps>>
      BY <1>12, <2>2 DEF AddTask, Goto, GraphIsWhole
    <3>2. Bad /\ life # "whole"
      BY <1>5, <2>1, <2>2 DEF GraphIsWhole
    <3>. HIDE DEF Bad
    <3>. QED
      BY <1>3, <1>10, <2>1, <3>1, <3>2
  <2>3. CASE life \notin {"executor", "gone"}
    <3>. DEFINE t == <<p, task[w][2] + 1>>
    <3>1. /\ ready' = Append(ready, t) /\ t \in Tasks /\ t[1] = p
          /\ pc' = [pc EXCEPT ![w] = "idle"] /\ holds' = [holds EXCEPT ![w] = FALSE]
          /\ keeps' = [keeps EXCEPT ![w] = FALSE]
      BY <1>4, <1>12, <2>1, <2>3, ShutdownAssumption DEF AddTask, Return, Goto, Tasks
    <3>. HIDE DEF t
    <3>2. /\ ready' \in Seq(Tasks)
          /\ \A q : Queues(ready', q) <=> Queues(ready, q) \/ q = p
          /\ ~Queues(ready, p) => OnePerPacket(ready')
      BY <1>3, <3>1, AppendQueues DEF OneTaskPerQueue
    <3>3. /\ ~Busy(w)' /\ pc'[w] = "idle"
          /\ \A v \in Workers \ {w} : (Busy(v)' <=> Busy(v)) /\ pc'[v] = pc[v]
      BY <1>3, <3>1 DEF Busy
    <3>4. \A q : InHand(q)' <=> InHand(q) /\ q # p
      BY <2>1, <3>3 DEF InHand, OneThreadPerPacket
    <3>5. /\ InHand(p) /\ ~Queues(ready, p) /\ ~Queues(popped, p) /\ ~Queues(executor, p)
          /\ p \notin adding
      BY <1>4, <2>1 DEF InHand, OneQueuePerPacket
    <3>6. \A q : HasTask(q)' <=> HasTask(q)
      BY <1>1, <2>1, <3>2, <3>4, <3>5 DEF HasTask, loopVars
    <3>7. TypeOK'
      BY <1>1, <1>3, <2>1, <3>1, <3>2 DEF TypeOK, setup, stopVars, loopVars
    <3>8. OneTaskPerQueue' /\ OneThreadPerPacket'
      BY <1>1, <2>1, <3>2, <3>3, <3>5 DEF OneTaskPerQueue, OneThreadPerPacket, loopVars
    <3>9. OneQueuePerPacket'
      BY <1>1, <2>1, <3>2, <3>4, <3>5 DEF OneQueuePerPacket, loopVars
    <3>10. NewHasNoTask' /\ TableHasTasks'
      BY <1>1, <2>1, <3>6 DEF NewHasNoTask, TableHasTasks, GraphIsWhole
    <3>11. AddsNextOnly' /\ DiesLater' /\ OnlyOrphansEndBadly'
      BY <1>1, <2>1, <3>3 DEF AddsNextOnly, DiesLater, OnlyOrphansEndBadly
    <3>. QED
      BY <1>2, <3>7, <3>8, <3>9, <3>10, <3>11
  <2>. QED
    BY <2>2, <2>3
<1>13. CASE CallBack(w)
  <2>. DEFINE fine == GraphIsWhole /\ (short => StreamIsThere(p))
              kept == StreamIsThere(p) /\ (ordered \/ ~short)
  <2>1. /\ Busy(w) /\ UNCHANGED <<ready, executor, task, table, holds>>
        /\ keeps' = [keeps EXCEPT ![w] = kept]
        /\ pc' = [pc EXCEPT ![w] = IF fine THEN "erase" ELSE "dead"]
    BY <1>13 DEF CallBack, Busy, Goto
  <2>2. kept \in BOOLEAN
    OBVIOUS
  <2>. HIDE DEF kept
  <2>3. keeps' \in [Workers -> BOOLEAN]
    BY <1>3, <2>1, <2>2
  <2>4. ~fine => Bad /\ life # "whole"
    BY <1>5, <1>6, <1>7, <2>1
  <2>. HIDE DEF fine, Bad
  <2>5. CASE fine
    BY <1>3, <1>9, <2>1, <2>3, <2>5
  <2>6. CASE ~fine
    BY <1>3, <1>10, <2>1, <2>3, <2>4, <2>6
  <2>. QED
    BY <2>5, <2>6
<1>14. CASE Erase(w)
  <2>1. Busy(w) /\ UNCHANGED <<ready, executor, task, holds>>
    BY <1>14 DEF Erase, Busy
  <2>2. CASE ~GraphIsWhole
    <3>1. pc' = [pc EXCEPT ![w] = "dead"] /\ UNCHANGED <<table, keeps>>
      BY <1>14, <2>2 DEF Erase, Goto
    <3>2. Bad /\ life # "whole"
      BY <1>5, <1>7, <2>1, <2>2
    <3>. HIDE DEF Bad
    <3>. QED
      BY <1>3, <1>10, <2>1, <3>1, <3>2
  <2>3. CASE GraphIsWhole
    <3>1. /\ table' = table \ {p} /\ pc' = [pc EXCEPT ![w] = "source"]
          /\ keeps' = [keeps EXCEPT ![w] = ordered]
      BY <1>14, <2>3 DEF Erase, Goto
    <3>2. keeps' \in [Workers -> BOOLEAN]
      BY <1>3, <3>1
    <3>. QED
      BY <1>3, <1>10, <2>1, <3>1, <3>2
  <2>. QED
    BY <2>2, <2>3
<1>15. CASE LogSource(w)
  <2>1. ~Busy(w) /\ UNCHANGED <<ready, executor, task, table>>
    BY <1>15 DEF LogSource, Busy
  <2>2. CASE StreamIsThere(p)
    <3>1. /\ pc' = [pc EXCEPT ![w] = "idle"] /\ holds' = [holds EXCEPT ![w] = FALSE]
          /\ keeps' = [keeps EXCEPT ![w] = FALSE]
      BY <1>15, <2>2 DEF LogSource, Return, Goto
    <3>2. holds' \in [Workers -> BOOLEAN] /\ keeps' \in [Workers -> BOOLEAN]
      BY <1>3, <3>1
    <3>. QED
      BY <1>10, <2>1, <3>1, <3>2
  <2>3. CASE ~StreamIsThere(p)
    <3>1. pc' = [pc EXCEPT ![w] = "dead"] /\ UNCHANGED <<holds, keeps>>
      BY <1>15, <2>3 DEF LogSource, Goto
    <3>2. Bad /\ life # "whole"
      BY <1>6, <2>3
    <3>. HIDE DEF Bad
    <3>. QED
      BY <1>3, <1>10, <2>1, <3>1, <3>2
  <2>. QED
    BY <2>2, <2>3
<1>. QED
  BY <1>8, <1>11, <1>12, <1>13, <1>14, <1>15 DEF WorkerStep

\* The manager of the streams goes first; from then on no packet is added.
LEMMA StreamSteps == ASSUME IInv, DestroyStreams PROVE IInv'
<1>. USE DEF IInv
<1>1. /\ UNCHANGED <<setup, stopVars, loopVars, ready, executor, threadVars,
                     new, adding, table, orphans>>
      /\ life = "whole" /\ life' = "graph" /\ adding = {} /\ GraphIsWhole /\ GraphIsWhole'
  BY DEF DestroyStreams, GraphIsWhole
<1>2. TypeOK'
  BY <1>1 DEF TypeOK, setup, stopVars, loopVars, threadVars, Lives
<1>3. \A p : (InHand(p)' <=> InHand(p)) /\ (HasTask(p)' <=> HasTask(p))
  BY <1>1 DEF HasTask, InHand, Busy, loopVars, threadVars
<1>4. (OneTaskPerQueue /\ OneQueuePerPacket /\ OneThreadPerPacket)'
  BY <1>1, <1>3 DEF OneTaskPerQueue, OneQueuePerPacket, OneThreadPerPacket, Busy, loopVars, threadVars
<1>5. (NewHasNoTask /\ TableHasTasks /\ OrphansLast /\ AddsToWhole)'
  BY <1>1, <1>3 DEF NewHasNoTask, TableHasTasks, OrphansLast, AddsToWhole
<1>6. (DiesLater /\ HandedOverWhole /\ AddsNextOnly /\ ReturnsAfterLoop /\ OnlyOrphansEndBadly)'
  BY <1>1 DEF DiesLater, HandedOverWhole, AddsNextOnly, ReturnsAfterLoop, OnlyOrphansEndBadly, At,
     stopVars, loopVars, threadVars
<1>. QED
  BY <1>2, <1>4, <1>5, <1>6

\* ~Graph destroys the members once its Stop has returned: what then has a task
\* was in the table, which is why those packets are the orphans.
LEMMA DestroySteps == ASSUME IInv, Destroy PROVE IInv'
<1>. USE DEF IInv
<1>1. UNCHANGED <<setup, stopVars, loopVars, threadVars, new, adding>>
  BY DEF Destroy
<1>2. (HandedOverWhole /\ AddsNextOnly /\ ReturnsAfterLoop)'
  BY <1>1 DEF HandedOverWhole, AddsNextOnly, ReturnsAfterLoop, At, stopVars, loopVars, threadVars
<1>3. \A p : InHand(p)' <=> InHand(p)
  BY <1>1 DEF InHand, Busy, threadVars
<1>4. OneThreadPerPacket'
  BY <1>1 DEF OneThreadPerPacket, Busy, threadVars
<1>5. /\ life # "whole" /\ life' \in {"scheduler", "executor", "gone"} /\ adding = {}
      /\ ~GraphIsWhole'
  BY DEF Destroy, DestroyMembers, DestroyQueue, DestroyExecutor, GraphIsWhole, AddsToWhole
<1>6. (OrphansLast /\ AddsToWhole /\ DiesLater)'
  BY <1>1, <1>5 DEF OrphansLast, AddsToWhole, DiesLater
<1>7. CASE DestroyMembers
  <2>1. /\ UNCHANGED <<ready, executor>> /\ life = "graph" /\ GraphIsWhole
        /\ orphans' = table /\ table' = {} /\ orphans = {}
    BY <1>7 DEF DestroyMembers, OrphansLast, GraphIsWhole
  <2>2. \A p : HasTask(p)' <=> HasTask(p)
    BY <1>1, <1>3, <2>1 DEF HasTask, loopVars
  <2>3. TypeOK'
    BY <1>1, <1>5, <2>1 DEF TypeOK, setup, stopVars, loopVars, threadVars, Lives
  <2>4. OneTaskPerQueue' /\ OneQueuePerPacket'
    BY <1>1, <1>3, <2>1 DEF OneTaskPerQueue, OneQueuePerPacket, loopVars
  <2>5. NewHasNoTask' /\ TableHasTasks'
    BY <1>1, <1>5, <2>1, <2>2 DEF NewHasNoTask, TableHasTasks
  <2>6. OnlyOrphansEndBadly'
    BY <1>1, <1>5, <2>1 DEF OnlyOrphansEndBadly, threadVars
  <2>. QED
    BY <1>2, <1>4, <1>6, <2>3, <2>4, <2>5, <2>6
<1>8. CASE DestroyQueue \/ DestroyExecutor
  <2>1. /\ UNCHANGED <<table, orphans>> /\ ~GraphIsWhole
        /\ \/ ready' = <<>> /\ executor' = executor
           \/ ready' = ready /\ executor' = <<>>
    BY <1>8 DEF DestroyQueue, DestroyExecutor, GraphIsWhole
  <2>2. /\ ready' \in Seq(Tasks) /\ executor' \in Seq(Tasks)
        /\ \A p : (Queues(ready', p) => Queues(ready, p)) /\ (Queues(executor', p) => Queues(executor, p))
        /\ OnePerPacket(ready') /\ OnePerPacket(executor')
    <3>1. <<>> \in Seq(Tasks) /\ ready \in Seq(Tasks) /\ executor \in Seq(Tasks)
      BY DEF TypeOK
    <3>2. OnePerPacket(ready) /\ OnePerPacket(executor)
      BY DEF OneTaskPerQueue
    <3>3. CASE ready' = <<>> /\ executor' = executor
      BY <3>1, <3>2, <3>3, EmptyQueues
    <3>4. CASE ready' = ready /\ executor' = <<>>
      BY <3>1, <3>2, <3>4, EmptyQueues
    <3>. QED
      BY <2>1, <3>3, <3>4
  <2>3. \A p : HasTask(p)' => HasTask(p)
    BY <1>1, <1>3, <2>2 DEF HasTask, loopVars
  <2>4. TypeOK'
    BY <1>1, <1>5, <2>1, <2>2 DEF TypeOK, setup, stopVars, loopVars, threadVars, Lives
  <2>5. OneTaskPerQueue' /\ OneQueuePerPacket'
    BY <1>1, <1>3, <1>5, <2>2 DEF OneTaskPerQueue, OneQueuePerPacket, loopVars
  <2>6. NewHasNoTask' /\ TableHasTasks'
    BY <1>1, <1>5, <2>1, <2>3 DEF NewHasNoTask, TableHasTasks
  <2>7. OnlyOrphansEndBadly'
    BY <1>1, <1>5, <2>1 DEF OnlyOrphansEndBadly, threadVars
  <2>. QED
    BY <1>2, <1>4, <1>6, <2>4, <2>5, <2>6, <2>7
<1>. QED
  BY <1>7, <1>8 DEF Destroy

\* A step of something else.
LEMMA NothingSteps == ASSUME IInv, UNCHANGED vars PROVE IInv'
<1>1. UNCHANGED <<setup, stopVars, loopVars, ready, executor, threadVars, packetVars>>
  BY DEF vars
<1>2. TypeOK'
  BY <1>1 DEF IInv, TypeOK, setup, stopVars, loopVars, threadVars, packetVars
<1>3. (TaskParts /\ HandedOverWhole /\ AddsNextOnly /\ ReturnsAfterLoop
       /\ OnlyOrphansEndBadly)'
  BY <1>1 DEF IInv, stopVars, loopVars, threadVars, packetVars, TaskParts, OneTaskPerQueue,
     OneQueuePerPacket, OneThreadPerPacket, NewHasNoTask, TableHasTasks, OrphansLast, AddsToWhole, DiesLater,
     GraphIsWhole, HasTask, InHand, Busy,
     HandedOverWhole, AddsNextOnly, ReturnsAfterLoop, OnlyOrphansEndBadly, At
<1>. QED
  BY <1>2, <1>3 DEF IInv, TaskParts

-----------------------------------------------------------------------------
(***************************************************************************)
(* The theorems.                                                           *)
(***************************************************************************)

\* Nothing has been handed in, and nothing is destroyed.
LEMMA InitEstablishes == Init => IInv
<1>. SUFFICES ASSUME Init PROVE IInv
  OBVIOUS
<1>. USE DEF Init
<1>1. (CHOOSE t \in Tasks : TRUE) \in Tasks
  <2>1. PICK p \in Packets : TRUE
    BY ShutdownAssumption
  <2>2. <<p, 1>> \in Tasks
    BY ShutdownAssumption DEF Tasks
  <2>. QED
    BY <2>2
<1>2. TypeOK
  <2>1. NoCaller \notin Callers
    BY ShutdownAssumption DEF Callers
  <2>2. popped \in Seq(Tasks) /\ Len(popped) <= 1 /\ ready \in Seq(Tasks) /\ executor \in Seq(Tasks)
    OBVIOUS
  <2>. QED
    BY <1>1, <2>1, <2>2 DEF TypeOK, Lives
<1>3. \A p : ~HasTask(p)
  BY EmptyQueues DEF HasTask, InHand, Busy
<1>4. OneTaskPerQueue /\ OneQueuePerPacket /\ OneThreadPerPacket
  BY EmptyQueues DEF OneTaskPerQueue, OneQueuePerPacket, OneThreadPerPacket, Busy
<1>5. NewHasNoTask /\ TableHasTasks /\ OrphansLast /\ AddsToWhole /\ DiesLater
  BY <1>3 DEF NewHasNoTask, TableHasTasks, OrphansLast, AddsToWhole, DiesLater, GraphIsWhole
<1>6. HandedOverWhole /\ AddsNextOnly /\ ReturnsAfterLoop /\ OnlyOrphansEndBadly
  BY DEF HandedOverWhole, AddsNextOnly, ReturnsAfterLoop, OnlyOrphansEndBadly, At
<1>. QED
  BY <1>2, <1>4, <1>5, <1>6 DEF IInv

\* Every step of a graph that ends, whoever takes it, keeps the invariant.
THEOREM Invariant == Spec => []IInv
<1>1. ASSUME IInv, [Next]_vars PROVE IInv'
  <2>1. CASE \E c \in Callers : Only(StopCalled(c) \/ StopStep(c) \/ SpuriousWakeup(c) \/ TimeOut(c))
    BY <1>1, <2>1, CallerSteps
  <2>2. CASE SchedulerStep
    BY <1>1, <2>2, SchedulerSteps
  <2>3. CASE \E p \in Packets : AddPacketAsync(p)
    BY <1>1, <2>3, AddSteps
  <2>4. CASE \E w \in Workers : WorkerStep(w)
    BY <1>1, <2>4, WorkerSteps
  <2>5. CASE Destroy
    BY <1>1, <2>5, DestroySteps
  <2>6. CASE UNCHANGED vars
    BY <1>1, <2>6, NothingSteps
  <2>7. CASE DestroyStreams
    BY <1>1, <2>7, StreamSteps
  <2>. QED
    BY <1>1, <2>1, <2>2, <2>3, <2>4, <2>5, <2>6, <2>7 DEF Next
<1>. QED
  BY <1>1, InitEstablishes, PTL DEF Spec

\* The flags, queues and places keep their types, and mtx_ has the holder that
\* the places of the callers say.
THEOREM TypeCorrect == Spec => []TypeOK
<1>1. IInv => TypeOK
  BY DEF IInv
<1>. QED
  BY <1>1, Invariant, PTL

\* A thread touches what ~GraphHelper destroyed only on behalf of a packet that
\* was in the table when Graph's members went, or of one whose stream only the
\* manager held, whatever the policy, the form of the callback, and the number of
\* threads, packets and calls of Stop.
THEOREM BadEndsAreOrphans == Spec => []OnlyOrphansEndBadly
<1>1. IInv => OnlyOrphansEndBadly
  BY DEF IInv
<1>. QED
  BY <1>1, Invariant, PTL

\* In a queue without two tasks of one packet, the packet's tasks number one or none.
LEMMA InQueueCounts ==
    ASSUME NEW s \in Seq(Tasks), NEW p, OnePerPacket(s)
    PROVE  InQueue(s, p) = IF Queues(s, p) THEN 1 ELSE 0
<1>. DEFINE S == {i \in DOMAIN s : s[i][1] = p}
<1>1. DOMAIN s = 1 .. Len(s)
  OBVIOUS
<1>2. CASE Queues(s, p)
  <2>1. PICK i \in 1 .. Len(s) : s[i][1] = p
    BY <1>2 DEF Queues
  <2>2. S = {i}
    BY <1>1, <2>1 DEF OnePerPacket
  <2>. QED
    BY <1>2, <2>2, FS_Singleton DEF InQueue
<1>3. CASE ~Queues(s, p)
  <2>1. S = {}
    BY <1>1, <1>3 DEF Queues
  <2>. QED
    BY <1>3, <2>1, FS_EmptySet DEF InQueue
<1>. QED
  BY <1>2, <1>3

\* The threads that have a task of the packet are one or none.
LEMMA InHandsCounts ==
    ASSUME NEW p, OneThreadPerPacket, \A w \in Workers : pc[w] # "dead"
    PROVE  InHands(p) = IF InHand(p) THEN 1 ELSE 0
<1>. DEFINE S == {w \in Workers : pc[w] \notin {"idle", "source"} /\ task[w][1] = p}
<1>1. CASE InHand(p)
  <2>1. PICK w \in Workers : Busy(w) /\ task[w][1] = p
    BY <1>1 DEF InHand
  <2>2. S = {w}
    BY <2>1 DEF OneThreadPerPacket, Busy
  <2>. QED
    BY <1>1, <2>2, FS_Singleton DEF InHands
<1>2. CASE ~InHand(p)
  <2>1. S = {}
    BY <1>2 DEF InHand, Busy
  <2>. QED
    BY <1>2, <2>1, FS_EmptySet DEF InHands
<1>. QED
  BY <1>1, <1>2

\* Stopping loses no task and runs none twice: in a whole graph the packets of
\* the table have exactly one task each, and no other packet has any.
THEOREM NoTaskIsLost == Spec => []EveryPacketHasItsTask
<1>1. ASSUME IInv PROVE EveryPacketHasItsTask
  <2>. SUFFICES ASSUME life = "whole", NEW p \in Packets
                PROVE  Places(p) = IF p \in table THEN 1 ELSE 0
    BY DEF EveryPacketHasItsTask
  <2>. USE DEF IInv
  <2>. DEFINE front == ready \o popped
              all   == front \o executor
  <2>1. ready \in Seq(Tasks) /\ popped \in Seq(Tasks) /\ executor \in Seq(Tasks)
    BY <1>1 DEF TypeOK
  <2>2. /\ front \in Seq(Tasks) /\ OnePerPacket(front)
        /\ \A q : Queues(front, q) <=> Queues(ready, q) \/ Queues(popped, q)
    <3>1. \A q \in Packets : ~(Queues(ready, q) /\ Queues(popped, q))
      BY <1>1 DEF OneQueuePerPacket
    <3>. QED
      BY <1>1, <2>1, <3>1, ConcatQueues DEF OneTaskPerQueue
  <2>. HIDE DEF front
  <2>3. /\ all \in Seq(Tasks) /\ OnePerPacket(all)
        /\ \A q : Queues(all, q) <=> Queues(front, q) \/ Queues(executor, q)
    <3>1. \A q \in Packets : ~(Queues(front, q) /\ Queues(executor, q))
      BY <1>1, <2>2 DEF OneQueuePerPacket
    <3>. QED
      BY <1>1, <2>1, <2>2, <3>1, ConcatQueues DEF OneTaskPerQueue
  <2>. HIDE DEF all
  <2>4. InQueue(all, p) = IF Queues(all, p) THEN 1 ELSE 0
    BY <2>3, InQueueCounts
  <2>5. InHands(p) = IF InHand(p) THEN 1 ELSE 0
    BY <1>1, InHandsCounts DEF DiesLater
  <2>6. Places(p) = (IF p \in adding THEN 1 ELSE 0) + InQueue(all, p) + InHands(p)
    BY DEF Places, Adding, all, front
  <2>7. ~(Queues(all, p) /\ InHand(p)) /\ (p \in adding => ~Queues(all, p) /\ ~InHand(p))
    BY <1>1, <2>2, <2>3 DEF OneQueuePerPacket
  <2>8. p \in table <=> p \in adding \/ Queues(all, p) \/ InHand(p)
    BY <1>1, <2>2, <2>3 DEF TableHasTasks, GraphIsWhole, HasTask
  <2>. QED
    BY <2>4, <2>5, <2>6, <2>7, <2>8
<1>. QED
  BY <1>1, Invariant, PTL

\* What is left of a queue when its first task is taken, all of it is kept, or
\* none, is one of its suffixes.
LEMMA RestIsSuffix ==
    ASSUME NEW s \in Seq(Tasks)
    PROVE  IsSuffix(s, s) /\ IsSuffix(<<>>, s) /\ (s # <<>> => IsSuffix(Tail(s), s))
<1>1. IsSuffix(s, s)
  BY DEF IsSuffix, IsPrefix, Reverse
<1>2. IsSuffix(<<>>, s)
  <2>1. /\ Len(Reverse(<<>>)) = 0 /\ Len(s) \in Nat
        /\ Len(Reverse(s)) = Len(s)
    BY DEF Reverse
  <2>2. SubSeq(Reverse(<<>>), 1, 0) = <<>> /\ SubSeq(Reverse(s), 1, 0) = <<>>
    OBVIOUS
  <2>. QED
    BY <2>1, <2>2 DEF IsSuffix, IsPrefix
<1>3. ASSUME s # <<>> PROVE IsSuffix(Tail(s), s)
  <2>. DEFINE t == Tail(s)
              n == Len(s)
              r == Reverse(s)
              q == Reverse(t)
  <2>1. /\ n \in Nat /\ n >= 1 /\ t \in Seq(Tasks) /\ Len(t) = n - 1
        /\ \A i \in 1 .. n - 1 : t[i] = s[i + 1]
    BY <1>3
  <2>2. /\ r = [i \in 1 .. n |-> s[(n - i) + 1]]
        /\ q = [i \in 1 .. n - 1 |-> t[((n - 1) - i) + 1]]
    BY <2>1 DEF Reverse
  <2>. HIDE DEF t, n, r, q
  <2>3. Len(r) = n /\ Len(q) = n - 1
    BY <2>1, <2>2
  <2>4. \A i \in 1 .. n - 1 : q[i] = r[i]
    <3>. TAKE i \in 1 .. n - 1
    <3>1. (n - 1) - i + 1 \in 1 .. n - 1 /\ i \in 1 .. n
          /\ ((n - 1) - i + 1) + 1 = (n - i) + 1
      BY <2>1
    <3>. QED
      BY <2>1, <2>2, <3>1
  <2>5. SubSeq(q, 1, n - 1) = SubSeq(r, 1, n - 1)
    BY <2>1, <2>3, <2>4
  <2>. QED
    BY <2>1, <2>3, <2>5 DEF IsSuffix, IsPrefix, t, r, q
<1>. QED
  BY <1>1, <1>2, <1>3

\* Once any call of Stop has returned, the executor gets no further task: its
\* threads may take what it has, and ~Graph may drop the rest.
THEOREM StopIsFinal == Spec => NothingHandedOverAfterStop
<1>1. ASSUME IInv, [Next]_vars, \E c \in Callers : At(c, "returned")
      PROVE  IsSuffix(executor', executor)
  <2>1. loop = "ended" /\ executor \in Seq(Tasks)
    BY <1>1 DEF IInv, ReturnsAfterLoop, TypeOK
  <2>2. \/ executor' = executor
        \/ executor # <<>> /\ executor' = Tail(executor)
        \/ executor' = <<>>
    <3>1. CASE \E c \in Callers : Only(StopCalled(c) \/ StopStep(c) \/ SpuriousWakeup(c) \/ TimeOut(c))
      BY <3>1 DEF Only
    <3>2. CASE SchedulerStep
      BY <2>1, <3>2 DEF SchedulerStep, TestStop, Top, HandOver, SetStopped, NotifyOne
    <3>3. CASE \E p \in Packets : AddPacketAsync(p)
      BY <3>3 DEF AddPacketAsync
    <3>4. CASE \E w \in Workers : WorkerStep(w)
      BY <3>4 DEF WorkerStep, Take, Start, AddTask, CallBack, Erase, LogSource
    <3>5. CASE Destroy
      BY <3>5 DEF Destroy, DestroyMembers, DestroyQueue, DestroyExecutor
    <3>6. CASE UNCHANGED vars
      BY <3>6 DEF vars
    <3>7. CASE DestroyStreams
      BY <3>7 DEF DestroyStreams
    <3>. QED
      BY <1>1, <3>1, <3>2, <3>3, <3>4, <3>5, <3>6, <3>7 DEF Next
  <2>. QED
    BY <2>1, <2>2, RestIsSuffix
<1>. QED
  BY <1>1, Invariant, PTL DEF Spec, NothingHandedOverAfterStop
=============================================================================
