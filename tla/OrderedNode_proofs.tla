------------------------- MODULE OrderedNode_proofs -------------------------
(***************************************************************************)
(* Proofs about OrderedNode, for any number of packets and threads, when   *)
(* the int that stores the next packet id does not overflow.               *)
(***************************************************************************)
EXTENDS OrderedNode, OrderInformation_proofs

Contains(s, p) == \E i \in 1 .. Len(s) : s[i] = p
NoRepeats(s)   == \A i, j \in 1 .. Len(s) : s[i] = s[j] => i = j

\* A thread has packet p in hand: it neither handed it on nor let go of it.
Holding(w) == pc[w] \in {"next", "buffer", "process", "output", "setnext", "requeue"}

-----------------------------------------------------------------------------
(***************************************************************************)
(* The inductive invariant.  A packet with data is in exactly one place:   *)
(* the queue, the heap, one thread's hands, or behind the next id; and the *)
(* next id has passed a packet only when it was emitted or skipped.        *)
(***************************************************************************)

InQueueOnce ==
    /\ NoRepeats(queue)
    /\ \A p \in PktIds : Contains(queue, p) => upstream[p] # "none" /\ order.heap[p] = 0

InHeapOnce ==
    \A p \in PktIds :
        /\ order.heap[p] \in {0, 1}
        /\ p \in order.ctxs <=> order.heap[p] = 1
        /\ order.heap[p] = 1 => upstream[p] = "data"

InOneHand ==
    /\ \A w \in Workers : Holding(w) =>
        /\ task[w] \in PktIds
        /\ upstream[task[w]] = "data"
        /\ ~Contains(queue, task[w])
        /\ order.heap[task[w]] = 0
    /\ \A v, w \in Workers : Holding(v) /\ Holding(w) /\ task[v] = task[w] => v = w

ReadyHasData == \A p \in ready : upstream[p] = "data"

SkippedNeverSent ==
    /\ order.skip \subseteq skipped
    /\ \A p \in skipped : upstream[p] # "data"

NextInRange ==
    /\ order.next \in 0 .. NumPkts
    /\ ~order.known => order.next = 0

NextHasNotPassed ==
    /\ \A p \in PktIds : upstream[p] = "none" /\ p \notin skipped => order.next <= p
    /\ \A p \in PktIds : Contains(queue, p) /\ upstream[p] = "data" => order.next <= p
    /\ \A p \in PktIds : order.heap[p] = 1 => order.next <= p
    /\ \A w \in Workers : Holding(w) => order.next <= task[w]

WorkingOnNext ==
    \A w \in Workers : Working(w) => order.known /\ task[w] = order.next

EmittedBehindNext ==
    \A p \in PktIds : Contains(emitted, p) =>
        p < order.next \/ \E w \in Workers : pc[w] = "setnext" /\ task[w] = p

SetNextAfterEmit ==
    \A w \in Workers : pc[w] = "setnext" => Contains(emitted, task[w])

PassedIsSettled ==
    \A p \in PktIds : p < order.next => Contains(emitted, p) \/ p \in skipped

IInv ==
    /\ TypeOK
    /\ InQueueOnce
    /\ InHeapOnce
    /\ InOneHand
    /\ ReadyHasData
    /\ SkippedNeverSent
    /\ NextInRange
    /\ NextHasNotPassed
    /\ WorkingOnNext
    /\ EmittedBehindNext
    /\ SetNextAfterEmit
    /\ PassedIsSettled
    /\ NoNullContext

-----------------------------------------------------------------------------
(***************************************************************************)
(* The queue.                                                              *)
(***************************************************************************)

\* Adding a task at the end: it is in the queue, and only once if it was not.
LEMMA AppendContains ==
    ASSUME NEW S, NEW s \in Seq(S), NEW p \in S
    PROVE  /\ Append(s, p) \in Seq(S)
           /\ \A q : Contains(Append(s, p), q) <=> Contains(s, q) \/ q = p
           /\ NoRepeats(s) /\ ~Contains(s, p) => NoRepeats(Append(s, p))
<1>. DEFINE t == Append(s, p)
<1>1. /\ t \in Seq(S) /\ Len(t) = Len(s) + 1 /\ t[Len(s) + 1] = p
      /\ \A i \in 1 .. Len(s) : t[i] = s[i]
      /\ Len(s) \in Nat
  OBVIOUS
<1>2. ASSUME NEW q PROVE Contains(t, q) <=> Contains(s, q) \/ q = p
  <2>1. Contains(t, q) => Contains(s, q) \/ q = p
    BY <1>1 DEF Contains
  <2>2. Contains(s, q) => Contains(t, q)
    <3>1. ASSUME NEW i \in 1 .. Len(s), s[i] = q PROVE i \in 1 .. Len(t) /\ t[i] = q
      BY <1>1, <3>1
    <3>. QED
      BY <3>1 DEF Contains
  <2>3. Contains(t, p)
    <3>1. Len(s) + 1 \in 1 .. Len(t)
      BY <1>1
    <3>. QED
      BY <1>1, <3>1 DEF Contains
  <2>. QED
    BY <2>1, <2>2, <2>3
<1>3. NoRepeats(s) /\ ~Contains(s, p) => NoRepeats(t)
  BY <1>1 DEF Contains, NoRepeats
<1>. QED
  BY <1>1, <1>2, <1>3

\* Taking the first task: a packet that is queued once is not queued any more.
LEMMA TailContains ==
    ASSUME NEW S, NEW s \in Seq(S), s # <<>>
    PROVE  /\ Tail(s) \in Seq(S)
           /\ Head(s) \in S
           /\ Contains(s, Head(s))
           /\ \A q : Contains(Tail(s), q) => Contains(s, q)
           /\ NoRepeats(s) => NoRepeats(Tail(s)) /\ ~Contains(Tail(s), Head(s))
  BY DEF Contains, NoRepeats

-----------------------------------------------------------------------------
(***************************************************************************)
(* Every step preserves the invariant.                                     *)
(***************************************************************************)

\* No step of a thread, an upstream node or an announcement leaves the
\* invariant; one step of the proof per action.
LEMMA Inductive ==
    ASSUME NoOverflow, IInv, [Next]_vars PROVE IInv'
<1>. USE NumPktsAssumption DEF IInv
<1>1. ASSUME NEW p \in PktIds, Send(p)
      PROVE  IInv'
  <2>. USE <1>1
  <2>1. /\ queue' \in Seq(PktIds) /\ \A q : Contains(queue', q) <=> Contains(queue, q) \/ q = p
        /\ ~Contains(queue, p) => NoRepeats(queue')
    BY AppendContains DEF TypeOK, InQueueOnce, Send
  <2>2. ~Contains(queue, p) /\ order.heap[p] = 0
    BY DEF Send, InQueueOnce, InHeapOnce
  <2>3. /\ upstream[p] = "none" /\ p \notin skipped
        /\ upstream' = [upstream EXCEPT ![p] = "data"] /\ ready' = ready \union {p}
        /\ upstream'[p] = "data" /\ \A q \in PktIds \ {p} : upstream'[q] = upstream[q]
        /\ ready \subseteq PktIds
    BY DEF Send, TypeOK
  <2>4. UNCHANGED <<skipped, order, pc, task, emitted>>
    BY DEF Send, upVars, nodeVars
  <2>5. TypeOK'
    BY <2>1, <2>2, <2>3, <2>4 DEF TypeOK, Send, upVars, nodeVars, PktIds, PC
  <2>6. (NextInRange /\ WorkingOnNext /\ EmittedBehindNext /\ SetNextAfterEmit /\ PassedIsSettled /\ NoNullContext)'
    BY <2>4 DEF NextInRange, WorkingOnNext, EmittedBehindNext, SetNextAfterEmit,
       PassedIsSettled, NoNullContext, Working, Holding
  <2>7. InQueueOnce'
    BY <2>1, <2>2, <2>3, <2>4 DEF InQueueOnce, PktIds
  <2>8. InHeapOnce'
    BY <2>1, <2>2, <2>3, <2>4 DEF InHeapOnce, PktIds
  <2>9. InOneHand'
    BY <2>1, <2>2, <2>3, <2>4 DEF InOneHand, Holding, PktIds
  <2>10. ReadyHasData'
    BY <2>1, <2>2, <2>3, <2>4 DEF ReadyHasData, InHeapOnce, PktIds
  <2>11. SkippedNeverSent'
    BY <2>1, <2>2, <2>3, <2>4 DEF SkippedNeverSent, PktIds
  <2>12. NextHasNotPassed'
    BY <2>1, <2>2, <2>3, <2>4 DEF NextHasNotPassed, Holding, SkippedNeverSent,
       InHeapOnce, PktIds
  <2>. QED
    BY <2>5, <2>6, <2>7, <2>8, <2>9, <2>10, <2>11, <2>12
<1>2. ASSUME NEW p \in PktIds, SendEmpty(p)
      PROVE  IInv'
  <2>. USE <1>2
  <2>1. /\ queue' \in Seq(PktIds) /\ \A q : Contains(queue', q) <=> Contains(queue, q) \/ q = p
        /\ ~Contains(queue, p) => NoRepeats(queue')
    BY AppendContains DEF TypeOK, InQueueOnce, SendEmpty
  <2>2. ~Contains(queue, p) /\ order.heap[p] = 0
    BY DEF SendEmpty, InQueueOnce, InHeapOnce
  <2>3. /\ upstream[p] = "none"
        /\ upstream' = [upstream EXCEPT ![p] = "empty"]
        /\ upstream'[p] = "empty" /\ \A q \in PktIds \ {p} : upstream'[q] = upstream[q]
    BY DEF SendEmpty, TypeOK
  <2>4. UNCHANGED <<skipped, ready, order, pc, task, emitted>>
    BY DEF SendEmpty, upVars, nodeVars
  <2>5. TypeOK'
    BY <2>1, <2>2, <2>3, <2>4 DEF TypeOK, SendEmpty, upVars, nodeVars, PktIds, PC
  <2>6. (NextInRange /\ WorkingOnNext /\ EmittedBehindNext /\ SetNextAfterEmit /\ PassedIsSettled /\ NoNullContext)'
    BY <2>4 DEF NextInRange, WorkingOnNext, EmittedBehindNext, SetNextAfterEmit,
       PassedIsSettled, NoNullContext, Working, Holding
  <2>7. InQueueOnce'
    BY <2>1, <2>2, <2>3, <2>4 DEF InQueueOnce, PktIds
  <2>8. InHeapOnce'
    BY <2>1, <2>2, <2>3, <2>4 DEF InHeapOnce, PktIds
  <2>9. InOneHand'
    BY <2>1, <2>2, <2>3, <2>4 DEF InOneHand, Holding, PktIds
  <2>10. ReadyHasData'
    BY <2>1, <2>2, <2>3, <2>4 DEF ReadyHasData, InHeapOnce, PktIds
  <2>11. SkippedNeverSent'
    BY <2>1, <2>2, <2>3, <2>4 DEF SkippedNeverSent, PktIds
  <2>12. NextHasNotPassed'
    BY <2>1, <2>2, <2>3, <2>4 DEF NextHasNotPassed, Holding, SkippedNeverSent,
       InHeapOnce, PktIds
  <2>. QED
    BY <2>5, <2>6, <2>7, <2>8, <2>9, <2>10, <2>11, <2>12
<1>3. ASSUME NEW p \in PktIds, AnnounceSkip(p)
      PROVE  IInv'
  <2>. USE <1>3
  <2>1. /\ order' \in OrderRecord /\ order'.known = order.known /\ order'.next = order.next
        /\ order'.heap = order.heap /\ order'.ctxs = order.ctxs
        /\ order'.skip \subseteq order.skip \union {p}
    BY AddSkipLeaves DEF TypeOK, AnnounceSkip
  <2>2. upstream[p] = "none" /\ skipped' = skipped \union {p}
    BY DEF AnnounceSkip
  <2>3. UNCHANGED <<upstream, queue, ready, pc, task, emitted>>
    BY DEF AnnounceSkip, upVars, nodeVars
  <2>4. TypeOK'
    BY <2>1, <2>2, <2>3 DEF TypeOK, AnnounceSkip, upVars, nodeVars, PktIds, PC
  <2>5. (ReadyHasData /\ SetNextAfterEmit /\ NoNullContext)'
    BY <2>3 DEF ReadyHasData, SetNextAfterEmit, NoNullContext
  <2>6. InQueueOnce'
    BY <2>1, <2>2, <2>3 DEF InQueueOnce, PktIds
  <2>7. InHeapOnce'
    BY <2>1, <2>2, <2>3 DEF InHeapOnce, PktIds
  <2>8. InOneHand'
    BY <2>1, <2>2, <2>3 DEF InOneHand, Holding, PktIds
  <2>9. SkippedNeverSent'
    BY <2>1, <2>2, <2>3 DEF SkippedNeverSent, PktIds
  <2>10. NextInRange'
    BY <2>1, <2>2, <2>3 DEF NextInRange, PktIds
  <2>11. NextHasNotPassed'
    BY <2>1, <2>2, <2>3 DEF NextHasNotPassed, Holding, SkippedNeverSent, InHeapOnce, PktIds
  <2>12. WorkingOnNext'
    BY <2>1, <2>2, <2>3 DEF WorkingOnNext, Working, NextHasNotPassed, Holding, InOneHand,
       PktIds
  <2>13. EmittedBehindNext'
    BY <2>1, <2>2, <2>3 DEF EmittedBehindNext, PktIds
  <2>14. PassedIsSettled'
    BY <2>1, <2>2, <2>3 DEF PassedIsSettled, SkippedNeverSent, NextInRange, PktIds
  <2>. QED
    BY <2>4, <2>5, <2>6, <2>7, <2>8, <2>9, <2>10, <2>11, <2>12, <2>13, <2>14
<1>4. ASSUME NEW w \in Workers, TakeNotReady(w)
      PROVE  IInv'
  <2>. USE <1>4
  <2>1. /\ queue' \in Seq(PktIds) /\ Head(queue) \in PktIds /\ Contains(queue, Head(queue))
        /\ \A q : Contains(queue', q) => Contains(queue, q)
        /\ NoRepeats(queue') /\ ~Contains(queue', Head(queue))
    BY TailContains DEF TypeOK, InQueueOnce, TakeNotReady
  <2>2. UNCHANGED <<upstream, skipped, ready, order, pc, task, emitted>>
    BY DEF TakeNotReady, upVars, nodeVars
  <2>3. TypeOK'
    BY <2>1, <2>2 DEF TypeOK, TakeNotReady, upVars, nodeVars, Goto, PktIds, PC
  <2>4. (InHeapOnce /\ ReadyHasData /\ SkippedNeverSent /\ NextInRange /\ WorkingOnNext /\ EmittedBehindNext /\ SetNextAfterEmit /\ PassedIsSettled /\ NoNullContext)'
    BY <2>2 DEF InHeapOnce, ReadyHasData, SkippedNeverSent, NextInRange, WorkingOnNext,
       EmittedBehindNext, SetNextAfterEmit, PassedIsSettled, NoNullContext, Working,
       Holding
  <2>5. InQueueOnce'
    BY <2>1, <2>2 DEF InQueueOnce, PktIds
  <2>6. InOneHand'
    BY <2>1, <2>2 DEF InOneHand, Holding, PktIds
  <2>7. NextHasNotPassed'
    BY <2>1, <2>2 DEF NextHasNotPassed, Holding, SkippedNeverSent, InHeapOnce, PktIds
  <2>. QED
    BY <2>3, <2>4, <2>5, <2>6, <2>7
<1>5. ASSUME NEW w \in Workers, Take(w)
      PROVE  IInv'
  <2>. USE <1>5
  <2>1. /\ queue' \in Seq(PktIds) /\ Head(queue) \in PktIds /\ Contains(queue, Head(queue))
        /\ \A q : Contains(queue', q) => Contains(queue, q)
        /\ NoRepeats(queue') /\ ~Contains(queue', Head(queue))
    BY TailContains DEF TypeOK, InQueueOnce, Take
  <2>2. /\ pc[w] = "idle" /\ pc'[w] = "next" /\ task'[w] = Head(queue)
        /\ \A v \in Workers \ {w} : pc'[v] = pc[v] /\ task'[v] = task[v]
    BY DEF TypeOK, Take, Goto
  <2>3. /\ upstream[Head(queue)] = "data" /\ order.heap[Head(queue)] = 0
        /\ \A v \in Workers : Holding(v) => task[v] # Head(queue)
    BY <2>1 DEF ReadyHasData, InQueueOnce, InOneHand, Take
  <2>4. UNCHANGED <<upstream, skipped, ready, order, emitted>>
    BY DEF Take, upVars, nodeVars
  <2>5. TypeOK'
    BY <2>1, <2>2, <2>3, <2>4 DEF TypeOK, Take, upVars, nodeVars, Goto, PktIds, PC
  <2>6. (InHeapOnce /\ ReadyHasData /\ SkippedNeverSent /\ NextInRange /\ PassedIsSettled)'
    BY <2>4 DEF InHeapOnce, ReadyHasData, SkippedNeverSent, NextInRange, PassedIsSettled
  <2>7. InQueueOnce'
    BY <2>1, <2>2, <2>3, <2>4 DEF InQueueOnce, PktIds
  <2>8. InOneHand'
    BY <2>1, <2>2, <2>3, <2>4 DEF InOneHand, Holding, PktIds
  <2>9. NextHasNotPassed'
    BY <2>1, <2>2, <2>3, <2>4 DEF NextHasNotPassed, Holding, SkippedNeverSent,
       InHeapOnce, PktIds
  <2>10. WorkingOnNext'
    BY <2>1, <2>2, <2>3, <2>4 DEF WorkingOnNext, Working, NextHasNotPassed, Holding,
       InOneHand, PktIds
  <2>11. EmittedBehindNext'
    BY <2>1, <2>2, <2>3, <2>4 DEF EmittedBehindNext, PktIds
  <2>12. SetNextAfterEmit'
    BY <2>1, <2>2, <2>3, <2>4 DEF SetNextAfterEmit, PktIds
  <2>13. NoNullContext'
    BY <2>1, <2>2, <2>3, <2>4 DEF NoNullContext
  <2>. QED
    BY <2>5, <2>6, <2>7, <2>8, <2>9, <2>10, <2>11, <2>12, <2>13
<1>6. ASSUME NEW w \in Workers, GetNext(w)
      PROVE  IInv'
  <2>. USE <1>6
  <2>1. /\ order' \in OrderRecord /\ order'.known /\ order'.next \in 0 .. NumPkts
        /\ order.next <= order'.next
        /\ \A j \in order.next .. order'.next - 1 : j \in order.skip
        /\ order'.heap = order.heap /\ order'.ctxs = order.ctxs /\ order'.skip \subseteq order.skip
        /\ order'.next = NextPktId(order)
    BY GetNextLeaves DEF TypeOK, NextInRange, GetNext
  <2>2. \A j \in PktIds : order.next <= j /\ j \notin skipped => order'.next <= j
    BY <2>1 DEF SkippedNeverSent, PktIds, NextInRange
  <2>3. /\ task[w] \in PktIds /\ upstream[task[w]] = "data"
        /\ \A v \in Workers : Holding(v) => order'.next <= task[v]
    BY <2>2 DEF InOneHand, NextHasNotPassed, SkippedNeverSent, Holding, GetNext
  <2>4. /\ pc[w] = "next" /\ order'.next <= task[w]
        /\ \/ pc' = [pc EXCEPT ![w] = "buffer"]
           \/ pc' = [pc EXCEPT ![w] = "process"] /\ task[w] = order'.next
    BY <2>1, <2>3 DEF GetNext, Goto, PktIds, Holding
  <2>5. /\ \/ pc'[w] = "buffer"
           \/ pc'[w] = "process" /\ task[w] = order'.next
        /\ \A v \in Workers \ {w} : pc'[v] = pc[v]
        /\ pc' \in [Workers -> PC]
    BY <2>4 DEF TypeOK, PC
  <2>6. UNCHANGED <<upstream, skipped, queue, ready, task, emitted>>
    BY DEF GetNext, upVars, nodeVars
  <2>7. TypeOK'
    BY <2>1, <2>2, <2>3, <2>4, <2>5, <2>6 DEF TypeOK, GetNext, upVars, nodeVars, Goto,
       PktIds, PC
  <2>8. (ReadyHasData)'
    BY <2>6 DEF ReadyHasData
  <2>9. InQueueOnce'
    BY <2>1, <2>2, <2>3, <2>4, <2>5, <2>6 DEF InQueueOnce, PktIds
  <2>10. InHeapOnce'
    BY <2>1, <2>2, <2>3, <2>4, <2>5, <2>6 DEF InHeapOnce, PktIds
  <2>11. InOneHand'
    BY <2>1, <2>2, <2>3, <2>4, <2>5, <2>6 DEF InOneHand, Holding, PktIds
  <2>12. SkippedNeverSent'
    BY <2>1, <2>2, <2>3, <2>4, <2>5, <2>6 DEF SkippedNeverSent, PktIds
  <2>13. NextInRange'
    BY <2>1, <2>2, <2>3, <2>4, <2>5, <2>6 DEF NextInRange, PktIds
  <2>14. NextHasNotPassed'
    BY <2>1, <2>2, <2>3, <2>4, <2>5, <2>6 DEF NextHasNotPassed, Holding,
       SkippedNeverSent, InHeapOnce, PktIds, InOneHand, NextInRange
  <2>15. WorkingOnNext'
    BY <2>1, <2>2, <2>3, <2>4, <2>5, <2>6 DEF WorkingOnNext, Working, NextHasNotPassed,
       Holding, InOneHand, PktIds, NextInRange
  <2>16. EmittedBehindNext'
    BY <2>1, <2>2, <2>3, <2>4, <2>5, <2>6 DEF EmittedBehindNext, PktIds, NextInRange
  <2>17. SetNextAfterEmit'
    BY <2>1, <2>2, <2>3, <2>4, <2>5, <2>6 DEF SetNextAfterEmit, PktIds
  <2>18. PassedIsSettled'
    BY <2>1, <2>2, <2>3, <2>4, <2>5, <2>6 DEF PassedIsSettled, SkippedNeverSent,
       NextInRange, PktIds
  <2>19. NoNullContext'
    BY <2>1, <2>2, <2>3, <2>4, <2>5, <2>6 DEF NoNullContext
  <2>. QED
    BY <2>7, <2>8, <2>9, <2>10, <2>11, <2>12, <2>13, <2>14, <2>15, <2>16, <2>17, <2>18,
       <2>19
<1>7. ASSUME NEW w \in Workers, Buffer(w)
      PROVE  IInv'
  <2>. USE <1>7
  <2>1. /\ task[w] \in PktIds /\ upstream[task[w]] = "data" /\ ~Contains(queue, task[w]) /\ order.heap[task[w]] = 0
    BY DEF InOneHand, Holding, Buffer
  <2>2. /\ order' \in OrderRecord /\ order'.known = order.known /\ order'.next = order.next
        /\ order'.skip = order.skip /\ order'.ctxs = order.ctxs \union {task[w]}
        /\ order'.heap = [order.heap EXCEPT ![task[w]] = @ + 1]
    BY <2>1, HeapOperationsLeave DEF TypeOK, Buffer
  <2>3. /\ order'.heap[task[w]] = 1 /\ \A q \in PktIds \ {task[w]} : order'.heap[q] = order.heap[q]
    BY <2>1, <2>2 DEF TypeOK, OrderRecord
  <2>4. /\ pc[w] = "buffer" /\ pc'[w] = "drain" /\ task'[w] = task[w]
        /\ \A v \in Workers \ {w} : pc'[v] = pc[v] /\ task'[v] = task[v]
    BY DEF TypeOK, Buffer, Goto
  <2>5. UNCHANGED <<upstream, skipped, queue, ready, task, emitted>>
    BY DEF Buffer, upVars, nodeVars
  <2>6. TypeOK'
    BY <2>1, <2>2, <2>3, <2>4, <2>5 DEF TypeOK, Buffer, upVars, nodeVars, Goto, PktIds, PC
  <2>7. (ReadyHasData)'
    BY <2>5 DEF ReadyHasData
  <2>8. InQueueOnce'
    BY <2>1, <2>2, <2>3, <2>4, <2>5 DEF InQueueOnce, PktIds
  <2>9. InHeapOnce'
    BY <2>1, <2>2, <2>3, <2>4, <2>5 DEF InHeapOnce, PktIds
  <2>10. InOneHand'
    BY <2>1, <2>2, <2>3, <2>4, <2>5 DEF InOneHand, Holding, PktIds
  <2>11. SkippedNeverSent'
    BY <2>1, <2>2, <2>3, <2>4, <2>5 DEF SkippedNeverSent, PktIds
  <2>12. NextInRange'
    BY <2>1, <2>2, <2>3, <2>4, <2>5 DEF NextInRange, PktIds
  <2>13. NextHasNotPassed'
    BY <2>1, <2>2, <2>3, <2>4, <2>5 DEF NextHasNotPassed, Holding, SkippedNeverSent,
       InHeapOnce, PktIds
  <2>14. WorkingOnNext'
    BY <2>1, <2>2, <2>3, <2>4, <2>5 DEF WorkingOnNext, Working, NextHasNotPassed,
       Holding, InOneHand, PktIds
  <2>15. EmittedBehindNext'
    BY <2>1, <2>2, <2>3, <2>4, <2>5 DEF EmittedBehindNext, PktIds
  <2>16. SetNextAfterEmit'
    BY <2>1, <2>2, <2>3, <2>4, <2>5 DEF SetNextAfterEmit, PktIds
  <2>17. PassedIsSettled'
    BY <2>1, <2>2, <2>3, <2>4, <2>5 DEF PassedIsSettled, SkippedNeverSent, NextInRange,
       PktIds
  <2>18. NoNullContext'
    BY <2>1, <2>2, <2>3, <2>4, <2>5 DEF NoNullContext
  <2>. QED
    BY <2>6, <2>7, <2>8, <2>9, <2>10, <2>11, <2>12, <2>13, <2>14, <2>15, <2>16, <2>17, <2>18
<1>8. ASSUME NEW w \in Workers, Process(w)
      PROVE  IInv'
  <2>. USE <1>8
  <2>1. /\ pc[w] = "process" /\ pc'[w] = "output" /\ task'[w] = task[w]
        /\ \A v \in Workers \ {w} : pc'[v] = pc[v] /\ task'[v] = task[v]
    BY DEF TypeOK, Process, Goto
  <2>2. task[w] \in PktIds
    BY DEF InOneHand, Holding, Process
  <2>3. ready' \subseteq ready
    BY DEF Process
  <2>4. processed' \in Seq(PktIds)
    BY <2>2, AppendContains DEF TypeOK, Process
  <2>5. UNCHANGED <<upstream, skipped, queue, order, task, emitted>>
    BY DEF Process, upVars, nodeVars
  <2>6. TypeOK'
    BY <2>1, <2>2, <2>3, <2>4, <2>5 DEF TypeOK, Process, upVars, nodeVars, Goto, PktIds, PC
  <2>7. (InQueueOnce /\ InHeapOnce /\ SkippedNeverSent /\ NextInRange /\ PassedIsSettled)'
    BY <2>5 DEF InQueueOnce, InHeapOnce, SkippedNeverSent, NextInRange, PassedIsSettled
  <2>8. InOneHand'
    BY <2>1, <2>2, <2>3, <2>4, <2>5 DEF InOneHand, Holding, PktIds
  <2>9. ReadyHasData'
    BY <2>1, <2>2, <2>3, <2>4, <2>5 DEF ReadyHasData, InHeapOnce, PktIds
  <2>10. NextHasNotPassed'
    BY <2>1, <2>2, <2>3, <2>4, <2>5 DEF NextHasNotPassed, Holding, SkippedNeverSent,
       InHeapOnce, PktIds
  <2>11. WorkingOnNext'
    BY <2>1, <2>2, <2>3, <2>4, <2>5 DEF WorkingOnNext, Working, NextHasNotPassed,
       Holding, InOneHand, PktIds
  <2>12. EmittedBehindNext'
    BY <2>1, <2>2, <2>3, <2>4, <2>5 DEF EmittedBehindNext, PktIds
  <2>13. SetNextAfterEmit'
    BY <2>1, <2>2, <2>3, <2>4, <2>5 DEF SetNextAfterEmit, PktIds
  <2>14. NoNullContext'
    BY <2>1, <2>2, <2>3, <2>4, <2>5 DEF NoNullContext
  <2>. QED
    BY <2>6, <2>7, <2>8, <2>9, <2>10, <2>11, <2>12, <2>13, <2>14
<1>9. ASSUME NEW w \in Workers, CallBack(w)
      PROVE  IInv'
  <2>. USE <1>9
  <2>1. /\ pc[w] = "output" /\ pc'[w] = "setnext" /\ task'[w] = task[w]
        /\ \A v \in Workers \ {w} : pc'[v] = pc[v] /\ task'[v] = task[v]
    BY DEF TypeOK, CallBack, Goto
  <2>2. task[w] \in PktIds
    BY DEF InOneHand, Holding, CallBack
  <2>3. /\ emitted' \in Seq(PktIds)
        /\ \A q : Contains(emitted', q) <=> Contains(emitted, q) \/ q = task[w]
    BY <2>2, AppendContains DEF TypeOK, CallBack
  <2>4. UNCHANGED <<upstream, skipped, queue, ready, order, task>>
    BY DEF CallBack, upVars, nodeVars
  <2>5. TypeOK'
    BY <2>1, <2>2, <2>3, <2>4 DEF TypeOK, CallBack, upVars, nodeVars, Goto, PktIds, PC
  <2>6. (InQueueOnce /\ InHeapOnce /\ ReadyHasData /\ SkippedNeverSent /\ NextInRange)'
    BY <2>4 DEF InQueueOnce, InHeapOnce, ReadyHasData, SkippedNeverSent, NextInRange
  <2>7. InOneHand'
    BY <2>1, <2>2, <2>3, <2>4 DEF InOneHand, Holding, PktIds
  <2>8. NextHasNotPassed'
    BY <2>1, <2>2, <2>3, <2>4 DEF NextHasNotPassed, Holding, SkippedNeverSent,
       InHeapOnce, PktIds
  <2>9. WorkingOnNext'
    BY <2>1, <2>2, <2>3, <2>4 DEF WorkingOnNext, Working, NextHasNotPassed, Holding,
       InOneHand, PktIds
  <2>10. EmittedBehindNext'
    BY <2>1, <2>2, <2>3, <2>4 DEF EmittedBehindNext, PktIds
  <2>11. SetNextAfterEmit'
    BY <2>1, <2>2, <2>3, <2>4 DEF SetNextAfterEmit, PktIds
  <2>12. PassedIsSettled'
    BY <2>1, <2>2, <2>3, <2>4 DEF PassedIsSettled, SkippedNeverSent, NextInRange, PktIds
  <2>13. NoNullContext'
    BY <2>1, <2>2, <2>3, <2>4 DEF NoNullContext
  <2>. QED
    BY <2>5, <2>6, <2>7, <2>8, <2>9, <2>10, <2>11, <2>12, <2>13
<1>10. ASSUME NEW w \in Workers, NoOutput(w)
      PROVE  IInv'
  <2>. USE <1>10
  <2>1. /\ pc[w] = "output" /\ pc'[w] = "idle" /\ task'[w] = task[w]
        /\ \A v \in Workers \ {w} : pc'[v] = pc[v] /\ task'[v] = task[v]
    BY DEF TypeOK, NoOutput, Goto
  <2>2. UNCHANGED <<upstream, skipped, queue, ready, order, task, emitted>>
    BY DEF NoOutput, upVars, nodeVars
  <2>3. TypeOK'
    BY <2>1, <2>2 DEF TypeOK, NoOutput, upVars, nodeVars, Goto, PktIds, PC
  <2>4. (InQueueOnce /\ InHeapOnce /\ ReadyHasData /\ SkippedNeverSent /\ NextInRange /\ PassedIsSettled)'
    BY <2>2 DEF InQueueOnce, InHeapOnce, ReadyHasData, SkippedNeverSent, NextInRange,
       PassedIsSettled
  <2>5. InOneHand'
    BY <2>1, <2>2 DEF InOneHand, Holding, PktIds
  <2>6. NextHasNotPassed'
    BY <2>1, <2>2 DEF NextHasNotPassed, Holding, SkippedNeverSent, InHeapOnce, PktIds
  <2>7. WorkingOnNext'
    BY <2>1, <2>2 DEF WorkingOnNext, Working, NextHasNotPassed, Holding, InOneHand, PktIds
  <2>8. EmittedBehindNext'
    BY <2>1, <2>2 DEF EmittedBehindNext, PktIds
  <2>9. SetNextAfterEmit'
    BY <2>1, <2>2 DEF SetNextAfterEmit, PktIds
  <2>10. NoNullContext'
    BY <2>1, <2>2 DEF NoNullContext
  <2>. QED
    BY <2>3, <2>4, <2>5, <2>6, <2>7, <2>8, <2>9, <2>10
<1>11. ASSUME NEW w \in Workers, Propagate(w)
      PROVE  IInv'
  <2>. USE <1>11
  <2>1. /\ pc[w] = "output" /\ pc'[w] = "setnext" /\ task'[w] = task[w]
        /\ \A v \in Workers \ {w} : pc'[v] = pc[v] /\ task'[v] = task[v]
    BY DEF TypeOK, Propagate, Goto
  <2>2. task[w] \in PktIds
    BY DEF InOneHand, Holding, Propagate
  <2>3. /\ emitted' \in Seq(PktIds)
        /\ \A q : Contains(emitted', q) <=> Contains(emitted, q) \/ q = task[w]
    BY <2>2, AppendContains DEF TypeOK, Propagate
  <2>4. UNCHANGED <<upstream, skipped, queue, ready, order, task>>
    BY DEF Propagate, upVars, nodeVars
  <2>5. TypeOK'
    BY <2>1, <2>2, <2>3, <2>4 DEF TypeOK, Propagate, upVars, nodeVars, Goto, PktIds, PC
  <2>6. (InQueueOnce /\ InHeapOnce /\ ReadyHasData /\ SkippedNeverSent /\ NextInRange)'
    BY <2>4 DEF InQueueOnce, InHeapOnce, ReadyHasData, SkippedNeverSent, NextInRange
  <2>7. InOneHand'
    BY <2>1, <2>2, <2>3, <2>4 DEF InOneHand, Holding, PktIds
  <2>8. NextHasNotPassed'
    BY <2>1, <2>2, <2>3, <2>4 DEF NextHasNotPassed, Holding, SkippedNeverSent,
       InHeapOnce, PktIds
  <2>9. WorkingOnNext'
    BY <2>1, <2>2, <2>3, <2>4 DEF WorkingOnNext, Working, NextHasNotPassed, Holding,
       InOneHand, PktIds
  <2>10. EmittedBehindNext'
    BY <2>1, <2>2, <2>3, <2>4 DEF EmittedBehindNext, PktIds
  <2>11. SetNextAfterEmit'
    BY <2>1, <2>2, <2>3, <2>4 DEF SetNextAfterEmit, PktIds
  <2>12. PassedIsSettled'
    BY <2>1, <2>2, <2>3, <2>4 DEF PassedIsSettled, SkippedNeverSent, NextInRange, PktIds
  <2>13. NoNullContext'
    BY <2>1, <2>2, <2>3, <2>4 DEF NoNullContext
  <2>. QED
    BY <2>5, <2>6, <2>7, <2>8, <2>9, <2>10, <2>11, <2>12, <2>13
<1>12. ASSUME NEW w \in Workers, SetNext(w)
      PROVE  IInv'
  <2>. USE <1>12
  <2>1. /\ task[w] \in PktIds /\ upstream[task[w]] = "data" /\ task[w] = order.next /\ ~Contains(queue, task[w]) /\ order.heap[task[w]] = 0
    BY DEF InOneHand, Holding, Working, WorkingOnNext, SetNext
  <2>2. order' = AfterSetNextPktId(order, order.next + 1) /\ order.next + 1 \in 0 .. NumPkts
    BY <2>1 DEF SetNext, PktIds
  <2>3. /\ order' \in OrderRecord /\ order'.known /\ order'.next \in (order.next + 1) .. NumPkts
        /\ \A j \in (order.next + 1) .. order'.next - 1 : j \in order.skip
        /\ order'.heap = order.heap /\ order'.ctxs = order.ctxs /\ order'.skip \subseteq order.skip
    BY <2>2, SetNextLeaves DEF TypeOK
  <2>4. \A j \in PktIds \ {task[w]} : order.next <= j /\ j \notin skipped => order'.next <= j
    BY <2>1, <2>3 DEF SkippedNeverSent, PktIds
  <2>5. /\ pc[w] = "setnext" /\ pc'[w] \in {"idle", "drain"} /\ pc' \in [Workers -> PC]
        /\ \A v \in Workers \ {w} : pc'[v] = pc[v]
    BY DEF TypeOK, SetNext, Goto, PC
  <2>6. \A v \in Workers \ {w} : Holding(v) => task[v] # task[w]
    BY DEF InOneHand, Holding, SetNext
  <2>7. UNCHANGED <<upstream, skipped, queue, ready, task, emitted>>
    BY DEF SetNext, upVars, nodeVars
  <2>8. TypeOK'
    BY <2>1, <2>2, <2>3, <2>4, <2>5, <2>6, <2>7 DEF TypeOK, SetNext, upVars, nodeVars,
       Goto, PktIds, PC
  <2>9. (ReadyHasData)'
    BY <2>7 DEF ReadyHasData
  <2>10. InQueueOnce'
    BY <2>1, <2>2, <2>3, <2>4, <2>5, <2>6, <2>7 DEF InQueueOnce, PktIds
  <2>11. InHeapOnce'
    BY <2>1, <2>2, <2>3, <2>4, <2>5, <2>6, <2>7 DEF InHeapOnce, PktIds
  <2>12. InOneHand'
    BY <2>1, <2>2, <2>3, <2>4, <2>5, <2>6, <2>7 DEF InOneHand, Holding, PktIds
  <2>13. SkippedNeverSent'
    BY <2>1, <2>2, <2>3, <2>4, <2>5, <2>6, <2>7 DEF SkippedNeverSent, PktIds
  <2>14. NextInRange'
    BY <2>1, <2>2, <2>3, <2>4, <2>5, <2>6, <2>7 DEF NextInRange, PktIds
  <2>15. NextHasNotPassed'
    BY <2>1, <2>2, <2>3, <2>4, <2>5, <2>6, <2>7 DEF NextHasNotPassed, Holding,
       SkippedNeverSent, InHeapOnce, PktIds, InOneHand, NextInRange, WorkingOnNext
  <2>16. WorkingOnNext'
    BY <2>1, <2>2, <2>3, <2>4, <2>5, <2>6, <2>7 DEF WorkingOnNext, Working,
       NextHasNotPassed, Holding, InOneHand, PktIds
  <2>17. EmittedBehindNext'
    BY <2>1, <2>2, <2>3, <2>4, <2>5, <2>6, <2>7 DEF EmittedBehindNext, PktIds
  <2>18. SetNextAfterEmit'
    BY <2>1, <2>2, <2>3, <2>4, <2>5, <2>6, <2>7 DEF SetNextAfterEmit, PktIds
  <2>19. PassedIsSettled'
    BY <2>1, <2>2, <2>3, <2>4, <2>5, <2>6, <2>7 DEF PassedIsSettled, SkippedNeverSent,
       NextInRange, PktIds, SetNextAfterEmit
  <2>20. NoNullContext'
    BY <2>1, <2>2, <2>3, <2>4, <2>5, <2>6, <2>7 DEF NoNullContext
  <2>. QED
    BY <2>8, <2>9, <2>10, <2>11, <2>12, <2>13, <2>14, <2>15, <2>16, <2>17, <2>18, <2>19,
       <2>20
<1>13. ASSUME NEW w \in Workers, TakeSmallest(w)
      PROVE  IInv'
  <2>. USE <1>13
  <2>1. PICK p \in PktIds :
            /\ HasSmallestUnprocessedPkt(order, p)
            /\ order' = AfterGetSmallestUnprocessedPkt(order, p)
            /\ task' = [task EXCEPT ![w] = p]
            /\ Goto(w, IF SmallestHasContext(order, p) THEN "requeue" ELSE "dead")
    BY DEF TakeSmallest
  <2>2. /\ order.heap[p] = 1 /\ p \in order.ctxs /\ upstream[p] = "data" /\ ~Contains(queue, p)
    BY <2>1 DEF HasSmallestUnprocessedPkt, InHeapOnce, InQueueOnce
  <2>3. /\ pc[w] = "drain" /\ pc'[w] = "requeue" /\ task'[w] = p
        /\ \A v \in Workers \ {w} : pc'[v] = pc[v] /\ task'[v] = task[v]
    BY <2>1, <2>2 DEF TypeOK, TakeSmallest, Goto, SmallestHasContext
  <2>4. /\ order \in OrderRecord /\ order.heap[p] > 0
        /\ order' = AfterGetSmallestUnprocessedPkt(order, p)
    BY <2>1, <2>2 DEF TypeOK
  <2>5. /\ order' \in OrderRecord /\ order'.known = order.known /\ order'.next = order.next
        /\ order'.skip = order.skip /\ order'.ctxs = order.ctxs \ {p}
        /\ order'.heap = [order.heap EXCEPT ![p] = @ - 1]
    BY <2>4, HeapOperationsLeave
  <2>6. /\ order'.heap[p] = 0 /\ \A q \in PktIds \ {p} : order'.heap[q] = order.heap[q]
    BY <2>2, <2>4, <2>5 DEF OrderRecord
  <2>7. \A v \in Workers \ {w} : Holding(v) => task[v] # p
    BY <2>2 DEF InOneHand, Holding
  <2>8. UNCHANGED <<upstream, skipped, queue, ready, emitted>>
    BY DEF TakeSmallest, upVars, nodeVars
  <2>9. TypeOK'
    BY <2>1, <2>2, <2>3, <2>4, <2>5, <2>6, <2>7, <2>8 DEF TypeOK, upVars, nodeVars, Goto,
       PktIds, PC, TakeSmallest
  <2>10. (ReadyHasData)'
    BY <2>8 DEF ReadyHasData
  <2>11. InQueueOnce'
    BY <2>1, <2>2, <2>3, <2>4, <2>5, <2>6, <2>7, <2>8 DEF InQueueOnce, PktIds
  <2>12. InHeapOnce'
    BY <2>1, <2>2, <2>3, <2>4, <2>5, <2>6, <2>7, <2>8 DEF InHeapOnce, PktIds
  <2>13. InOneHand'
    BY <2>1, <2>2, <2>3, <2>4, <2>5, <2>6, <2>7, <2>8 DEF InOneHand, Holding, PktIds
  <2>14. SkippedNeverSent'
    BY <2>1, <2>2, <2>3, <2>4, <2>5, <2>6, <2>7, <2>8 DEF SkippedNeverSent, PktIds
  <2>15. NextInRange'
    BY <2>1, <2>2, <2>3, <2>4, <2>5, <2>6, <2>7, <2>8 DEF NextInRange, PktIds
  <2>16. NextHasNotPassed'
    BY <2>1, <2>2, <2>3, <2>4, <2>5, <2>6, <2>7, <2>8 DEF NextHasNotPassed, Holding,
       SkippedNeverSent, InHeapOnce, PktIds
  <2>17. WorkingOnNext'
    BY <2>1, <2>2, <2>3, <2>4, <2>5, <2>6, <2>7, <2>8 DEF WorkingOnNext, Working,
       NextHasNotPassed, Holding, InOneHand, PktIds
  <2>18. EmittedBehindNext'
    BY <2>1, <2>2, <2>3, <2>4, <2>5, <2>6, <2>7, <2>8 DEF EmittedBehindNext, PktIds
  <2>19. SetNextAfterEmit'
    BY <2>1, <2>2, <2>3, <2>4, <2>5, <2>6, <2>7, <2>8 DEF SetNextAfterEmit, PktIds
  <2>20. PassedIsSettled'
    BY <2>1, <2>2, <2>3, <2>4, <2>5, <2>6, <2>7, <2>8 DEF PassedIsSettled,
       SkippedNeverSent, NextInRange, PktIds
  <2>21. NoNullContext'
    BY <2>1, <2>2, <2>3, <2>4, <2>5, <2>6, <2>7, <2>8 DEF NoNullContext
  <2>. QED
    BY <2>9, <2>10, <2>11, <2>12, <2>13, <2>14, <2>15, <2>16, <2>17, <2>18, <2>19, <2>20,
       <2>21
<1>14. ASSUME NEW w \in Workers, Requeue(w)
      PROVE  IInv'
  <2>. USE <1>14
  <2>1. /\ task[w] \in PktIds /\ upstream[task[w]] = "data" /\ ~Contains(queue, task[w]) /\ order.heap[task[w]] = 0
    BY DEF InOneHand, Holding, Requeue
  <2>2. /\ queue' \in Seq(PktIds) /\ \A q : Contains(queue', q) <=> Contains(queue, q) \/ q = task[w]
        /\ ~Contains(queue, task[w]) => NoRepeats(queue')
    BY <2>1, AppendContains DEF TypeOK, InQueueOnce, Requeue
  <2>3. /\ pc[w] = "requeue" /\ pc'[w] = "drain" /\ task'[w] = task[w]
        /\ \A v \in Workers \ {w} : pc'[v] = pc[v] /\ task'[v] = task[v]
    BY DEF TypeOK, Requeue, Goto
  <2>4. \A v \in Workers \ {w} : Holding(v) => task[v] # task[w]
    BY DEF InOneHand, Holding, Requeue
  <2>5. UNCHANGED <<upstream, skipped, ready, order, task, emitted>>
    BY DEF Requeue, upVars, nodeVars
  <2>6. TypeOK'
    BY <2>1, <2>2, <2>3, <2>4, <2>5 DEF TypeOK, Requeue, upVars, nodeVars, Goto, PktIds, PC
  <2>7. (InHeapOnce /\ ReadyHasData /\ SkippedNeverSent /\ NextInRange /\ PassedIsSettled)'
    BY <2>5 DEF InHeapOnce, ReadyHasData, SkippedNeverSent, NextInRange, PassedIsSettled
  <2>8. InQueueOnce'
    BY <2>1, <2>2, <2>3, <2>4, <2>5 DEF InQueueOnce, PktIds
  <2>9. InOneHand'
    BY <2>1, <2>2, <2>3, <2>4, <2>5 DEF InOneHand, Holding, PktIds
  <2>10. NextHasNotPassed'
    BY <2>1, <2>2, <2>3, <2>4, <2>5 DEF NextHasNotPassed, Holding, SkippedNeverSent,
       InHeapOnce, PktIds
  <2>11. WorkingOnNext'
    BY <2>1, <2>2, <2>3, <2>4, <2>5 DEF WorkingOnNext, Working, NextHasNotPassed,
       Holding, InOneHand, PktIds
  <2>12. EmittedBehindNext'
    BY <2>1, <2>2, <2>3, <2>4, <2>5 DEF EmittedBehindNext, PktIds
  <2>13. SetNextAfterEmit'
    BY <2>1, <2>2, <2>3, <2>4, <2>5 DEF SetNextAfterEmit, PktIds
  <2>14. NoNullContext'
    BY <2>1, <2>2, <2>3, <2>4, <2>5 DEF NoNullContext
  <2>. QED
    BY <2>6, <2>7, <2>8, <2>9, <2>10, <2>11, <2>12, <2>13, <2>14
<1>15. ASSUME NEW w \in Workers, EndDrain(w)
      PROVE  IInv'
  <2>. USE <1>15
  <2>1. /\ pc[w] = "drain" /\ pc'[w] = "idle" /\ task'[w] = task[w]
        /\ \A v \in Workers \ {w} : pc'[v] = pc[v] /\ task'[v] = task[v]
    BY DEF TypeOK, EndDrain, Goto
  <2>2. UNCHANGED <<upstream, skipped, queue, ready, order, task, emitted>>
    BY DEF EndDrain, upVars, nodeVars
  <2>3. TypeOK'
    BY <2>1, <2>2 DEF TypeOK, EndDrain, upVars, nodeVars, Goto, PktIds, PC
  <2>4. (InQueueOnce /\ InHeapOnce /\ ReadyHasData /\ SkippedNeverSent /\ NextInRange /\ PassedIsSettled)'
    BY <2>2 DEF InQueueOnce, InHeapOnce, ReadyHasData, SkippedNeverSent, NextInRange,
       PassedIsSettled
  <2>5. InOneHand'
    BY <2>1, <2>2 DEF InOneHand, Holding, PktIds
  <2>6. NextHasNotPassed'
    BY <2>1, <2>2 DEF NextHasNotPassed, Holding, SkippedNeverSent, InHeapOnce, PktIds
  <2>7. WorkingOnNext'
    BY <2>1, <2>2 DEF WorkingOnNext, Working, NextHasNotPassed, Holding, InOneHand, PktIds
  <2>8. EmittedBehindNext'
    BY <2>1, <2>2 DEF EmittedBehindNext, PktIds
  <2>9. SetNextAfterEmit'
    BY <2>1, <2>2 DEF SetNextAfterEmit, PktIds
  <2>10. NoNullContext'
    BY <2>1, <2>2 DEF NoNullContext
  <2>. QED
    BY <2>3, <2>4, <2>5, <2>6, <2>7, <2>8, <2>9, <2>10
<1>16. CASE UNCHANGED vars
  BY <1>16 DEF vars, upVars, nodeVars, Holding, Working, TypeOK, InQueueOnce, InHeapOnce,
     InOneHand, ReadyHasData, SkippedNeverSent, NextInRange, NextHasNotPassed,
     WorkingOnNext, EmittedBehindNext, SetNextAfterEmit, PassedIsSettled, NoNullContext
<1>. QED
  BY <1>1, <1>2, <1>3, <1>4, <1>5, <1>6, <1>7, <1>8, <1>9, <1>10, <1>11, <1>12, <1>13,
     <1>14, <1>15, <1>16 DEF Next, Step

\* The initial states satisfy the invariant.
LEMMA InitEstablishes == ASSUME Init PROVE IInv
<1>1. EmptyOrder \in OrderRecord
  BY MaxIntAssumption DEF EmptyOrder, OrderRecord
<1>2. TypeOK
  BY <1>1 DEF Init, TypeOK, PC
<1>3. InQueueOnce /\ InHeapOnce /\ InOneHand /\ ReadyHasData
  BY DEF Init, InQueueOnce, InHeapOnce, InOneHand, ReadyHasData, EmptyOrder, Holding,
         Contains, NoRepeats
<1>4. SkippedNeverSent /\ NextInRange /\ NextHasNotPassed /\ WorkingOnNext
  BY NumPktsAssumption
     DEF Init, SkippedNeverSent, NextInRange, NextHasNotPassed, WorkingOnNext, EmptyOrder,
         Holding, Working, Contains, PktIds
<1>5. EmittedBehindNext /\ SetNextAfterEmit /\ PassedIsSettled /\ NoNullContext
  BY DEF Init, EmittedBehindNext, SetNextAfterEmit, PassedIsSettled, NoNullContext,
         EmptyOrder, Contains, PktIds
<1>. QED
  BY <1>2, <1>3, <1>4, <1>5 DEF IInv

\* The strengthening holds in every reachable state.
THEOREM Invariant == ASSUME NoOverflow PROVE Spec => []IInv
<1>1. Init => IInv
  BY InitEstablishes
<1>2. IInv /\ [Next]_vars => IInv'
  BY Inductive
<1>. QED
  BY <1>1, <1>2, PTL DEF Spec

-----------------------------------------------------------------------------
(***************************************************************************)
(* What follows from the invariant.                                        *)
(***************************************************************************)

\* Type correctness, for any number of packets and threads.
THEOREM TypeCorrect == ASSUME NoOverflow PROVE Spec => []TypeOK
<1>1. IInv => TypeOK
  BY DEF IInv
<1>. QED
  BY <1>1, Invariant, PTL

\* Two working threads both hold the next packet, which is in one hand only.
LEMMA OnlyOneWorks == IInv => OneAtATime
  BY DEF IInv, OneAtATime, WorkingOnNext, InOneHand, Working, Holding

\* The check of the next id and its update, in three separate critical
\* sections of OrderInformation, never let two threads process at once.
THEOREM MutualExclusion == ASSUME NoOverflow PROVE Spec => []OneAtATime
  BY OnlyOneWorks, Invariant, PTL

\* The drain loop never gets a null context for a buffered packet.
THEOREM ContextsAreKept == ASSUME NoOverflow PROVE Spec => []NoNullContext
<1>1. IInv => NoNullContext
  BY DEF IInv
<1>. QED
  BY <1>1, Invariant, PTL

-----------------------------------------------------------------------------
\* A thread that ends its round of the drain loop found nothing to take: the
\* packet whose turn it is would be the top of the heap.
LEMMA NextOnHeapIsSmallest ==
    ASSUME NoOverflow, IInv, NEW p \in PktIds,
           order.heap[p] > 0, order.known, ToInt(p) = order.next
    PROVE  HasSmallestUnprocessedPkt(order, p)
<1>1. NumPkts \in Nat /\ p \in 0 .. NumPkts
  BY NumPktsAssumption DEF PktIds
<1>2. p = order.next
  BY <1>1, IntIsWideEnough
<1>3. ASSUME NEW q \in PktIds, order.heap[q] > 0 PROVE p <= q
  <2>1. order.heap[q] = 1
    BY <1>3 DEF IInv, InHeapOnce
  <2>. QED
    BY <1>2, <2>1 DEF IInv, NextHasNotPassed
<1>. QED
  BY <1>3 DEF HasSmallestUnprocessedPkt

\* A thread that makes a packet of the heap the next one goes on to the drain
\* loop, and one that leaves the loop has emptied it: the steps that change
\* the record or leave the loop, one by one.
LEMMA StrandsNobody ==
    ASSUME NoOverflow, ~IsGraphNode, IInv, NoPacketStranded, [Next]_vars
    PROVE  NoPacketStranded'
<1>. DEFINE Looks(w) == pc[w] \in {"buffer", "drain", "requeue"}
<1>1. TypeOK /\ order \in OrderRecord
  BY DEF IInv, TypeOK
<1>2. ASSUME NEW w \in Workers, Looks(w)' PROVE NoPacketStranded'
  BY <1>2 DEF NoPacketStranded
<1>3. ASSUME UNCHANGED <<order.heap, order.known, order.next>>,
             \A w \in Workers : Looks(w) => Looks(w)'
      PROVE  NoPacketStranded'
  BY <1>3 DEF NoPacketStranded
<1>4. ASSUME NEW p \in PktIds, Send(p) \/ SendEmpty(p) PROVE NoPacketStranded'
  BY <1>4, <1>3 DEF Send, SendEmpty
<1>5. ASSUME NEW p \in PktIds, AnnounceSkip(p) PROVE NoPacketStranded'
  BY <1>1, <1>3, <1>5, AddSkipLeaves DEF AnnounceSkip
<1>6. ASSUME NEW w \in Workers,
             \/ TakeNotReady(w) \/ Take(w) \/ Process(w) \/ CallBack(w) \/ NoOutput(w)
             \/ Propagate(w)
      PROVE  NoPacketStranded'
  BY <1>1, <1>3, <1>6
     DEF TypeOK, TakeNotReady, Take, Process, CallBack, NoOutput, Propagate, Goto, nodeVars
<1>7. ASSUME NEW w \in Workers, GetNext(w) PROVE NoPacketStranded'
  <2>. DEFINE n == NextPktId(order)
  <2>1. /\ order' = AfterGetNextPktId(order)
        /\ order.next \in 0 .. NumPkts /\ (~order.known => order.next = 0)
        /\ task[w] \in PktIds /\ order.heap[task[w]] = 0
    BY <1>7 DEF GetNext, IInv, NextInRange, InOneHand, Holding
  <2>2. n \in 0 .. NumPkts /\ order'.next = n /\ order'.heap = order.heap
    BY <1>1, <2>1, GetNextLeaves
  <2>3. CASE n = task[w]
    <3>1. ASSUME NEW p \in PktIds, order'.heap[p] > 0, ToInt(p) = order'.next PROVE FALSE
      <4>1. p = n
        BY <2>2, <3>1, IntIsWideEnough, NumPktsAssumption DEF PktIds
      <4>. QED
        BY <2>1, <2>2, <2>3, <3>1, <4>1
    <3>. QED
      BY <3>1 DEF NoPacketStranded
  <2>4. CASE n # task[w]
    <3>1. pc'[w] \in {"buffer", "drain"}
      BY <1>1, <1>7, <2>4 DEF GetNext, Goto, TypeOK
    <3>. QED
      BY <1>2, <3>1
  <2>. QED
    BY <2>3, <2>4
<1>8. ASSUME NEW w \in Workers, Buffer(w) \/ SetNext(w) \/ Requeue(w) PROVE NoPacketStranded'
  <2>1. pc'[w] = "drain"
    BY <1>1, <1>8 DEF TypeOK, Buffer, SetNext, Requeue, Goto
  <2>. QED
    BY <1>2, <2>1
<1>9. ASSUME NEW w \in Workers, TakeSmallest(w) PROVE NoPacketStranded'
  <2>1. PICK p \in PktIds : /\ HasSmallestUnprocessedPkt(order, p)
                            /\ Goto(w, IF SmallestHasContext(order, p) THEN "requeue" ELSE "dead")
    BY <1>9 DEF TakeSmallest
  <2>2. SmallestHasContext(order, p)
    BY <2>1 DEF HasSmallestUnprocessedPkt, SmallestHasContext, IInv, InHeapOnce
  <2>3. pc'[w] = "requeue"
    BY <1>1, <2>1, <2>2 DEF TypeOK, Goto
  <2>. QED
    BY <1>2, <2>3
<1>10. ASSUME NEW w \in Workers, EndDrain(w) PROVE NoPacketStranded'
  <2>1. order' = order /\ \A p \in PktIds : ~HasSmallestUnprocessedPkt(order, p)
    BY <1>10 DEF EndDrain, nodeVars
  <2>. QED
    BY <2>1, NextOnHeapIsSmallest DEF NoPacketStranded
<1>11. CASE UNCHANGED vars
  BY <1>3, <1>11 DEF vars, nodeVars
<1>. QED
  BY <1>4, <1>5, <1>6, <1>7, <1>8, <1>9, <1>10, <1>11 DEF Next, Step

\* A packet whose turn it is never waits in the heap with no thread on its
\* way to look there.  (The graph node, whose threads return after they set
\* the next id, does strand packets.)
THEOREM NobodyIsStranded ==
    ASSUME NoOverflow, ~IsGraphNode PROVE Spec => []NoPacketStranded
<1>1. Init => NoPacketStranded
  BY DEF Init, NoPacketStranded, EmptyOrder
<1>2. IInv /\ NoPacketStranded /\ [Next]_vars => NoPacketStranded'
  BY StrandsNobody
<1>. QED
  BY <1>1, <1>2, Invariant, PTL DEF Spec

-----------------------------------------------------------------------------
\* What AfterGetNextPktId and AfterSetNextPktId store is never less than what
\* was there, because a thread that sets the next id holds the one before it.
LEMMA NextGrows ==
    ASSUME NoOverflow, IInv, [Next]_vars PROVE order'.next >= order.next
<1>1. TypeOK /\ NextInRange /\ order.next \in Nat
  BY DEF IInv, NextInRange
<1>2. ASSUME UNCHANGED order PROVE order'.next >= order.next
  BY <1>1, <1>2
<1>3. ASSUME NEW p \in PktIds, AnnounceSkip(p) PROVE order'.next = order.next
  BY <1>1, <1>3, AddSkipLeaves DEF AnnounceSkip, TypeOK
<1>4. ASSUME NEW w \in Workers, GetNext(w) PROVE order'.next >= order.next
  <2>1. order' = AfterGetNextPktId(order) /\ order \in OrderRecord
    BY <1>1, <1>4 DEF GetNext, TypeOK
  <2>. QED
    BY <2>1, <1>1, GetNextLeaves DEF NextInRange
<1>5. ASSUME NEW w \in Workers, Buffer(w) PROVE order'.next = order.next
  <2>1. task[w] \in PktIds /\ order \in OrderRecord
    BY <1>1, <1>5 DEF Buffer, IInv, InOneHand, Holding, TypeOK
  <2>. QED
    BY <2>1, <1>5, HeapOperationsLeave DEF Buffer
<1>6. ASSUME NEW w \in Workers, SetNext(w) PROVE order'.next >= order.next
  <2>1. /\ task[w] = order.next /\ order \in OrderRecord
        /\ order.next + 1 \in 0 .. NumPkts
    BY <1>1, <1>6, NumPktsAssumption
       DEF SetNext, IInv, WorkingOnNext, Working, InOneHand, Holding, TypeOK, PktIds
  <2>2. order' = AfterSetNextPktId(order, order.next + 1)
    BY <2>1, <1>6 DEF SetNext
  <2>3. order'.next \in (order.next + 1) .. NumPkts
    BY <2>1, <2>2, SetNextLeaves
  <2>. QED
    BY <2>3, <1>1
<1>7. ASSUME NEW w \in Workers, TakeSmallest(w) PROVE order'.next = order.next
  <2>1. PICK p \in PktIds : /\ HasSmallestUnprocessedPkt(order, p)
                            /\ order' = AfterGetSmallestUnprocessedPkt(order, p)
    BY <1>7 DEF TakeSmallest
  <2>2. order.heap[p] > 0 /\ order \in OrderRecord
    BY <2>1, <1>1 DEF HasSmallestUnprocessedPkt, TypeOK
  <2>. QED
    BY <2>1, <2>2, HeapOperationsLeave
<1>8. \/ UNCHANGED order
      \/ \E p \in PktIds : AnnounceSkip(p)
      \/ \E w \in Workers : GetNext(w) \/ Buffer(w) \/ SetNext(w) \/ TakeSmallest(w)
  BY DEF Next, Step, vars, nodeVars, Send, SendEmpty, TakeNotReady, Take, Process, CallBack,
         NoOutput, Propagate, Requeue, EndDrain
<1>. QED
  BY <1>1, <1>2, <1>3, <1>4, <1>5, <1>6, <1>7, <1>8

\* No step of any thread moves the next id back.
THEOREM NextIsMonotonic == ASSUME NoOverflow PROVE Spec => NextNeverDecreases
<1>1. IInv /\ [Next]_vars => [order.known => order'.next >= order.next]_vars
  BY NextGrows
<1>. QED
  BY <1>1, Invariant, PTL DEF Spec, NextNeverDecreases

-----------------------------------------------------------------------------
(***************************************************************************)
(* OrderedNode implements InOrderDelivery.                                 *)
(***************************************************************************)

\* The step that propagates a packet is a delivery of the abstract node.
LEMMA DeliverStep ==
    ASSUME IInv, NEW w \in Workers, pc[w] = "output",
           emitted' = Append(emitted, task[w]), UNCHANGED <<upstream, skipped>>
    PROVE  Abstract!Deliver(task[w])
<1>. DEFINE p == task[w]
<1>1. p \in PktIds /\ upstream[p] = "data" /\ p = order.next
  BY DEF IInv, InOneHand, Holding, WorkingOnNext, Working
<1>2. \A q \in PktIds : Contains(emitted, q) => q < p
  BY <1>1 DEF IInv, EmittedBehindNext, InOneHand, Holding, WorkingOnNext, Working
<1>3. \A q \in PktIds : q < p => Contains(emitted, q) \/ q \in skipped
  BY <1>1 DEF IInv, PassedIsSettled
<1>4. \A q : q \in Abstract!Delivered <=> Contains(emitted, q)
  BY DEF Abstract!Delivered, Contains
<1>5. \A q : q \in Abstract!Delivered => q \in PktIds
  BY DEF IInv, TypeOK, Abstract!Delivered
<1>6. p \notin Abstract!Delivered
  BY <1>1, <1>2, <1>4 DEF PktIds
<1>7. \A q \in Abstract!Delivered : q < p
  BY <1>2, <1>4, <1>5
<1>8. \A q \in PktIds : q < p => q \in Abstract!Delivered \union skipped
  BY <1>3, <1>4
<1>. QED
  BY <1>1, <1>6, <1>7, <1>8 DEF Abstract!Deliver

\* Every step is an abstract offer, skip or delivery, or changes nothing of it.
LEMMA StepSimulates ==
    ASSUME NoOverflow, IInv, [Next]_vars PROVE [Abstract!Next]_(Abstract!vars)
<1>1. ASSUME NEW p \in PktIds, Send(p) PROVE Abstract!Offer(p)
  BY <1>1 DEF Send, Abstract!Offer, IInv, TypeOK
<1>2. ASSUME NEW p \in PktIds, AnnounceSkip(p) PROVE Abstract!Skip(p)
  BY <1>2 DEF AnnounceSkip, Abstract!Skip
<1>3. ASSUME NEW w \in Workers, CallBack(w) \/ Propagate(w)
      PROVE  \E p \in PktIds : Abstract!Deliver(p)
  <2>1. /\ pc[w] = "output" /\ emitted' = Append(emitted, task[w])
        /\ UNCHANGED <<upstream, skipped>> /\ task[w] \in PktIds
    BY <1>3 DEF CallBack, Propagate, upVars, IInv, InOneHand, Holding
  <2>. QED
    BY <2>1, DeliverStep
<1>4. ASSUME NEW p \in PktIds, SendEmpty(p) PROVE UNCHANGED Abstract!vars
  BY <1>4 DEF SendEmpty, Abstract!vars, IInv, TypeOK
<1>5. ASSUME UNCHANGED <<upstream, skipped, emitted>> PROVE UNCHANGED Abstract!vars
  BY <1>5 DEF Abstract!vars
<1>6. \/ UNCHANGED <<upstream, skipped, emitted>>
      \/ \E p \in PktIds : Send(p) \/ SendEmpty(p) \/ AnnounceSkip(p)
      \/ \E w \in Workers : CallBack(w) \/ Propagate(w)
  BY DEF Next, Step, vars, upVars, TakeNotReady, Take, GetNext, Buffer, Process, NoOutput,
         SetNext, TakeSmallest, Requeue, EndDrain
<1>. QED
  BY <1>1, <1>2, <1>3, <1>4, <1>5, <1>6 DEF Abstract!Next

\* The threads of OrderedNode deliver in order, once, and without gaps.
THEOREM ImplementsInOrderDelivery == ASSUME NoOverflow PROVE Spec => InOrder
<1>1. Init => Abstract!Init
  BY DEF Init, Abstract!Init
<1>2. IInv /\ [Next]_vars => [Abstract!Next]_(Abstract!vars)
  BY StepSimulates
<1>. QED
  BY <1>1, <1>2, Invariant, PTL DEF Spec, InOrder, Abstract!Spec
=============================================================================
