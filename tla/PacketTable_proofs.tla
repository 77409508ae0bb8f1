------------------------- MODULE PacketTable_proofs -------------------------
(***************************************************************************)
(* Proofs about PacketTable, for any number of packets and any limit, as   *)
(* long as no two streams share an 8-bit stream id.                        *)
(***************************************************************************)
EXTENDS PacketTable, FiniteSetTheorems, TLAPS

\* The 8 bits of the stream id tell the streams apart.
NoCollision == NumStreams <= NumStreamIds

-----------------------------------------------------------------------------
(***************************************************************************)
(* The inductive invariant.  Where the threads stand with a packet decides *)
(* whether the table still has it, and a packet that left the table left   *)
(* its result with somebody.                                               *)
(***************************************************************************)

\* Every context is found under its own packet's id.
UnderOwnKey == \A k \in DOMAIN table : FullId(table[k]) = k

\* A packet the graph was not given yet has left no trace.
NotGivenYet ==
    \A p \in Packets :
        /\ call[p] = "new" => run[p] = "none"
        /\ run[p] = "none" => ~InTable(p) /\ p \notin finished /\ queried[p] = 0

WhileRunning ==
    \A p \in Packets :
        run[p] = "running" => InTable(p) /\ p \notin finished /\ queried[p] = 0

WhileErasing == \A p \in Packets : run[p] = "erase" => p \in calledBack

\* Only a result that was taken out of the table was returned by a query.
QueriedLeft ==
    \A p \in Packets : queried[p] = 0 \/ (queried[p] = 1 /\ ~InTable(p))

IInv ==
    /\ TypeOK
    /\ UnderOwnKey
    /\ NotGivenYet
    /\ WhileRunning
    /\ WhileErasing
    /\ QueriedLeft
    /\ NoResultLost

-----------------------------------------------------------------------------
(***************************************************************************)
(* The keys, and the two updates of the table.                             *)
(***************************************************************************)

\* InputPktId maps different packets to different keys.
LEMMA KeysAreDistinct ==
    ASSUME NoCollision
    PROVE  /\ \A p \in Packets : FullId(p) \in Keys
           /\ \A p, q \in Packets : FullId(p) = FullId(q) => p = q
<1>1. ASSUME NEW p \in Packets
      PROVE  p.stream \in 0 .. NumStreams - 1 /\ p.id \in 0 .. PktsPerStream - 1
             /\ p = [stream |-> p.stream, id |-> p.id]
  BY <1>1 DEF Packets
<1>2. ASSUME NEW s \in 0 .. NumStreams - 1
      PROVE  s % NumStreamIds = s /\ s \in 0 .. NumStreamIds - 1
  BY <1>2, PacketTableAssumption DEF NoCollision
<1>3. ASSUME NEW p \in Packets
      PROVE  FullId(p) = <<p.stream, p.id>> /\ p.stream \in 0 .. NumStreamIds - 1
  BY <1>1, <1>2 DEF FullId
<1>4. ASSUME NEW p \in Packets, NEW q \in Packets, FullId(p) = FullId(q)
      PROVE  p = q
  <2>1. p.stream = q.stream /\ p.id = q.id
    BY <1>3, <1>4
  <2>. QED
    BY <1>1, <2>1
<1>. QED
  BY <1>1, <1>3, <1>4 DEF Keys

\* packet_contexts_[k] = p changes what is found under k only.
LEMMA WithEffect ==
    ASSUME NEW k, NEW p, table' = With(k, p)
    PROVE  /\ DOMAIN table' = DOMAIN table \union {k}
           /\ table'[k] = p
           /\ \A j \in DOMAIN table : j # k => table'[j] = table[j]
BY DEF With

\* packet_contexts_.erase(k) removes what is found under k only.
LEMMA WithoutEffect ==
    ASSUME NEW k, table' = Without(k)
    PROVE  /\ DOMAIN table' = DOMAIN table \ {k}
           /\ \A j \in DOMAIN table' : table'[j] = table[j]
BY DEF Without

-----------------------------------------------------------------------------
(***************************************************************************)
(* Every step preserves the invariant.                                     *)
(***************************************************************************)

\* The application entering a packet, through AddPacket or AddPacketAsync.
LEMMA EnterKeeps ==
    ASSUME NoCollision, IInv, NEW p \in Packets, NEW next \in {"polling", "returned"},
           Enter(p, next)
    PROVE  IInv'
<1>. USE DEF IInv
<1>1. /\ call[p] = "new"
      /\ table' = With(FullId(p), p)
      /\ run' = [run EXCEPT ![p] = "running"]
      /\ call' = [call EXCEPT ![p] = next]
      /\ UNCHANGED <<hasCallback, finished, queried, calledBack>>
  BY DEF Enter
<1>2. /\ DOMAIN table' = DOMAIN table \union {FullId(p)}
      /\ table'[FullId(p)] = p
      /\ \A j \in DOMAIN table : j # FullId(p) => table'[j] = table[j]
  BY <1>1, WithEffect
<1>3. FullId(p) \in Keys
  BY KeysAreDistinct
<1>4. /\ run[p] = "none" /\ p \notin finished /\ queried[p] = 0
  BY <1>1 DEF NotGivenYet
<1>5. InTable(p)'
  BY <1>2 DEF InTable
<1>6. ASSUME NEW q \in Packets, q # p
      PROVE  /\ InTable(q)' <=> InTable(q)
             /\ run'[q] = run[q] /\ call'[q] = call[q] /\ queried'[q] = queried[q]
  <2>1. FullId(q) # FullId(p)
    BY <1>6, KeysAreDistinct
  <2>2. InTable(q)' <=> InTable(q)
    BY <1>2, <2>1 DEF InTable
  <2>. QED
    BY <1>1, <1>6, <2>2 DEF TypeOK
<1>7. run'[p] = "running" /\ call'[p] # "new" /\ queried'[p] = 0 /\ p \notin finished'
  BY <1>1, <1>4 DEF TypeOK
<1>8. TypeOK'
  BY <1>1, <1>2, <1>3 DEF TypeOK
<1>9. UnderOwnKey'
  BY <1>2 DEF UnderOwnKey
<1>10. NotGivenYet' /\ WhileRunning' /\ WhileErasing'
  BY <1>1, <1>5, <1>6, <1>7 DEF NotGivenYet, WhileRunning, WhileErasing
<1>11. QueriedLeft' /\ NoResultLost'
  BY <1>1, <1>5, <1>6, <1>7 DEF QueriedLeft, NoResultLost
<1>. QED
  BY <1>8, <1>9, <1>10, <1>11

\* A query taking a finished packet out of the table.
LEMMA GetResultKeepsInv ==
    ASSUME NoCollision, IInv, NEW k \in Keys, GetResult(k)
    PROVE  IInv'
<1>. USE DEF IInv
<1>0. k \in DOMAIN table /\ table[k] \in finished /\ table[k] \in Packets
  BY DEF GetResult, IsFinished, TypeOK
<1>. PICK p \in Packets : p = table[k]
  BY <1>0
<1>1. /\ k \in DOMAIN table
      /\ p \in finished
      /\ queried' = [queried EXCEPT ![p] = @ + 1]
      /\ table' = Without(k)
      /\ UNCHANGED <<hasCallback, finished, call, run, calledBack>>
  BY <1>0 DEF GetResult
<1>2. p \in Packets /\ FullId(p) = k /\ InTable(p)
  BY <1>1 DEF UnderOwnKey, InTable
<1>3. /\ DOMAIN table' = DOMAIN table \ {k}
      /\ \A j \in DOMAIN table' : table'[j] = table[j]
  BY <1>1, WithoutEffect
<1>4. ~InTable(p)'
  BY <1>2, <1>3 DEF InTable
<1>5. queried[p] = 0 /\ queried'[p] = 1
  BY <1>1, <1>2 DEF QueriedLeft, TypeOK
<1>6. ASSUME NEW q \in Packets, q # p
      PROVE  (InTable(q)' <=> InTable(q)) /\ queried'[q] = queried[q]
  <2>1. FullId(q) # k
    BY <1>2, <1>6, KeysAreDistinct
  <2>2. InTable(q)' <=> InTable(q)
    BY <1>3, <2>1 DEF InTable
  <2>. QED
    BY <1>1, <1>6, <2>2 DEF TypeOK
<1>7. run[p] # "running" /\ run[p] # "none"
  BY <1>1, <1>2 DEF WhileRunning, NotGivenYet
<1>8. TypeOK'
  <2>1. queried' \in [Packets -> Nat]
    BY <1>1, <1>2 DEF TypeOK
  <2>. QED
    BY <1>1, <1>3, <2>1 DEF TypeOK
<1>9. UnderOwnKey'
  BY <1>3 DEF UnderOwnKey
<1>10. NotGivenYet' /\ WhileRunning' /\ WhileErasing'
  BY <1>1, <1>6, <1>7 DEF NotGivenYet, WhileRunning, WhileErasing
<1>11. QueriedLeft' /\ NoResultLost'
  BY <1>1, <1>2, <1>4, <1>5, <1>6 DEF QueriedLeft, NoResultLost
<1>. QED
  BY <1>8, <1>9, <1>10, <1>11

\* The thread that ran the graph node erasing the packet.
LEMMA EraseKeeps ==
    ASSUME NoCollision, IInv, NEW p \in Packets, Erase(p)
    PROVE  IInv'
<1>. USE DEF IInv
<1>1. /\ run[p] = "erase"
      /\ table' = Without(FullId(p))
      /\ run' = [run EXCEPT ![p] = "done"]
      /\ UNCHANGED <<hasCallback, finished, call, queried, calledBack>>
  BY DEF Erase
<1>2. /\ DOMAIN table' = DOMAIN table \ {FullId(p)}
      /\ \A j \in DOMAIN table' : table'[j] = table[j]
  BY <1>1, WithoutEffect
<1>3. p \in calledBack
  BY <1>1 DEF WhileErasing
<1>4. ~InTable(p)' /\ run'[p] = "done" /\ call[p] # "new"
  BY <1>1, <1>2 DEF InTable, TypeOK, NotGivenYet
<1>5. ASSUME NEW q \in Packets, q # p
      PROVE  (InTable(q)' <=> InTable(q)) /\ run'[q] = run[q]
  <2>1. FullId(q) # FullId(p)
    BY <1>5, KeysAreDistinct
  <2>2. InTable(q)' <=> InTable(q)
    BY <1>2, <2>1 DEF InTable
  <2>. QED
    BY <1>1, <1>5, <2>2 DEF TypeOK
<1>6. TypeOK' /\ UnderOwnKey'
  BY <1>1, <1>2 DEF TypeOK, UnderOwnKey
<1>7. NotGivenYet' /\ WhileRunning' /\ WhileErasing'
  BY <1>1, <1>4, <1>5 DEF NotGivenYet, WhileRunning, WhileErasing
<1>8. QueriedLeft' /\ NoResultLost'
  BY <1>1, <1>3, <1>4, <1>5 DEF QueriedLeft, NoResultLost
<1>. QED
  BY <1>6, <1>7, <1>8

\* The steps that leave the table alone.
LEMMA OthersKeep ==
    ASSUME IInv, NEW p \in Packets,
           \/ FlowControl(p) \/ PollFinished(p) \/ PollTimesOut(p)
           \/ Finish(p) \/ CallBack(p)
    PROVE  IInv'
<1>. USE DEF IInv
<1>1. table' = table /\ queried' = queried
  BY DEF FlowControl, PollFinished, PollTimesOut, Finish, CallBack
<1>2. \A q \in Packets : InTable(q)' <=> InTable(q)
  BY <1>1 DEF InTable
<1>3. UnderOwnKey' /\ QueriedLeft'
  BY <1>1, <1>2 DEF UnderOwnKey, QueriedLeft
<1>4. CASE FlowControl(p) \/ PollFinished(p) \/ PollTimesOut(p)
  <2>1. /\ UNCHANGED <<hasCallback, finished, run, calledBack>>
        /\ \A q \in Packets : call'[q] = "new" => call[q] = "new"
    BY <1>4 DEF FlowControl, PollFinished, PollTimesOut, TypeOK
  <2>2. TypeOK'
    BY <1>1, <1>4 DEF FlowControl, PollFinished, PollTimesOut, TypeOK
  <2>3. NotGivenYet' /\ WhileRunning' /\ WhileErasing' /\ NoResultLost'
    BY <1>1, <1>2, <2>1 DEF NotGivenYet, WhileRunning, WhileErasing, NoResultLost
  <2>. QED
    BY <1>3, <2>2, <2>3
<1>5. CASE Finish(p)
  <2>1. /\ run[p] = "running"
        /\ finished' = finished \union {p}
        /\ run'[p] \in {"callback", "done"}
        /\ \A q \in Packets : q # p => run'[q] = run[q]
        /\ call' = call /\ calledBack' = calledBack
    BY <1>5 DEF Finish, TypeOK
  <2>2. InTable(p) /\ call[p] # "new"
    BY <2>1 DEF WhileRunning, NotGivenYet
  <2>3. TypeOK'
    BY <1>1, <1>5 DEF Finish, TypeOK
  <2>4. NotGivenYet' /\ WhileRunning' /\ WhileErasing' /\ NoResultLost'
    BY <1>1, <1>2, <2>1, <2>2 DEF NotGivenYet, WhileRunning, WhileErasing, NoResultLost
  <2>. QED
    BY <1>3, <2>3, <2>4
<1>6. CASE CallBack(p)
  <2>1. /\ run[p] = "callback"
        /\ calledBack' = calledBack \union {p}
        /\ run'[p] = "erase"
        /\ \A q \in Packets : q # p => run'[q] = run[q]
        /\ call' = call /\ finished' = finished
    BY <1>6 DEF CallBack, TypeOK
  <2>2. call[p] # "new"
    BY <2>1 DEF NotGivenYet
  <2>3. TypeOK'
    BY <1>1, <1>6 DEF CallBack, TypeOK
  <2>4. NotGivenYet' /\ WhileRunning' /\ WhileErasing' /\ NoResultLost'
    BY <1>1, <1>2, <2>1, <2>2 DEF NotGivenYet, WhileRunning, WhileErasing, NoResultLost
  <2>. QED
    BY <1>3, <2>3, <2>4
<1>. QED
  BY <1>4, <1>5, <1>6

\* The initial states of the table satisfy the invariant.
LEMMA InitEstablishes == ASSUME Init PROVE IInv
BY DEF Init, IInv, TypeOK, UnderOwnKey, NotGivenYet, WhileRunning, WhileErasing,
       QueriedLeft, NoResultLost, InTable

\* No step of any thread leaves the invariant.
LEMMA Inductive ==
    ASSUME NoCollision, IInv, [Next]_vars
    PROVE  IInv'
<1>1. CASE UNCHANGED vars
  BY <1>1 DEF vars, IInv, TypeOK, UnderOwnKey, NotGivenYet, WhileRunning, WhileErasing,
              QueriedLeft, NoResultLost, InTable
<1>2. ASSUME NEW p \in Packets, AddPacket(p) \/ AddPacketAsync(p)
      PROVE  IInv'
  BY <1>2, EnterKeeps DEF AddPacket, AddPacketAsync
<1>3. ASSUME NEW p \in Packets, Erase(p)
      PROVE  IInv'
  BY <1>3, EraseKeeps
<1>4. ASSUME NEW k \in Keys, GetResult(k)
      PROVE  IInv'
  BY <1>4, GetResultKeepsInv
<1>5. ASSUME NEW p \in Packets,
             \/ FlowControl(p) \/ PollFinished(p) \/ PollTimesOut(p)
             \/ Finish(p) \/ CallBack(p)
      PROVE  IInv'
  BY <1>5, OthersKeep
<1>. QED
  BY <1>1, <1>2, <1>3, <1>4, <1>5 DEF Next

-----------------------------------------------------------------------------
(***************************************************************************)
(* What follows.                                                           *)
(***************************************************************************)

\* The strengthening holds in every reachable state.
THEOREM Invariant == ASSUME NoCollision PROVE Spec => []IInv
<1>1. Init => IInv
  BY InitEstablishes
<1>2. IInv /\ [Next]_vars => IInv'
  BY Inductive
<1>. QED
  BY <1>1, <1>2, PTL DEF Spec

\* The table maps ids to packets, whatever the callers and threads do.
THEOREM TypeCorrect == ASSUME NoCollision PROVE Spec => []TypeOK
<1>1. IInv => TypeOK
  BY DEF IInv
<1>. QED
  BY <1>1, Invariant, PTL

\* RemovePacketContextIfFinished and GetResult never take the context of a
\* packet the graph still runs.
THEOREM RunningPacketsAreKept == ASSUME NoCollision PROVE Spec => []RunningIsKept
<1>1. IInv => RunningIsKept
  BY DEF IInv, WhileRunning, RunningIsKept
<1>. QED
  BY <1>1, Invariant, PTL

\* Between the callback and the queries no result is lost.
THEOREM ResultsAreKept == ASSUME NoCollision PROVE Spec => []NoResultLost
<1>1. IInv => NoResultLost
  BY DEF IInv
<1>. QED
  BY <1>1, Invariant, PTL

\* Two queries never return the same result.
THEOREM ResultsAreQueriedOnce == ASSUME NoCollision PROVE Spec => []QueriedOnce
<1>1. IInv => QueriedOnce
  BY DEF IInv, QueriedLeft, QueriedOnce
<1>. QED
  BY <1>1, Invariant, PTL

-----------------------------------------------------------------------------
(***************************************************************************)
(* Flow control needs neither of these: only that the table is finite.     *)
(***************************************************************************)

Limited == IsFiniteSet(DOMAIN table) /\ FlowLimited

\* A step adds one context at most, and only below the limit.
LEMMA LimitKept ==
    ASSUME Limited, [Next]_vars
    PROVE  Limited'
<1>. USE DEF Limited, FlowLimited
<1>1. Cardinality(DOMAIN table) \in Nat
  BY FS_CardinalityType
<1>2. ASSUME NEW p, NEW next, Enter(p, next)
      PROVE  Limited'
  <2>1. DOMAIN table' = DOMAIN table \union {FullId(p)}
    BY <1>2, WithEffect DEF Enter
  <2>2. Cardinality(DOMAIN table) < FlowLimit
    BY <1>2 DEF Enter, Accepts
  <2>3. /\ IsFiniteSet(DOMAIN table')
        /\ Cardinality(DOMAIN table') <= Cardinality(DOMAIN table) + 1
    BY <2>1, <1>1, FS_AddElement
  <2>4. Cardinality(DOMAIN table') \in Nat
    BY <2>3, FS_CardinalityType
  <2>. QED
    BY <1>1, <2>2, <2>3, <2>4, PacketTableAssumption
<1>3. ASSUME DOMAIN table' \subseteq DOMAIN table
      PROVE  Limited'
  <2>1. /\ IsFiniteSet(DOMAIN table')
        /\ Cardinality(DOMAIN table') <= Cardinality(DOMAIN table)
    BY <1>3, FS_Subset
  <2>2. Cardinality(DOMAIN table') \in Nat
    BY <2>1, FS_CardinalityType
  <2>. QED
    BY <1>1, <2>1, <2>2, PacketTableAssumption
<1>4. ASSUME NEW k, table' = Without(k)
      PROVE  Limited'
  BY <1>3, <1>4, WithoutEffect
<1>5. ASSUME table' = table
      PROVE  Limited'
  BY <1>3, <1>5
<1>. QED
  BY <1>2, <1>4, <1>5
     DEF Next, vars, AddPacket, AddPacketAsync, FlowControl, PollFinished, PollTimesOut,
         Finish, CallBack, Erase, GetResult

\* AddPacketContext's check and its insertion hold the lock together, so the
\* limit is never passed, however many threads add packets.
THEOREM FlowControlHolds == Spec => []FlowLimited
<1>1. Init => Limited
  <2>1. ASSUME Init PROVE DOMAIN table = {}
    BY <2>1 DEF Init
  <2>. QED
    BY <2>1, FS_EmptySet, PacketTableAssumption DEF Limited, FlowLimited
<1>2. Limited /\ [Next]_vars => Limited'
  BY LimitKept
<1>3. Limited => FlowLimited
  BY DEF Limited
<1>. QED
  BY <1>1, <1>2, <1>3, PTL DEF Spec
=============================================================================
