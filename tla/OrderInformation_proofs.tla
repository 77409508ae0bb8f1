----------------------- MODULE OrderInformation_proofs -----------------------
(***************************************************************************)
(* What the operators of OrderInformation return and leave, for the proofs *)
(* about the modules that use them: OrderedNode and AsyncGraph.            *)
(***************************************************************************)
EXTENDS OrderInformation, FiniteSetTheorems, TLAPS

\* Packet ids stay below 2^31, what the int that holds the next id can store.
NoOverflow == NumPkts < MaxInt

\* Every non-empty set of naturals has a least element.
LEMMA LeastNatural ==
    ASSUME NEW T \in SUBSET Nat, T # {}
    PROVE  \E m \in T : \A k \in T : m <= k
<1>. DEFINE Prefixes == {0 .. k : k \in T}
<1>1. Prefixes \subseteq FiniteSubsetsOf(Nat) /\ Prefixes # {}
  <2>1. ASSUME NEW k \in T PROVE IsFiniteSet(0 .. k) /\ 0 .. k \subseteq Nat
    <3>1. 0 \in Int /\ k \in Int
      OBVIOUS
    <3>2. IsFiniteSet(0 .. k)
      BY <3>1, FS_Interval
    <3>. QED
      BY <3>2
  <2>. QED
    BY <2>1 DEF FiniteSubsetsOf
<1>2. \E A \in Prefixes : \A B \in Prefixes : ~(<<B, A>> \in StrictSubsetOrdering(Nat))
  <2>. HIDE DEF Prefixes
  <2>. QED
    BY <1>1, FS_StrictSubsetOrderingWellFounded, WFMin
<1>3. PICK m \in T : \A k \in T : ~(<<0 .. k, 0 .. m>> \in StrictSubsetOrdering(Nat))
  BY <1>2
<1>4. ASSUME NEW k \in T, k < m PROVE FALSE
  <2>1. 0 .. k \subseteq 0 .. m /\ m \in 0 .. m /\ m \notin 0 .. k
    BY <1>4
  <2>2. 0 .. k # 0 .. m /\ 0 .. k \in SUBSET Nat /\ 0 .. m \in SUBSET Nat
    BY <2>1
  <2>3. <<0 .. k, 0 .. m>> \in StrictSubsetOrdering(Nat)
    BY <2>1, <2>2, Zenon DEF StrictSubsetOrdering
  <2>. QED
    BY <1>3, <2>3
<1>. QED
  BY <1>4

\* PastSkipped stops at the first id that is not in the skip set.
LEMMA PastSkippedIsFirst ==
    ASSUME NEW skip \in SUBSET PktIds, NEW u \in 0 .. NumPkts
    PROVE  /\ PastSkipped(u, skip) \in u .. NumPkts
           /\ PastSkipped(u, skip) \notin skip
           /\ \A j \in u .. PastSkipped(u, skip) - 1 : j \in skip
<1>. DEFINE T == {k \in u .. NumPkts : k \notin skip}
            Q(k) == k \notin skip /\ \A j \in u .. k - 1 : j \in skip
<1>1. NumPkts \in Nat
  BY NumPktsAssumption
<1>2. NumPkts \in T /\ T \subseteq Nat
  BY <1>1 DEF PktIds
<1>3. PICK m \in T : \A k \in T : m <= k
  BY <1>2, LeastNatural
<1>4. CASE u \in skip
  <2>1. m \in (u + 1) .. NumPkts /\ Q(m)
    BY <1>1, <1>3, <1>4
  <2>2. PastSkipped(u, skip) = CHOOSE k \in (u + 1) .. NumPkts : Q(k)
    BY <1>4 DEF PastSkipped
  <2>3. PastSkipped(u, skip) \in (u + 1) .. NumPkts /\ Q(PastSkipped(u, skip))
    BY <2>1, <2>2
  <2>. QED
    BY <2>3, <1>1
<1>5. CASE u \notin skip
  BY <1>5, <1>1 DEF PastSkipped
<1>. QED
  BY <1>4, <1>5

\* Without overflow the int holds every id, and the id after the last one.
LEMMA IntIsWideEnough ==
    ASSUME NoOverflow, NEW u \in 0 .. NumPkts
    PROVE  /\ ToInt(u) = u
           /\ ToUint(u) = u
           /\ u \in (-MaxInt) .. (MaxInt - 1)
<1>1. (u + MaxInt) % (2 * MaxInt) = u + MaxInt
  BY NumPktsAssumption, MaxIntAssumption DEF NoOverflow
<1>. QED
  BY <1>1, NumPktsAssumption, MaxIntAssumption DEF NoOverflow, ToInt, ToUint

\* What GetNextPktId returns and leaves.
LEMMA GetNextLeaves ==
    ASSUME NoOverflow, NEW o \in OrderRecord,
           o.next \in 0 .. NumPkts, ~o.known => o.next = 0
    PROVE  LET n == NextPktId(o)
               r == AfterGetNextPktId(o)
           IN  /\ n \in 0 .. NumPkts /\ o.next <= n
               /\ \A j \in o.next .. n - 1 : j \in o.skip
               /\ r \in OrderRecord /\ r.known /\ r.next = n
               /\ r.heap = o.heap /\ r.ctxs = o.ctxs /\ r.skip \subseteq o.skip
<1>. DEFINE n == NextPktId(o)
            r == AfterGetNextPktId(o)
<1>1. o.skip \in SUBSET PktIds /\ ToUint(o.next) = o.next
  BY IntIsWideEnough DEF OrderRecord
<1>2. n \in 0 .. NumPkts /\ o.next <= n /\ \A j \in o.next .. n - 1 : j \in o.skip
  <2>1. CASE o.known
    BY <2>1, <1>1, PastSkippedIsFirst, NumPktsAssumption DEF NextPktId
  <2>2. CASE ~o.known
    BY <2>2, NumPktsAssumption DEF NextPktId
  <2>. QED
    BY <2>1, <2>2
<1>3. ToInt(n) = n /\ n \in (-MaxInt) .. (MaxInt - 1)
  BY <1>2, IntIsWideEnough
<1>4. /\ r.known /\ r.next = n /\ r.heap = o.heap /\ r.ctxs = o.ctxs
      /\ r.skip \subseteq o.skip /\ r \in OrderRecord
  BY <1>3 DEF OrderRecord, AfterGetNextPktId
<1>. QED
  BY <1>2, <1>4

\* What SetNextPktId leaves.
LEMMA SetNextLeaves ==
    ASSUME NoOverflow, NEW o \in OrderRecord, NEW p \in 0 .. NumPkts
    PROVE  LET r == AfterSetNextPktId(o, p)
           IN  /\ r \in OrderRecord /\ r.known
               /\ r.next \in p .. NumPkts
               /\ \A j \in p .. r.next - 1 : j \in o.skip
               /\ r.heap = o.heap /\ r.ctxs = o.ctxs /\ r.skip \subseteq o.skip
<1>. DEFINE k == PastSkipped(p, o.skip)
            r == AfterSetNextPktId(o, p)
<1>1. k \in p .. NumPkts /\ \A j \in p .. k - 1 : j \in o.skip
  BY PastSkippedIsFirst DEF OrderRecord
<1>2. ToInt(k) = k /\ k \in (-MaxInt) .. (MaxInt - 1)
  BY <1>1, IntIsWideEnough, NumPktsAssumption
<1>3. /\ r.known /\ r.next = k /\ r.heap = o.heap /\ r.ctxs = o.ctxs
      /\ r.skip \subseteq o.skip /\ r \in OrderRecord
  BY <1>2 DEF OrderRecord, AfterSetNextPktId
<1>. QED
  BY <1>1, <1>3

\* AddUnprocessedPkt and GetSmallestUnprocessedPkt touch the heap and the
\* contexts of one packet only.
LEMMA HeapOperationsLeave ==
    ASSUME NEW o \in OrderRecord, NEW p \in PktIds
    PROVE  /\ LET r == AfterAddUnprocessedPkt(o, p)
              IN  /\ r \in OrderRecord
                  /\ r.known = o.known /\ r.next = o.next /\ r.skip = o.skip
                  /\ r.heap = [o.heap EXCEPT ![p] = @ + 1]
                  /\ r.ctxs = o.ctxs \union {p}
           /\ o.heap[p] > 0 =>
              LET r == AfterGetSmallestUnprocessedPkt(o, p)
              IN  /\ r \in OrderRecord
                  /\ r.known = o.known /\ r.next = o.next /\ r.skip = o.skip
                  /\ r.heap = [o.heap EXCEPT ![p] = @ - 1]
                  /\ r.ctxs = o.ctxs \ {p}
<1>. DEFINE a == AfterAddUnprocessedPkt(o, p)
            g == AfterGetSmallestUnprocessedPkt(o, p)
<1>0. o.heap \in [PktIds -> Nat] /\ o.ctxs \in SUBSET PktIds
  BY DEF OrderRecord
<1>1. /\ a.known = o.known /\ a.next = o.next /\ a.skip = o.skip
      /\ a.heap = [o.heap EXCEPT ![p] = @ + 1] /\ a.ctxs = o.ctxs \union {p}
  BY DEF OrderRecord, AfterAddUnprocessedPkt
<1>2. [o.heap EXCEPT ![p] = @ + 1] \in [PktIds -> Nat]
  BY <1>0
<1>3. a \in OrderRecord
  BY <1>0, <1>1, <1>2 DEF OrderRecord, AfterAddUnprocessedPkt
<1>4. /\ g.known = o.known /\ g.next = o.next /\ g.skip = o.skip
      /\ g.heap = [o.heap EXCEPT ![p] = @ - 1] /\ g.ctxs = o.ctxs \ {p}
  BY DEF OrderRecord, AfterGetSmallestUnprocessedPkt
<1>5. o.heap[p] > 0 => [o.heap EXCEPT ![p] = @ - 1] \in [PktIds -> Nat]
  BY <1>0
<1>6. o.heap[p] > 0 => g \in OrderRecord
  BY <1>0, <1>4, <1>5 DEF OrderRecord, AfterGetSmallestUnprocessedPkt
<1>. QED
  BY <1>1, <1>3, <1>4, <1>6

\* AddSkipPktId adds the packet to the skip set or leaves the record alone.
LEMMA AddSkipLeaves ==
    ASSUME NEW o \in OrderRecord, NEW p \in PktIds
    PROVE  LET r == AfterAddSkipPktId(o, p)
           IN  /\ r \in OrderRecord
               /\ r.known = o.known /\ r.next = o.next
               /\ r.heap = o.heap /\ r.ctxs = o.ctxs
               /\ r.skip \subseteq o.skip \union {p}
<1>1. CASE Cardinality(o.skip) < SkipMax
  BY <1>1 DEF OrderRecord, AfterAddSkipPktId
<1>2. CASE ~(Cardinality(o.skip) < SkipMax)
  BY <1>2 DEF OrderRecord, AfterAddSkipPktId
<1>. QED
  BY <1>1, <1>2

\* Whatever the ids are, overflow or not, the two methods that move the next
\* id keep the record's types and leave the heap alone.
LEMMA NextOperationsLeave ==
    ASSUME NEW o \in OrderRecord, NEW p \in PktIds
    PROVE  /\ LET r == AfterGetNextPktId(o)
              IN  r \in OrderRecord /\ r.heap = o.heap /\ r.ctxs = o.ctxs
           /\ LET r == AfterSetNextPktId(o, p + 1)
              IN  r \in OrderRecord /\ r.heap = o.heap /\ r.ctxs = o.ctxs
<1>1. ASSUME NEW u \in Int PROVE ToInt(u) \in (-MaxInt) .. (MaxInt - 1)
  <2>1. u + MaxInt \in Int /\ 2 * MaxInt \in Nat \ {0}
    BY MaxIntAssumption
  <2>2. (u + MaxInt) % (2 * MaxInt) \in 0 .. 2 * MaxInt - 1
    BY <2>1
  <2>. QED
    BY <2>2, MaxIntAssumption DEF ToInt
<1>2. ASSUME NEW u \in Nat PROVE PastSkipped(u, o.skip) \in Nat
  <2>1. CASE u \in o.skip
    BY <2>1, PastSkippedIsFirst, NumPktsAssumption DEF OrderRecord, PktIds
  <2>2. CASE u \notin o.skip
    BY <2>2 DEF PastSkipped
  <2>. QED
    BY <2>1, <2>2
<1>3. ToUint(o.next) \in Nat
  BY MaxIntAssumption, UintAssumption, NumPktsAssumption DEF ToUint, OrderRecord
<1>4. NextPktId(o) \in Nat
  BY <1>2, <1>3 DEF NextPktId
<1>5. ToInt(NextPktId(o)) \in (-MaxInt) .. (MaxInt - 1)
  BY <1>1, <1>4
<1>6. p + 1 \in Nat
  BY DEF PktIds
<1>7. ToInt(PastSkipped(p + 1, o.skip)) \in (-MaxInt) .. (MaxInt - 1)
  BY <1>1, <1>2, <1>6
<1>. QED
  BY <1>5, <1>7 DEF AfterGetNextPktId, AfterSetNextPktId, OrderRecord

==============================================================================
