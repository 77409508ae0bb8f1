------------------------- MODULE OrderInformation -------------------------
(***************************************************************************)
(* The order-keeping record of one node for one input stream: class        *)
(* OrderInformation of include/stream/input_stream_context.h and its       *)
(* methods in src/stream/input_stream_context.cc.                          *)
(*                                                                         *)
(* The class keys four maps by node id and every method locks mtx_ and     *)
(* touches the entries of the node it is given, so each method is one      *)
(* atomic operation on the record below and the records of different       *)
(* nodes never meet.  The methods are written as operators from a record   *)
(* to what they return (NextPktId, SmallestUnprocessedPkt...) and to the   *)
(* record they leave (AfterGetNextPktId, AfterSetNextPktId...); the        *)
(* modules that run worker threads apply them in one step.                 *)
(***************************************************************************)
EXTENDS Integers, FiniteSets

CONSTANTS
    NumPkts,    \* packets of the stream: ids 0 .. NumPkts - 1
    MaxInt,     \* 2^31 in the program: an int holds -MaxInt .. MaxInt - 1
    UintBound,  \* 2^64 in the program: a uint64_t holds 0 .. UintBound - 1
    SkipMax     \* skip_pkt_max_size_ (2048 in the program)

ASSUME NumPktsAssumption == NumPkts \in Nat
ASSUME MaxIntAssumption  == MaxInt \in Nat \ {0}
ASSUME UintAssumption    == UintBound \in Nat /\ UintBound >= NumPkts + 2 * MaxInt
ASSUME SkipMaxAssumption == SkipMax \in Nat \ {0}

PktIds == 0 .. NumPkts - 1

\* node_id_2_next_pkt_id_ maps a node to an int: what an assignment from a
\* uint64_t stores, and what reading the int back as a uint64_t gives.
ToInt(u)  == ((u + MaxInt) % (2 * MaxInt)) - MaxInt
ToUint(i) == IF i >= 0 THEN i ELSE UintBound + i

\* The record of one node:
\*   known  the node has an entry in node_id_2_next_pkt_id_, and next is its value
\*   skip   node_id_2_skip_pkt_id_
\*   heap   node_id_2_pkt_id_, the min-heap: how often it holds each packet id
\*   ctxs   the packet ids node_id_2_pkt_id_2_ctx_ holds a context for
OrderRecord ==
    [known : BOOLEAN,
     next  : (-MaxInt) .. (MaxInt - 1),
     skip  : SUBSET PktIds,
     heap  : [PktIds -> Nat],
     ctxs  : SUBSET PktIds]

EmptyOrder ==
    [known |-> FALSE,
     next  |-> 0,
     skip  |-> {},
     heap  |-> [p \in PktIds |-> 0],
     ctxs  |-> {}]

\* The while loops that walk over announced packets: the first id from u on
\* that is not in the skip set, and the ids they erase on the way.
PastSkipped(u, skip) ==
    IF u \in skip
    THEN CHOOSE k \in (u + 1) .. NumPkts :
            k \notin skip /\ \A j \in u .. k - 1 : j \in skip
    ELSE u

\* GetNextPktId: the first call creates the entry with 0 and looks at no
\* skip set; a later one steps over skipped ids and stores where it stopped.
NextPktId(o) == IF o.known THEN PastSkipped(ToUint(o.next), o.skip) ELSE 0

\* Mutant: the entry is created anew on every call.
AfterGetNextPktIdAlwaysNew(o) == [o EXCEPT !.known = TRUE, !.next = 0]

AfterGetNextPktId(o) ==
    [o EXCEPT !.known = TRUE,
              !.next  = ToInt(NextPktId(o)),
              !.skip  = IF o.known THEN @ \ (ToUint(o.next) .. NextPktId(o) - 1) ELSE @]

\* SetNextPktId
AfterSetNextPktId(o, p) ==
    [o EXCEPT !.known = TRUE,
              !.next  = ToInt(PastSkipped(p, o.skip)),
              !.skip  = @ \ (p .. PastSkipped(p, o.skip) - 1)]

\* Mutant: the context is not stored beside the heap's id.
AfterAddUnprocessedPktNoContext(o, p) == [o EXCEPT !.heap[p] = @ + 1]

\* AddUnprocessedPkt: push on the heap; the map keeps one context per id.
AfterAddUnprocessedPkt(o, p) ==
    [o EXCEPT !.heap[p] = @ + 1, !.ctxs = @ \union {p}]

\* Mutant: the heap is not asked whether it is empty.
HasSmallestUnprocessedPktOrNone(o, p) ==
    o.known /\ p \in PktIds /\ ToInt(p) = o.next

\* GetSmallestUnprocessedPkt answers true when the top of the heap is the
\* next id.  It applies no skip set, and when the map has no context for
\* the id it hands out a null one (map::operator[] creates it).
HasSmallestUnprocessedPkt(o, p) ==
    /\ o.known
    /\ p \in PktIds
    /\ o.heap[p] > 0
    /\ \A q \in PktIds : o.heap[q] > 0 => p <= q
    /\ ToInt(p) = o.next

SmallestHasContext(o, p) == p \in o.ctxs

AfterGetSmallestUnprocessedPkt(o, p) ==
    [o EXCEPT !.heap[p] = @ - 1, !.ctxs = @ \ {p}]

\* AddSkipPktId: a full set silently drops the announcement.  (The first
\* announcement of a node is stored unchecked, which SkipMax > 0 covers.)
AfterAddSkipPktId(o, p) ==
    IF Cardinality(o.skip) < SkipMax THEN [o EXCEPT !.skip = @ \union {p}] ELSE o
============================================================================
