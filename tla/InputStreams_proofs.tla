------------------------ MODULE InputStreams_proofs ------------------------
(***************************************************************************)
(* Proofs about InputStreams, for any threads and tags and whatever values *)
(* its numeric constants have.                                             *)
(***************************************************************************)
EXTENDS InputStreams, FiniteSetTheorems, TLAPS

Stream == [id : 0 .. UintBound - 1, packets : 0 .. MaxPackets]
Data   == collection.data_types
Places == collection.tag_map

-----------------------------------------------------------------------------
(***************************************************************************)
(* The inductive invariant: the manager.                                   *)
(***************************************************************************)

ManagerTypes ==
    /\ stream_id_ \in 0 .. MaxStreams
    /\ DOMAIN context_map \subseteq Keys
    /\ \A k \in DOMAIN context_map : context_map[k] \in DOMAIN streams \union {Null}
    /\ streams \in Seq(Stream)
    /\ pc \in [Threads -> {"idle", "fetch", "insert", "lookup", "create", "null", "invalid"}]
    /\ purpose \in [Threads -> {"packet", "stream"}]
    /\ key \in [Threads -> Keys \union {Null}]
    /\ mine \in [Threads -> DOMAIN streams \union {Null}]
    /\ held \subseteq DOMAIN streams /\ served \subseteq DOMAIN streams
    /\ overlapped \in BOOLEAN
    /\ removed \subseteq Keys

\* A thread has what its place needs: a key from the counter, a stream.
HasKeyOrStream ==
    \A t \in Threads :
        /\ pc[t] = "insert" => key[t] \in 0 .. stream_id_ - 1
        /\ pc[t] = "create" => mine[t] # Null

\* While the counter is within uint8_t, ids are keys, and no key is drawn twice.
IdsAreKeys ==
    stream_id_ <= UintBound =>
        /\ \A i \in DOMAIN streams : streams[i].id < stream_id_
        /\ \A i, j \in DOMAIN streams : i # j => streams[i].id # streams[j].id
        /\ \A t \in Threads : pc[t] = "insert" => \A i \in DOMAIN streams : streams[i].id # key[t]
        /\ \A t, u \in Threads : pc[t] = "insert" /\ pc[u] = "insert" /\ t # u => key[t] # key[u]

\* Without overlaps, who makes a stream is alone with the map...
AloneAtMap ==
    ~overlapped =>
        \A t, u \in Threads :
            t # u /\ pc[t] \in {"fetch", "insert"} => pc[u] \notin {"fetch", "insert", "lookup"}

\* ...streams are numbered in the order of their keys...
InOrderOfKeys ==
    ~overlapped =>
        /\ \A t \in Threads :
            pc[t] = "insert" => key[t] = Len(streams) /\ stream_id_ = Len(streams) + 1
        /\ (\A t \in Threads : pc[t] # "insert") => stream_id_ = Len(streams)

\* ...the map has every stream that was not removed...
MapHasStreams ==
    ~overlapped =>
        \A s \in DOMAIN streams :
            \/ s - 1 \in removed
            \/ s - 1 \in DOMAIN context_map /\ context_map[s - 1] = s

\* ...and a packet's stream is made by the first to ask, and found by the others.
DefaultIsFirst ==
    ~overlapped =>
        /\ \A t \in Threads :
            /\ pc[t] = "fetch" /\ purpose[t] = "packet" => stream_id_ = 0
            /\ pc[t] = "insert" /\ purpose[t] = "packet" => stream_id_ = 1
            /\ pc[t] = "lookup" => stream_id_ > 0
        /\ 0 \notin removed =>
            /\ \A t \in Threads : mine[t] \in {1, Null} /\ pc[t] # "null"
            /\ served \subseteq {1}

ManagerInv ==
    /\ ManagerTypes
    /\ HasKeyOrStream
    /\ IdsAreKeys
    /\ AloneAtMap
    /\ InOrderOfKeys
    /\ MapHasStreams
    /\ DefaultIsFirst

-----------------------------------------------------------------------------
(***************************************************************************)
(* The inductive invariant: the data of a stream.                          *)
(***************************************************************************)

DataTypes ==
    /\ backwards \in BOOLEAN
    /\ given \in 0 .. MaxData
    /\ Data \in Seq(Nat) /\ Len(Data) <= given
    /\ IsFiniteSet(DOMAIN Places)
    /\ CountsAgree(collection)
    /\ DOMAIN stored = DOMAIN Places
    /\ \A tag \in DOMAIN Places : Places[tag] \in 0 .. given - 1 /\ stored[tag] \in 1 .. given

\* Data are stored in the order of their numbers, which no two tags share.
DataInOrder ==
    /\ \A i \in 1 .. Len(Data) : Data[i] \in 1 .. given
    /\ \A i, j \in 1 .. Len(Data) : i < j => Data[i] < Data[j]
    /\ \A s, t \in DOMAIN Places : stored[s] = stored[t] => s = t

\* A stale position leads to a datum no older than the tag's own.
NeverEarlier ==
    \A tag \in DOMAIN Places :
        Places[tag] < Len(Data) => Data[Places[tag] + 1] >= stored[tag]

\* Until a tag is removed out of turn, positions are right, and every datum has a tag.
ExactBackwards ==
    backwards =>
        /\ \A tag \in DOMAIN Places :
            Places[tag] < Len(Data) /\ Data[Places[tag] + 1] = stored[tag]
        /\ \A i \in 1 .. Len(Data) : \E tag \in DOMAIN Places : stored[tag] = Data[i]

DataInv ==
    /\ DataTypes
    /\ DataInOrder
    /\ NeverEarlier
    /\ ExactBackwards

IInv == ManagerInv /\ DataInv

-----------------------------------------------------------------------------
(***************************************************************************)
(* What the manager's steps do to streams.                                 *)
(***************************************************************************)

\* A stream that is made is the last one.
LEMMA MadeStream ==
    ASSUME streams \in Seq(Stream), NEW k \in Nat, UintBound \in Nat \ {0}, MaxPackets \in Nat,
           streams' = Append(streams, [id |-> k % UintBound, packets |-> 0])
    PROVE  /\ streams' \in Seq(Stream)
           /\ Len(streams') = Len(streams) + 1 /\ Len(streams) \in Nat
           /\ DOMAIN streams' = DOMAIN streams \union {Len(streams) + 1}
           /\ DOMAIN streams = 1 .. Len(streams)
           /\ \A i \in DOMAIN streams : streams'[i] = streams[i]
           /\ streams'[Len(streams) + 1].id = k % UintBound
<1>. DEFINE new == [id |-> k % UintBound, packets |-> 0]
<1>1. k % UintBound \in 0 .. UintBound - 1
  OBVIOUS
<1>2. new \in Stream /\ new.id = k % UintBound
  BY <1>1 DEF Stream
<1>. HIDE DEF new
<1>3. streams' = Append(streams, new)
  BY DEF new
<1>. QED
  BY <1>2, <1>3

\* A packet that is made leaves the ids.
LEMMA MadePacket ==
    ASSUME streams \in Seq(Stream), NEW s \in DOMAIN streams, MaxPackets \in Nat, CreatePacket(s)
    PROVE  /\ streams' \in Seq(Stream)
           /\ Len(streams') = Len(streams)
           /\ DOMAIN streams' = DOMAIN streams
           /\ \A i \in DOMAIN streams : streams'[i].id = streams[i].id
<1>. DEFINE new == [streams[s] EXCEPT !.packets = @ + 1]
<1>1. /\ streams' = [streams EXCEPT ![s] = new] /\ streams[s].packets < MaxPackets
      /\ DOMAIN streams = 1 .. Len(streams) /\ Len(streams) \in Nat /\ streams[s] \in Stream
  BY DEF CreatePacket
<1>2. new \in Stream /\ new.id = streams[s].id
  <2>1. streams[s].id \in 0 .. UintBound - 1 /\ streams[s].packets + 1 \in 0 .. MaxPackets
    BY <1>1 DEF Stream
  <2>2. new = [id |-> streams[s].id, packets |-> streams[s].packets + 1]
    BY <1>1 DEF Stream
  <2>. HIDE DEF new
  <2>. QED
    BY <2>1, <2>2 DEF Stream
<1>. HIDE DEF new
<1>3. DOMAIN streams' = DOMAIN streams /\ \A i \in DOMAIN streams : streams'[i].id = streams[i].id
  BY <1>1, <1>2
<1>4. \A i \in 1 .. Len(streams) : streams'[i] \in Stream
  BY <1>1, <1>2
<1>. QED
  BY <1>1, <1>3, <1>4

\* One sequence behind the other, by the places of both.
LEMMA Joined ==
    ASSUME NEW f \in Seq(Nat), NEW g \in Seq(Nat)
    PROVE  /\ f \o g \in Seq(Nat) /\ Len(f \o g) = Len(f) + Len(g)
           /\ \A i \in 1 .. Len(f) + Len(g) :
                (f \o g)[i] = IF i <= Len(f) THEN f[i] ELSE g[i - Len(f)]
  OBVIOUS

\* RemoveAt: what was behind the place moves up by one.
LEMMA Removed ==
    ASSUME NEW s \in Seq(Nat), NEW p \in Nat, p + 1 \in 1 .. Len(s)
    PROVE  /\ RemoveAt(s, p + 1) \in Seq(Nat)
           /\ Len(RemoveAt(s, p + 1)) = Len(s) - 1
           /\ \A i \in 1 .. Len(s) - 1 :
                RemoveAt(s, p + 1)[i] = IF i <= p THEN s[i] ELSE s[i + 1]
<1>. DEFINE n     == Len(s)
            front == SubSeq(s, 1, p)
            back  == SubSeq(s, p + 2, n)
<1>1. n \in Nat /\ RemoveAt(s, p + 1) = front \o back
  <2>1. (p + 1) - 1 = p /\ (p + 1) + 1 = p + 2
    OBVIOUS
  <2>. QED
    BY <2>1 DEF RemoveAt
<1>2. front \in Seq(Nat) /\ Len(front) = p /\ \A i \in 1 .. p : front[i] = s[i]
  OBVIOUS
<1>3. /\ back \in Seq(Nat) /\ Len(back) = n - (p + 1)
      /\ \A i \in 1 .. n - (p + 1) : back[i] = s[p + 1 + i]
  OBVIOUS
<1>. HIDE DEF front, back
<1>4. /\ front \o back \in Seq(Nat) /\ Len(front \o back) = n - 1
      /\ \A i \in 1 .. n - 1 : (front \o back)[i] = IF i <= p THEN front[i] ELSE back[i - p]
  <2>1. Len(front) + Len(back) = n - 1
    BY <1>1, <1>2, <1>3
  <2>. HIDE DEF n
  <2>2. /\ front \o back \in Seq(Nat) /\ Len(front \o back) = n - 1
        /\ \A i \in 1 .. Len(front) + Len(back) :
             (front \o back)[i] = IF i <= Len(front) THEN front[i] ELSE back[i - Len(front)]
    <3>1. front \in Seq(Nat) /\ back \in Seq(Nat)
      BY <1>2, <1>3
    <3>. QED
      BY <2>1, <3>1, Joined
  <2>. QED
    BY <1>2, <2>1, <2>2
<1>5. ASSUME NEW i \in 1 .. n - 1, ~(i <= p) PROVE back[i - p] = s[i + 1]
  <2>1. i - p \in 1 .. n - (p + 1) /\ p + 1 + (i - p) = i + 1
    BY <1>1, <1>5
  <2>. QED
    BY <1>3, <2>1
<1>6. ASSUME NEW i \in 1 .. n - 1 PROVE (front \o back)[i] = IF i <= p THEN s[i] ELSE s[i + 1]
  <2>1. CASE i <= p
    <3>1. i \in 1 .. p
      BY <1>1, <2>1
    <3>. QED
      BY <1>2, <1>4, <2>1, <3>1
  <2>2. CASE ~(i <= p)
    BY <1>4, <1>5, <2>2
  <2>. QED
    BY <2>1, <2>2
<1>. QED
  BY <1>1, <1>4, <1>6

-----------------------------------------------------------------------------
(***************************************************************************)
(* The steps preserve the invariant: the data of a stream.                 *)
(***************************************************************************)

\* Only the data change.
LEMMA DataSteps == ASSUME IInv, DataStep PROVE IInv'
<1>. USE DEF IInv, DataInv
<1>1. UNCHANGED <<managerVars, threadVars, served, overlapped, removed>>
  BY DEF DataStep
<1>2. ManagerInv'
  BY <1>1 DEF ManagerInv, ManagerTypes, HasKeyOrStream, IdsAreKeys, AloneAtMap, InOrderOfKeys,
     MapHasStreams, DefaultIsFirst, managerVars, threadVars
<1>. DEFINE n == Len(Data)
<1>3. /\ given \in 0 .. MaxData /\ MaxData \in Nat /\ Data \in Seq(Nat) /\ n \in Nat /\ n <= given
      /\ given \in Nat
      /\ IsFiniteSet(DOMAIN Places) /\ n = Cardinality(DOMAIN Places)
      /\ DOMAIN stored = DOMAIN Places
      /\ \A tag \in DOMAIN Places : /\ Places[tag] \in 0 .. given - 1 /\ stored[tag] \in 1 .. given
                                    /\ Places[tag] \in Nat /\ stored[tag] \in Nat
      /\ \A i \in 1 .. n : Data[i] \in Nat /\ Data[i] <= given
  BY InputStreamsAssumption DEF DataTypes, CountsAgree, Tags, Data, Places, DataInOrder
<1>4. ASSUME NEW tag \in DataTags, AddData(tag) PROVE DataInv'
  <2>1. /\ given < MaxData /\ tag \notin DOMAIN Places /\ given' = given + 1 /\ UNCHANGED backwards
        /\ Places' = [t \in DOMAIN Places \union {tag} |-> IF t = tag THEN n ELSE Places[t]]
        /\ Data' = Append(Data, given + 1)
        /\ stored' = [t \in DOMAIN Places' |-> IF t = tag THEN given + 1 ELSE stored[t]]
    BY <1>4 DEF AddData, AfterAddTag, HasTag, Tags, Places, Data
  <2>. HIDE DEF n
  <2>2. /\ Data' \in Seq(Nat) /\ Len(Data') = n + 1 /\ Data'[n + 1] = given + 1
        /\ \A i \in 1 .. n : Data'[i] = Data[i]
    BY <1>3, <2>1 DEF n
  <2>3. /\ DOMAIN Places' = DOMAIN Places \union {tag}
        /\ Places'[tag] = n /\ stored'[tag] = given + 1
        /\ \A t \in DOMAIN Places : t # tag /\ Places'[t] = Places[t] /\ stored'[t] = stored[t]
    BY <2>1
  <2>4. IsFiniteSet(DOMAIN Places') /\ Cardinality(DOMAIN Places') = n + 1
    BY <1>3, <2>1, <2>3, FS_AddElement
  <2>5. DataTypes'
    <3>1. CountsAgree(collection)'
      BY <2>2, <2>4 DEF CountsAgree, Tags, Data, Places
    <3>2. \A t \in DOMAIN Places' : Places'[t] \in 0 .. given' - 1 /\ stored'[t] \in 1 .. given'
      BY <1>3, <2>1, <2>3
    <3>. QED
      BY <1>3, <2>1, <2>2, <2>3, <2>4, <3>1, <3>2 DEF DataTypes
  <2>6. DataInOrder'
    <3>1. \A i \in 1 .. n + 1 : i \in 1 .. n \/ i = n + 1
      BY <1>3
    <3>2. \A i \in 1 .. n + 1 : Data'[i] \in 1 .. given'
      BY <1>3, <2>1, <2>2, <3>1 DEF DataInOrder, n
    <3>3. ASSUME NEW i \in 1 .. n + 1, NEW j \in 1 .. n + 1, i < j PROVE Data'[i] < Data'[j]
      <4>1. i \in 1 .. n
        BY <1>3, <3>3
      <4>2. CASE j \in 1 .. n
        BY <2>2, <3>3, <4>1, <4>2 DEF DataInOrder, n
      <4>3. CASE j = n + 1
        BY <1>3, <2>2, <4>1, <4>3
      <4>. QED
        BY <3>1, <4>2, <4>3
    <3>4. \A s, t \in DOMAIN Places' : stored'[s] = stored'[t] => s = t
      <4>1. \A t \in DOMAIN Places : stored'[t] # stored'[tag]
        BY <1>3, <2>3
      <4>. QED
        BY <2>3, <4>1 DEF DataInOrder
    <3>. QED
      BY <2>2, <3>2, <3>3, <3>4 DEF DataInOrder
  <2>7. NeverEarlier'
    <3>1. ASSUME NEW t \in DOMAIN Places, Places[t] < n + 1 PROVE Data'[Places[t] + 1] >= stored[t]
      <4>1. CASE Places[t] < n
        <5>1. Places[t] + 1 \in 1 .. n /\ Data[Places[t] + 1] >= stored[t]
          BY <1>3, <4>1 DEF NeverEarlier, n
        <5>. QED
          BY <2>2, <5>1
      <4>2. CASE Places[t] = n
        BY <1>3, <2>2, <4>2
      <4>. QED
        BY <1>3, <3>1, <4>1, <4>2
    <3>. QED
      BY <1>3, <2>2, <2>3, <3>1 DEF NeverEarlier
  <2>8. ExactBackwards'
    <3>. SUFFICES ASSUME backwards'
                  PROVE  /\ \A t \in DOMAIN Places' :
                              Places'[t] < n + 1 /\ Data'[Places'[t] + 1] = stored'[t]
                         /\ \A i \in 1 .. n + 1 : \E t \in DOMAIN Places' : stored'[t] = Data'[i]
      BY <2>2 DEF ExactBackwards
    <3>. backwards
      BY <2>1, Zenon
    <3>1. ASSUME NEW t \in DOMAIN Places'
          PROVE  Places'[t] < n + 1 /\ Data'[Places'[t] + 1] = stored'[t]
      <4>1. CASE t = tag
        BY <1>3, <2>2, <2>3, <4>1
      <4>2. CASE t # tag
        <5>1. t \in DOMAIN Places /\ Places[t] < n /\ Data[Places[t] + 1] = stored[t]
          BY <2>3, <4>2 DEF ExactBackwards, n
        <5>2. Places[t] + 1 \in 1 .. n
          BY <1>3, <5>1
        <5>3. Places'[t] = Places[t] /\ stored'[t] = stored[t] /\ Data'[Places[t] + 1] = Data[Places[t] + 1]
          BY <2>2, <2>3, <5>1, <5>2
        <5>4. n \in Nat /\ Places[t] \in Nat
          BY <1>3, <5>1
        <5>. QED
          BY <5>1, <5>3, <5>4
      <4>. QED
        BY <4>1, <4>2
    <3>2. ASSUME NEW i \in 1 .. n + 1 PROVE \E t \in DOMAIN Places' : stored'[t] = Data'[i]
      <4>1. CASE i \in 1 .. n
        BY <2>2, <2>3, <4>1 DEF ExactBackwards, n
      <4>2. CASE i = n + 1
        BY <2>2, <2>3, <4>2
      <4>. QED
        BY <1>3, <4>1, <4>2
    <3>. QED
      BY <3>1, <3>2
  <2>. QED
    BY <2>5, <2>6, <2>7, <2>8
<1>5. ASSUME NEW tag \in DataTags, DeleteData(tag) PROVE DataInv'
  <2>. DEFINE p == Places[tag]
  <2>1. /\ tag \in DOMAIN Places /\ p < n /\ UNCHANGED given
        /\ Places' = [t \in DOMAIN Places \ {tag} |-> Places[t]]
        /\ Data' = RemoveAt(Data, p + 1)
        /\ stored' = [t \in DOMAIN Places' |-> stored[t]]
        /\ backwards' = (backwards /\ \A t \in DOMAIN Places : stored[t] <= stored[tag])
    BY <1>5 DEF DeleteData, AfterRemoveTag, HasTag, RemovesInside, Tags, Places, Data
  <2>2. p \in Nat /\ p + 1 \in 1 .. n
    BY <1>3, <2>1
  <2>. HIDE DEF n, p
  <2>3. /\ Data' \in Seq(Nat) /\ Len(Data') = n - 1
        /\ \A i \in 1 .. n - 1 : Data'[i] = IF i <= p THEN Data[i] ELSE Data[i + 1]
    BY <1>3, <2>1, <2>2, Removed DEF n
  <2>4. /\ DOMAIN Places' = DOMAIN Places \ {tag}
        /\ \A t \in DOMAIN Places' : Places'[t] = Places[t] /\ stored'[t] = stored[t]
    BY <2>1
  <2>5. IsFiniteSet(DOMAIN Places') /\ Cardinality(DOMAIN Places') = n - 1
    BY <1>3, <2>1, <2>4, FS_RemoveElement
  <2>6. DataTypes'
    <3>1. CountsAgree(collection)'
      BY <2>3, <2>5 DEF CountsAgree, Tags, Data, Places
    <3>2. backwards' \in BOOLEAN
      BY <2>1 DEF DataTypes
    <3>. QED
      BY <1>3, <2>1, <2>3, <2>4, <2>5, <3>1, <3>2 DEF DataTypes
  <2>7. \A i \in 1 .. n - 1 : /\ i \in 1 .. n /\ i + 1 \in 1 .. n /\ i < i + 1
                              /\ Data'[i] \in {Data[i], Data[i + 1]} /\ Data'[i] >= Data[i]
    <3>. TAKE i \in 1 .. n - 1
    <3>1. i \in 1 .. n /\ i + 1 \in 1 .. n /\ i < i + 1
      BY <1>3
    <3>2. Data[i] < Data[i + 1]
      BY <3>1 DEF DataInOrder, n
    <3>3. Data'[i] = Data[i] \/ Data'[i] = Data[i + 1]
      BY <2>3
    <3>. QED
      BY <1>3, <3>1, <3>2, <3>3
  <2>8. DataInOrder'
    <3>1. \A i \in 1 .. n - 1 : Data'[i] \in 1 .. given
      BY <2>7 DEF DataInOrder, n
    <3>2. ASSUME NEW i \in 1 .. n - 1, NEW j \in 1 .. n - 1, i < j PROVE Data'[i] < Data'[j]
      <4>1. CASE j <= p \/ p < i
        <5>1. (i <= p <=> j <= p) /\ i + 1 < j + 1
          BY <1>3, <2>2, <3>2, <4>1
        <5>. QED
          BY <2>3, <2>7, <3>2, <5>1 DEF DataInOrder, n
      <4>2. CASE i <= p /\ p < j
        <5>1. i < j + 1 /\ ~(j <= p)
          BY <1>3, <2>2, <3>2, <4>2
        <5>. QED
          BY <2>3, <2>7, <4>2, <5>1 DEF DataInOrder, n
      <4>. QED
        BY <1>3, <2>2, <4>1, <4>2
    <3>3. \A s, t \in DOMAIN Places' : stored'[s] = stored'[t] => s = t
      BY <2>4 DEF DataInOrder
    <3>. QED
      BY <2>1, <2>3, <3>1, <3>2, <3>3 DEF DataInOrder
  <2>9. NeverEarlier'
    <3>1. ASSUME NEW t \in DOMAIN Places, Places[t] < n - 1 PROVE Data'[Places[t] + 1] >= stored[t]
      <4>1. Places[t] + 1 \in 1 .. n - 1 /\ Places[t] < n
        BY <1>3, <3>1
      <4>2. Data[Places[t] + 1] >= stored[t]
        BY <4>1 DEF NeverEarlier, n
      <4>. DEFINE i == Places[t] + 1
      <4>3. i \in 1 .. n /\ i + 1 \in 1 .. n /\ Data'[i] \in {Data[i], Data[i + 1]} /\ Data'[i] >= Data[i]
        BY <2>7, <4>1
      <4>4. Data[i] \in Nat /\ Data'[i] \in Nat /\ stored[t] \in Nat
        BY <1>3, <4>3
      <4>. QED
        BY <4>2, <4>3, <4>4
    <3>. QED
      BY <2>3, <2>4, <3>1 DEF NeverEarlier
  <2>10. ExactBackwards'
    <3>. SUFFICES ASSUME backwards'
                  PROVE  /\ \A t \in DOMAIN Places' :
                              Places'[t] < n - 1 /\ Data'[Places'[t] + 1] = stored'[t]
                         /\ \A i \in 1 .. n - 1 : \E t \in DOMAIN Places' : stored'[t] = Data'[i]
      BY <2>3 DEF ExactBackwards
    <3>1. /\ \A t \in DOMAIN Places : /\ Places[t] < n /\ Data[Places[t] + 1] = stored[t]
                                      /\ stored[t] <= stored[tag]
          /\ \A i \in 1 .. n : \E t \in DOMAIN Places : stored[t] = Data[i]
      BY <2>1 DEF ExactBackwards, n
    <3>2. p + 1 = n
      <4>1. n \in 1 .. n
        BY <1>3, <2>2
      <4>2. Data[n] <= Data[p + 1]
        BY <2>1, <3>1, <4>1 DEF p
      <4>3. p + 1 < n => Data[p + 1] < Data[n]
        BY <2>2, <4>1 DEF DataInOrder, n
      <4>. QED
        BY <1>3, <2>2, <4>1, <4>2, <4>3
    <3>3. \A i \in 1 .. n - 1 : Data'[i] = Data[i] /\ Data[i] # Data[n]
      <4>. TAKE i \in 1 .. n - 1
      <4>1. i <= p /\ i \in 1 .. n /\ n \in 1 .. n /\ i < n
        BY <1>3, <2>2, <3>2
      <4>2. Data[i] < Data[n]
        BY <4>1 DEF DataInOrder, n
      <4>. QED
        BY <1>3, <2>3, <4>1, <4>2
    <3>4. stored[tag] = Data[n]
      BY <2>1, <3>1, <3>2 DEF p
    <3>5. ASSUME NEW t \in DOMAIN Places'
          PROVE  Places'[t] < n - 1 /\ Data'[Places'[t] + 1] = stored'[t]
      <4>1. t \in DOMAIN Places /\ t # tag /\ stored[t] # stored[tag]
        BY <2>1, <2>4 DEF DataInOrder
      <4>2. Places[t] + 1 # n
        BY <3>1, <3>4, <4>1
      <4>3. Places[t] < n - 1 /\ Places[t] + 1 \in 1 .. n - 1
        BY <1>3, <3>1, <4>1, <4>2
      <4>. QED
        BY <2>4, <3>1, <3>3, <4>1, <4>3
    <3>6. ASSUME NEW i \in 1 .. n - 1 PROVE \E t \in DOMAIN Places' : stored'[t] = Data'[i]
      <4>1. i \in 1 .. n
        BY <1>3
      <4>2. PICK t \in DOMAIN Places : stored[t] = Data[i]
        BY <3>1, <4>1
      <4>3. t # tag
        BY <3>3, <3>4, <4>2
      <4>. QED
        BY <2>4, <3>3, <4>2, <4>3
    <3>. QED
      BY <3>5, <3>6
  <2>. QED
    BY <2>6, <2>8, <2>9, <2>10
<1>. QED
  BY <1>2, <1>4, <1>5 DEF DataStep

-----------------------------------------------------------------------------
(***************************************************************************)
(* The steps preserve the invariant: the manager.                          *)
(***************************************************************************)

\* What every step of the manager has in common: overlaps are recorded.
Recorded ==
    /\ overlapped' \in BOOLEAN
    /\ ~overlapped' => ~overlapped
    /\ AloneAtMap'

\* A thread asks, or draws a key.
LEMMA AskSteps ==
    ASSUME ManagerInv, NEW t \in Threads, AskForStream(t) \/ AskForPacket(t) \/ FetchAdd(t),
           UNCHANGED removed, Recorded
    PROVE  ManagerInv'
<1>. USE DEF ManagerInv
<1>1. /\ pc \in [Threads -> {"idle", "fetch", "insert", "lookup", "create", "null", "invalid"}]
      /\ purpose \in [Threads -> {"packet", "stream"}] /\ stream_id_ \in Nat
      /\ key \in [Threads -> Keys \union {Null}] /\ stream_id_ <= MaxStreams
      /\ \A i \in DOMAIN streams : streams[i] \in Stream
      /\ MaxStreams \in Nat /\ UintBound \in Nat
  BY InputStreamsAssumption DEF ManagerTypes
<1>2. CASE AskForStream(t) \/ AskForPacket(t)
  <2>. DEFINE here == IF AskForStream(t) \/ stream_id_ = 0 THEN "fetch" ELSE "lookup"
              why  == IF AskForStream(t) THEN "stream" ELSE "packet"
  <2>1. /\ UNCHANGED <<managerVars, key, mine, served>> /\ pc[t] = "idle"
        /\ pc' = [pc EXCEPT ![t] = here] /\ purpose' = [purpose EXCEPT ![t] = why]
        /\ here \in {"fetch", "lookup"} /\ why \in {"packet", "stream"}
        /\ here = "fetch" /\ why = "packet" => stream_id_ = 0
        /\ here = "lookup" => stream_id_ > 0
    BY <1>1, <1>2 DEF AskForStream, AskForPacket, Goto
  <2>. HIDE DEF here, why
  <2>2. /\ pc'[t] = here /\ purpose'[t] = why
        /\ \A u \in Threads \ {t} : pc'[u] = pc[u] /\ purpose'[u] = purpose[u]
    BY <1>1, <2>1
  <2>3. ManagerTypes'
    BY <1>1, <2>1 DEF ManagerTypes, managerVars, Recorded
  <2>4. HasKeyOrStream' /\ IdsAreKeys'
    BY <1>1, <2>1, <2>2 DEF HasKeyOrStream, IdsAreKeys, managerVars
  <2>5. InOrderOfKeys' /\ MapHasStreams'
    BY <1>1, <2>1, <2>2 DEF InOrderOfKeys, MapHasStreams, managerVars, Recorded
  <2>6. DefaultIsFirst'
    BY <1>1, <2>1, <2>2 DEF DefaultIsFirst, managerVars, Recorded
  <2>. QED
    BY <2>3, <2>4, <2>5, <2>6 DEF Recorded
<1>3. CASE FetchAdd(t)
  <2>1. /\ UNCHANGED <<context_map, streams, held, purpose, mine, served>>
        /\ pc[t] = "fetch" /\ pc' = [pc EXCEPT ![t] = "insert"]
        /\ stream_id_ < MaxStreams /\ stream_id_' = stream_id_ + 1
        /\ key' = [key EXCEPT ![t] = stream_id_]
    BY <1>3 DEF FetchAdd, Goto
  <2>2. /\ pc'[t] = "insert" /\ key'[t] = stream_id_ /\ stream_id_ \in Keys
        /\ \A u \in Threads \ {t} : pc'[u] = pc[u] /\ key'[u] = key[u]
    BY <1>1, <2>1 DEF Keys
  <2>3. ManagerTypes'
    BY <1>1, <2>1, <2>2 DEF ManagerTypes, Recorded
  <2>4. HasKeyOrStream'
    BY <1>1, <2>1, <2>2 DEF HasKeyOrStream
  <2>5. IdsAreKeys'
    <3>. SUFFICES ASSUME stream_id_ + 1 <= UintBound
                  PROVE  /\ \A i \in DOMAIN streams : streams[i].id < stream_id_ + 1
                         /\ \A i, j \in DOMAIN streams : i # j => streams[i].id # streams[j].id
                         /\ \A u \in Threads : pc'[u] = "insert" =>
                              \A i \in DOMAIN streams : streams[i].id # key'[u]
                         /\ \A u, v \in Threads :
                              pc'[u] = "insert" /\ pc'[v] = "insert" /\ u # v => key'[u] # key'[v]
      BY <2>1 DEF IdsAreKeys
    <3>1. stream_id_ <= UintBound
      BY <1>1
    <3>2. \A i \in DOMAIN streams : streams[i].id < stream_id_ /\ streams[i].id \in Int
      BY <1>1, <3>1 DEF IdsAreKeys, Stream
    <3>3. \A u \in Threads : pc[u] = "insert" => key[u] # stream_id_
      BY <1>1 DEF HasKeyOrStream
    <3>. QED
      BY <1>1, <2>2, <3>1, <3>2, <3>3 DEF IdsAreKeys
  <2>6. ~overlapped' => \A u \in Threads \ {t} : pc[u] \notin {"fetch", "insert", "lookup"}
    BY <2>2 DEF AloneAtMap, Recorded
  <2>7. InOrderOfKeys'
    <3>1. ~overlapped' => stream_id_ = Len(streams)
      BY <2>1, <2>6 DEF InOrderOfKeys, Recorded
    <3>. QED
      BY <1>1, <2>1, <2>2, <2>6, <3>1 DEF InOrderOfKeys, Recorded
  <2>8. MapHasStreams'
    BY <2>1 DEF MapHasStreams, Recorded
  <2>9. DefaultIsFirst'
    BY <1>1, <2>1, <2>2, <2>6 DEF DefaultIsFirst, Recorded
  <2>. QED
    BY <2>3, <2>4, <2>5, <2>7, <2>8, <2>9 DEF Recorded
<1>. QED
  BY <1>2, <1>3

\* A stream is made; whoever is alone with the map gets it in.
LEMMA InsertSteps ==
    ASSUME ManagerInv, NEW t \in Threads, Insert(t), UNCHANGED removed, Recorded
    PROVE  ManagerInv'
<1>. USE DEF ManagerInv
<1>. DEFINE n == Len(streams)
            k == key[t]
<1>1. /\ pc \in [Threads -> {"idle", "fetch", "insert", "lookup", "create", "null", "invalid"}]
      /\ key \in [Threads -> Keys \union {Null}] /\ stream_id_ \in Nat
      /\ mine \in [Threads -> DOMAIN streams \union {Null}]
      /\ \A i \in DOMAIN streams : streams[i] \in Stream
      /\ UintBound \in Nat \ {0} /\ MaxPackets \in Nat /\ streams \in Seq(Stream)
  BY InputStreamsAssumption DEF ManagerTypes
<1>2. /\ pc[t] = "insert" /\ UNCHANGED <<stream_id_, purpose, served>>
      /\ streams' = Append(streams, [id |-> k % UintBound, packets |-> 0])
      /\ pc' = [pc EXCEPT ![t] = IF purpose[t] = "stream" THEN "idle" ELSE "create"]
      /\ key' = [key EXCEPT ![t] = Null]
      /\ Put(k, Len(streams')) \/ (Races(t) /\ UNCHANGED context_map)
      /\ IF purpose[t] = "stream"
         THEN held' = held \union {Len(streams')} /\ UNCHANGED mine
         ELSE mine' = [mine EXCEPT ![t] = Len(streams')] /\ UNCHANGED held
  BY DEF Insert, Goto
<1>3. k \in 0 .. stream_id_ - 1 /\ k \in Nat /\ k \in Keys
  BY <1>1, <1>2 DEF HasKeyOrStream, Null
<1>4. /\ streams' \in Seq(Stream) /\ Len(streams') = n + 1 /\ n \in Nat
      /\ DOMAIN streams' = DOMAIN streams \union {n + 1} /\ DOMAIN streams = 1 .. n
      /\ \A i \in DOMAIN streams : streams'[i] = streams[i]
      /\ streams'[n + 1].id = k % UintBound
  BY <1>1, <1>2, <1>3, MadeStream
<1>5. /\ pc'[t] \in {"idle", "create"} /\ (pc'[t] = "create" => purpose[t] # "stream")
      /\ key'[t] = Null
      /\ \A u \in Threads \ {t} : pc'[u] = pc[u] /\ key'[u] = key[u] /\ mine'[u] = mine[u]
      /\ mine'[t] \in {mine[t], n + 1} /\ (purpose[t] # "stream" => mine'[t] = n + 1)
  BY <1>1, <1>2, <1>4
<1>. HIDE DEF n, k
<1>6. ManagerTypes'
  <2>1. /\ DOMAIN context_map' \subseteq Keys
        /\ \A j \in DOMAIN context_map' : context_map'[j] \in DOMAIN streams' \union {Null}
    BY <1>2, <1>3, <1>4 DEF ManagerTypes, Put
  <2>2. mine' \in [Threads -> DOMAIN streams' \union {Null}] /\ held' \subseteq DOMAIN streams'
    BY <1>1, <1>2, <1>4 DEF ManagerTypes
  <2>3. /\ pc' \in [Threads -> {"idle", "fetch", "insert", "lookup", "create", "null", "invalid"}]
        /\ key' \in [Threads -> Keys \union {Null}]
    BY <1>1, <1>2
  <2>. QED
    BY <1>2, <1>4, <2>1, <2>2, <2>3 DEF ManagerTypes, Recorded
<1>7. HasKeyOrStream'
  <2>1. n + 1 # Null
    BY <1>4 DEF Null
  <2>. QED
    BY <1>2, <1>5, <2>1 DEF HasKeyOrStream
<1>8. IdsAreKeys'
  <2>. SUFFICES ASSUME stream_id_ <= UintBound
                PROVE  /\ \A i \in DOMAIN streams' : streams'[i].id < stream_id_
                       /\ \A i, j \in DOMAIN streams' : i # j => streams'[i].id # streams'[j].id
                       /\ \A u \in Threads : pc'[u] = "insert" =>
                            \A i \in DOMAIN streams' : streams'[i].id # key'[u]
                       /\ \A u, v \in Threads :
                            pc'[u] = "insert" /\ pc'[v] = "insert" /\ u # v => key'[u] # key'[v]
    BY <1>2 DEF IdsAreKeys
  <2>1. k % UintBound = k
    BY <1>1, <1>3
  <2>2. streams'[n + 1].id = k /\ k < stream_id_
    BY <1>1, <1>3, <1>4, <2>1
  <2>3. \A i \in DOMAIN streams : streams'[i].id # k
    BY <1>2, <1>4 DEF IdsAreKeys, k
  <2>4. \A u \in Threads : pc'[u] = "insert" => u # t /\ pc[u] = "insert" /\ key'[u] = key[u] /\ key[u] # k
    BY <1>2, <1>5 DEF IdsAreKeys, k
  <2>. QED
    BY <1>4, <2>2, <2>3, <2>4 DEF IdsAreKeys
<1>9. ASSUME ~overlapped'
      PROVE  /\ k = n /\ stream_id_ = n + 1 /\ Put(k, n + 1)
             /\ \A u \in Threads \ {t} : pc[u] \notin {"fetch", "insert", "lookup"}
  <2>1. ~overlapped
    BY <1>9 DEF Recorded
  <2>2. \A u \in Threads \ {t} : pc[u] \notin {"fetch", "insert", "lookup"}
    BY <1>2, <2>1 DEF AloneAtMap
  <2>3. ~Races(t)
    BY <2>2 DEF Races
  <2>. QED
    BY <1>2, <1>4, <2>1, <2>2, <2>3 DEF InOrderOfKeys, k, n
<1>10. InOrderOfKeys'
  BY <1>2, <1>4, <1>5, <1>9 DEF InOrderOfKeys
<1>11. MapHasStreams'
  <2>. SUFFICES ASSUME ~overlapped', NEW s \in DOMAIN streams'
                PROVE  \/ s - 1 \in removed
                       \/ s - 1 \in DOMAIN context_map' /\ context_map'[s - 1] = s
    BY DEF MapHasStreams
  <2>1. /\ DOMAIN context_map' = DOMAIN context_map \union {n}
        /\ \A j \in DOMAIN context_map' : context_map'[j] = IF j = n THEN n + 1 ELSE context_map[j]
    BY <1>9 DEF Put
  <2>2. CASE s = n + 1
    BY <1>4, <2>1, <2>2
  <2>3. CASE s \in DOMAIN streams
    <3>1. s - 1 # n
      BY <1>4, <2>3
    <3>2. s - 1 \in removed \/ (s - 1 \in DOMAIN context_map /\ context_map[s - 1] = s)
      BY <2>3 DEF MapHasStreams, Recorded
    <3>. QED
      BY <2>1, <3>1, <3>2
  <2>. QED
    BY <1>4, <2>2, <2>3
<1>12. DefaultIsFirst'
  <2>. SUFFICES ASSUME ~overlapped'
                PROVE  /\ \A u \in Threads :
                            /\ pc'[u] = "fetch" /\ purpose[u] = "packet" => stream_id_ = 0
                            /\ pc'[u] = "insert" /\ purpose[u] = "packet" => stream_id_ = 1
                            /\ pc'[u] = "lookup" => stream_id_ > 0
                       /\ 0 \notin removed =>
                            /\ \A u \in Threads : mine'[u] \in {1, Null} /\ pc'[u] # "null"
                            /\ served \subseteq {1}
    BY <1>2 DEF DefaultIsFirst
  <2>1. ~overlapped
    BY DEF Recorded
  <2>2. \A u \in Threads : pc'[u] \notin {"fetch", "insert", "lookup"}
    BY <1>5, <1>9
  <2>3. mine'[t] = mine[t] \/ mine'[t] = 1
    <3>1. CASE purpose[t] = "stream"
      BY <1>2, <3>1
    <3>2. CASE purpose[t] # "stream"
      <4>1. stream_id_ = 1
        BY <1>2, <2>1, <3>2 DEF DefaultIsFirst, ManagerTypes
      <4>. QED
        BY <1>4, <1>5, <1>9, <3>2, <4>1
    <3>. QED
      BY <3>1, <3>2
  <2>. QED
    BY <1>5, <2>1, <2>2, <2>3 DEF DefaultIsFirst
<1>. QED
  BY <1>6, <1>7, <1>8, <1>10, <1>11, <1>12 DEF Recorded

\* The default stream is looked up: with no overlap and the key 0 not removed, a
\* thread that looks finds it, and it is the first.
LEMMA LookupSteps ==
    ASSUME ManagerInv, NEW t \in Threads, Lookup(t), UNCHANGED removed, Recorded
    PROVE  ManagerInv'
<1>. USE DEF ManagerInv
<1>1. /\ pc \in [Threads -> {"idle", "fetch", "insert", "lookup", "create", "null", "invalid"}]
      /\ mine \in [Threads -> DOMAIN streams \union {Null}]
      /\ \A k \in DOMAIN context_map : context_map[k] \in DOMAIN streams \union {Null}
      /\ DOMAIN context_map \subseteq Keys /\ 0 \in Keys
      /\ stream_id_ \in Nat /\ DOMAIN streams = 1 .. Len(streams) /\ Len(streams) \in Nat
  BY InputStreamsAssumption DEF ManagerTypes, Keys
<1>2. pc[t] = "lookup" /\ UNCHANGED <<stream_id_, streams, held, purpose, key, served>>
  BY DEF Lookup
<1>3. ASSUME ~overlapped, 0 \notin removed
      PROVE  /\ DefaultIsThere /\ context_map[0] = 1
             /\ \A u \in Threads : pc[u] # "insert"
  <2>1. \A u \in Threads : pc[u] # "insert"
    BY <1>2, <1>3 DEF AloneAtMap
  <2>2. Len(streams) > 0 /\ 1 \in DOMAIN streams /\ 1 - 1 = 0
    <3>1. stream_id_ > 0 /\ stream_id_ = Len(streams)
      BY <1>2, <1>3, <2>1 DEF InOrderOfKeys, DefaultIsFirst
    <3>. QED
      BY <1>1, <3>1
  <2>3. 0 \in DOMAIN context_map /\ context_map[0] = 1
    BY <1>3, <2>2 DEF MapHasStreams
  <2>. QED
    BY <2>1, <2>3 DEF DefaultIsThere, Null
<1>4. PICK here \in {"create", "null"}, s \in DOMAIN streams \union {Null} :
        /\ pc' = [pc EXCEPT ![t] = here] /\ mine' = [mine EXCEPT ![t] = s]
        /\ here = "create" => s # Null
        /\ context_map' = context_map \/ (0 \notin DOMAIN context_map /\ Put(0, Null))
        /\ ~overlapped /\ 0 \notin removed => here = "create" /\ s = 1
  <2>1. CASE Found(t)
    <3>1. context_map[0] \in DOMAIN streams /\ context_map[0] # Null
      BY <1>1, <2>1 DEF Found, DefaultIsThere
    <3>. QED
      BY <1>3, <2>1, <3>1 DEF Found, Goto
  <2>2. CASE /\ ~DefaultIsThere \/ \E u \in Threads : pc[u] = "insert"
             /\ IF 0 \in DOMAIN context_map THEN UNCHANGED context_map ELSE Put(0, Null)
             /\ Goto(t, "null")
             /\ UNCHANGED mine
    <3>1. mine' = [mine EXCEPT ![t] = mine[t]] /\ mine[t] \in DOMAIN streams \union {Null}
      BY <1>1, <2>2
    <3>2. ~(~overlapped /\ 0 \notin removed)
      BY <1>3, <2>2
    <3>. QED
      BY <2>2, <3>1, <3>2 DEF Goto
  <2>. QED
    BY <2>1, <2>2 DEF Lookup
<1>5. /\ pc'[t] = here /\ mine'[t] = s
      /\ \A u \in Threads \ {t} : pc'[u] = pc[u] /\ mine'[u] = mine[u]
  BY <1>1, <1>4
<1>6. ManagerTypes'
  <2>1. /\ DOMAIN context_map' \subseteq Keys
        /\ \A k \in DOMAIN context_map' : context_map'[k] \in DOMAIN streams \union {Null}
    BY <1>1, <1>4 DEF Put
  <2>2. mine' \in [Threads -> DOMAIN streams \union {Null}]
    BY <1>1, <1>4
  <2>3. pc' \in [Threads -> {"idle", "fetch", "insert", "lookup", "create", "null", "invalid"}]
    BY <1>1, <1>4
  <2>. QED
    BY <1>2, <2>1, <2>2, <2>3 DEF ManagerTypes, Recorded
<1>7. HasKeyOrStream' /\ IdsAreKeys'
  BY <1>2, <1>4, <1>5 DEF HasKeyOrStream, IdsAreKeys
<1>8. InOrderOfKeys'
  BY <1>2, <1>4, <1>5 DEF InOrderOfKeys, Recorded
<1>9. MapHasStreams'
  <2>. SUFFICES ASSUME ~overlapped, NEW i \in DOMAIN streams, i - 1 \notin removed
                PROVE  i - 1 \in DOMAIN context_map' /\ context_map'[i - 1] = i
    BY <1>2 DEF MapHasStreams, Recorded
  <2>1. i - 1 \in DOMAIN context_map /\ context_map[i - 1] = i
    BY DEF MapHasStreams
  <2>. QED
    BY <1>4, <2>1 DEF Put
<1>10. DefaultIsFirst'
  BY <1>2, <1>4, <1>5 DEF DefaultIsFirst, Recorded
<1>. QED
  BY <1>6, <1>7, <1>8, <1>9, <1>10 DEF Recorded

\* Packets are made; streams keep their ids and their places.
LEMMA PacketSteps ==
    ASSUME ManagerInv, NEW t \in Threads, UNCHANGED removed, Recorded,
           CreateDefaultPacket(t) \/ \E s \in DOMAIN streams : CreateOwnPacket(t, s)
    PROVE  ManagerInv'
<1>. USE DEF ManagerInv
<1>1. /\ pc \in [Threads -> {"idle", "fetch", "insert", "lookup", "create", "null", "invalid"}]
      /\ mine \in [Threads -> DOMAIN streams \union {Null}]
      /\ streams \in Seq(Stream) /\ MaxPackets \in Nat
  BY InputStreamsAssumption DEF ManagerTypes
<1>2. UNCHANGED <<stream_id_, context_map, held, purpose, key>>
  BY DEF CreateDefaultPacket, CreateOwnPacket
<1>3. PICK here \in {"idle", "invalid"}, s \in DOMAIN streams :
        /\ pc[t] \in {"idle", "create"} /\ pc' = [pc EXCEPT ![t] = here]
        /\ CreatePacket(s) \/ UNCHANGED streams
        /\ mine' = mine \/ mine' = [mine EXCEPT ![t] = Null]
        /\ served' = served \/ (served' = served \union {s} /\ s = mine[t])
  <2>1. CASE CreateDefaultPacket(t)
    <3>1. mine[t] \in DOMAIN streams /\ pc[t] = "create"
      BY <1>1, <2>1 DEF CreateDefaultPacket, HasKeyOrStream
    <3>. QED
      BY <2>1, <3>1 DEF CreateDefaultPacket, Goto
  <2>2. ASSUME NEW s \in DOMAIN streams, CreateOwnPacket(t, s)
        PROVE  \E here \in {"idle", "invalid"} :
                 /\ pc[t] \in {"idle", "create"} /\ pc' = [pc EXCEPT ![t] = here]
                 /\ CreatePacket(s) \/ UNCHANGED streams
                 /\ mine' = mine /\ served' = served
    <3>1. CASE UNCHANGED pc
      <4>1. pc' = [pc EXCEPT ![t] = "idle"]
        BY <1>1, <2>2, <3>1 DEF CreateOwnPacket
      <4>. QED
        BY <2>2, <4>1 DEF CreateOwnPacket
    <3>2. CASE Goto(t, "invalid")
      BY <2>2, <3>2 DEF CreateOwnPacket, Goto
    <3>. QED
      BY <2>2, <3>1, <3>2 DEF CreateOwnPacket
  <2>. QED
    BY <2>1, <2>2
<1>4. /\ streams' \in Seq(Stream) /\ Len(streams') = Len(streams) /\ DOMAIN streams' = DOMAIN streams
      /\ \A i \in DOMAIN streams : streams'[i].id = streams[i].id
  BY <1>1, <1>3, MadePacket
<1>5. /\ pc'[t] = here /\ mine'[t] \in {mine[t], Null}
      /\ \A u \in Threads \ {t} : pc'[u] = pc[u] /\ mine'[u] = mine[u]
  BY <1>1, <1>3
<1>6. ManagerTypes'
  <2>1. mine' \in [Threads -> DOMAIN streams \union {Null}] /\ served' \subseteq DOMAIN streams
    BY <1>1, <1>3 DEF ManagerTypes
  <2>2. pc' \in [Threads -> {"idle", "fetch", "insert", "lookup", "create", "null", "invalid"}]
    BY <1>1, <1>3
  <2>. QED
    BY <1>2, <1>4, <2>1, <2>2 DEF ManagerTypes, Recorded
<1>7. HasKeyOrStream' /\ IdsAreKeys'
  BY <1>2, <1>3, <1>4, <1>5 DEF HasKeyOrStream, IdsAreKeys
<1>8. InOrderOfKeys' /\ MapHasStreams'
  BY <1>2, <1>3, <1>4, <1>5 DEF InOrderOfKeys, MapHasStreams, Recorded
<1>9. DefaultIsFirst'
  <2>1. ~overlapped /\ 0 \notin removed => served' \subseteq {1}
    <3>1. s # Null
      BY <1>1 DEF Null
    <3>. QED
      BY <1>3, <3>1 DEF DefaultIsFirst
  <2>. QED
    BY <1>2, <1>3, <1>5, <2>1 DEF DefaultIsFirst, Recorded
<1>. QED
  BY <1>6, <1>7, <1>8, <1>9 DEF Recorded

\* A stream is dropped, or removed from the map, which is remembered.
LEMMA RemoveSteps ==
    ASSUME ManagerInv, Recorded,
           \/ (\E s \in DOMAIN streams : DropStream(s)) /\ UNCHANGED removed
           \/ \E k \in Keys : RemoveStreamContext(k) /\ removed' = removed \union {k}
    PROVE  ManagerInv'
<1>. USE DEF ManagerInv
<1>1. UNCHANGED <<stream_id_, streams, threadVars, served>>
  BY DEF DropStream, RemoveStreamContext
<1>2. PICK R \in SUBSET Keys :
        /\ removed' = removed \union R
        /\ DOMAIN context_map' = DOMAIN context_map \ R
        /\ \A k \in DOMAIN context_map' : context_map'[k] = context_map[k]
        /\ held' \subseteq held
  <2>1. CASE (\E s \in DOMAIN streams : DropStream(s)) /\ UNCHANGED removed
    <3>1. /\ removed' = removed \union {} /\ context_map' = context_map
          /\ DOMAIN context_map' = DOMAIN context_map \ {} /\ held' \subseteq held
      BY <2>1 DEF DropStream
    <3>2. \A k \in DOMAIN context_map' : context_map'[k] = context_map[k]
      BY <3>1
    <3>3. {} \in SUBSET Keys
      OBVIOUS
    <3>. QED
      BY <3>1, <3>2, <3>3
  <2>2. ASSUME NEW k \in Keys, RemoveStreamContext(k), removed' = removed \union {k}
        PROVE  /\ {k} \in SUBSET Keys
               /\ DOMAIN context_map' = DOMAIN context_map \ {k}
               /\ \A j \in DOMAIN context_map' : context_map'[j] = context_map[j]
               /\ held' \subseteq held
    BY <2>2 DEF RemoveStreamContext
  <2>. QED
    BY <2>1, <2>2
<1>3. ManagerTypes'
  BY <1>1, <1>2 DEF ManagerTypes, threadVars, Recorded
<1>4. HasKeyOrStream' /\ IdsAreKeys' /\ InOrderOfKeys'
  BY <1>1 DEF HasKeyOrStream, IdsAreKeys, InOrderOfKeys, threadVars, Recorded
<1>5. MapHasStreams'
  BY <1>1, <1>2 DEF MapHasStreams, Recorded
<1>6. DefaultIsFirst'
  BY <1>1, <1>2 DEF DefaultIsFirst, threadVars, Recorded
<1>. QED
  BY <1>3, <1>4, <1>5, <1>6 DEF Recorded

\* Only the manager's variables change.
LEMMA ManagerSteps == ASSUME IInv, ManagerStep PROVE IInv'
<1>. USE DEF IInv
<1>1. UNCHANGED dataVars
  BY DEF ManagerStep
<1>2. DataInv'
  BY <1>1 DEF dataVars, DataInv, DataTypes, DataInOrder, NeverEarlier, ExactBackwards, Data, Places,
     CountsAgree, Tags
<1>3. Recorded
  <2>1. overlapped' =
          (\/ overlapped
           \/ \E t, u \in Threads : t # u /\ Making(t) /\ (Making(u) \/ pc'[u] = "lookup"))
    BY DEF ManagerStep
  <2>2. overlapped' \in BOOLEAN
    BY <2>1
  <2>3. ~overlapped' => ~overlapped
    BY <2>1
  <2>4. AloneAtMap'
    BY <2>1 DEF AloneAtMap, Making
  <2>. QED
    BY <2>2, <2>3, <2>4 DEF Recorded
<1>4. ASSUME NEW t \in Threads, UNCHANGED removed,
             \/ AskForStream(t) \/ AskForPacket(t) \/ FetchAdd(t) \/ Insert(t)
             \/ Lookup(t) \/ CreateDefaultPacket(t)
             \/ \E s \in DOMAIN streams : CreateOwnPacket(t, s)
      PROVE  ManagerInv'
  BY <1>3, <1>4, AskSteps, InsertSteps, LookupSteps, PacketSteps
<1>5. CASE \/ (\E s \in DOMAIN streams : DropStream(s)) /\ UNCHANGED removed
           \/ \E k \in Keys : RemoveStreamContext(k) /\ removed' = removed \union {k}
  BY <1>2, <1>3, <1>5, RemoveSteps
<1>. QED
  BY <1>2, <1>4, <1>5 DEF ManagerStep

-----------------------------------------------------------------------------
(***************************************************************************)
(* The theorems.                                                           *)
(***************************************************************************)

\* No stream, no key, no datum.
LEMMA InitEstablishes == Init => IInv
<1>. SUFFICES ASSUME Init PROVE IInv
  OBVIOUS
<1>. USE InputStreamsAssumption DEF Init
<1>1. ManagerTypes
  <2>1. streams \in Seq(Stream) /\ DOMAIN context_map = {}
    OBVIOUS
  <2>2. key \in [Threads -> Keys \union {Null}] /\ mine \in [Threads -> DOMAIN streams \union {Null}]
    OBVIOUS
  <2>3. overlapped \in BOOLEAN
    OBVIOUS
  <2>4. stream_id_ \in 0 .. MaxStreams /\ removed \subseteq Keys
    <3>1. stream_id_ = 0 /\ removed = {} /\ MaxStreams \in Nat
      BY Zenon
    <3>. QED
      BY ONLY <3>1
  <2>5. /\ pc \in [Threads -> {"idle", "fetch", "insert", "lookup", "create", "null", "invalid"}]
        /\ purpose \in [Threads -> {"packet", "stream"}]
    OBVIOUS
  <2>6. held \subseteq DOMAIN streams /\ served \subseteq DOMAIN streams
    OBVIOUS
  <2>. QED
    BY ONLY <2>1, <2>2, <2>3, <2>4, <2>5, <2>6 DEF ManagerTypes
<1>2. HasKeyOrStream /\ IdsAreKeys /\ AloneAtMap /\ InOrderOfKeys /\ MapHasStreams /\ DefaultIsFirst
  BY DEF HasKeyOrStream, IdsAreKeys, AloneAtMap, InOrderOfKeys, MapHasStreams, DefaultIsFirst, Null
<1>3. DOMAIN Places = {} /\ Data = <<>>
  BY DEF Places, Data, EmptyCollection
<1>4. DataTypes
  BY <1>3, FS_EmptySet DEF DataTypes, CountsAgree, Tags, Places, Data
<1>5. DataInOrder /\ NeverEarlier /\ ExactBackwards
  BY <1>3 DEF DataInOrder, NeverEarlier, ExactBackwards
<1>. QED
  BY <1>1, <1>2, <1>4, <1>5 DEF IInv, ManagerInv, DataInv

\* Every step of the threads and of a stream's data keeps the invariant.
THEOREM Invariant == Spec => []IInv
<1>1. ASSUME IInv, [Next]_vars PROVE IInv'
  <2>1. CASE ManagerStep
    BY <1>1, <2>1, ManagerSteps
  <2>2. CASE DataStep
    BY <1>1, <2>2, DataSteps
  <2>3. CASE UNCHANGED vars
    <3>1. UNCHANGED <<managerVars, threadVars, served, overlapped, removed, dataVars>>
      BY <2>3 DEF vars
    <3>2. ManagerTypes'
      BY <1>1, <3>1 DEF IInv, ManagerInv, ManagerTypes, managerVars, threadVars
    <3>3. (HasKeyOrStream /\ IdsAreKeys /\ AloneAtMap /\ InOrderOfKeys /\ MapHasStreams /\ DefaultIsFirst)'
      BY <1>1, <3>1 DEF IInv, ManagerInv, HasKeyOrStream, IdsAreKeys, AloneAtMap, InOrderOfKeys,
         MapHasStreams, DefaultIsFirst, managerVars, threadVars
    <3>4. DataInv'
      BY <1>1, <3>1 DEF IInv, dataVars, DataInv, DataTypes, DataInOrder, NeverEarlier, ExactBackwards,
         Data, Places, CountsAgree, Tags
    <3>. QED
      BY <3>2, <3>3, <3>4 DEF IInv, ManagerInv
  <2>. QED
    BY <1>1, <2>1, <2>2, <2>3 DEF Next
<1>. QED
  BY <1>1, InitEstablishes, PTL DEF Spec

\* The manager's variables keep their types, whatever its threads do, and a
\* collection has as many data as tags, which GetNumEntries asserts.
THEOREM TypeCorrect == Spec => []TypeOK
<1>1. IInv => TypeOK
  BY DEF IInv, ManagerInv, ManagerTypes, DataInv, DataTypes, TypeOK, Stream, Data, Places, Tags
<1>. QED
  BY <1>1, Invariant, PTL

\* While uint8_t has enough values for the streams, any threads that make streams
\* and packets, together or one after the other, make no two streams whose
\* packets share an id.
THEOREM IdsAreUnique == Spec => []PacketIdsAreUnique
<1>1. IInv => PacketIdsAreUnique
  BY DEF IInv, ManagerInv, IdsAreKeys, PacketIdsAreUnique
<1>. QED
  BY <1>1, Invariant, PTL

\* Calls of CreatePacket that meet no making of a stream get packets of the first
\* stream, and never dereference null.
THEOREM DefaultIsTheFirst == Spec => []DefaultStreamServes
<1>1. IInv => DefaultStreamServes
  BY DEF IInv, ManagerInv, DefaultIsFirst, DefaultStreamServes
<1>. QED
  BY <1>1, Invariant, PTL

\* The map keeps every stream that calls without overlap made.
THEOREM MapKeepsStreams == Spec => []StreamsOutlivePackets
<1>1. IInv => StreamsOutlivePackets
  BY DEF IInv, ManagerInv, MapHasStreams, StreamsOutlivePackets, Alive
<1>. QED
  BY <1>1, Invariant, PTL

\* Whatever order tags are added and removed in, none leads to a datum older than
\* its own, and each leads to its own as long as removals go backwards.
THEOREM TagsLeadToData == Spec => []TagsShowTheirData
<1>1. ASSUME IInv PROVE TagsShowTheirData
  <2>. SUFFICES ASSUME NEW tag \in Tags(collection)
                PROVE  /\ backwards => Get(collection, tag) = stored[tag]
                       /\ Get(collection, tag) # Undefined => Get(collection, tag) >= stored[tag]
    BY DEF TagsShowTheirData
  <2>1. /\ tag \in DOMAIN Places
        /\ Get(collection, tag) =
             IF Places[tag] < Len(Data) THEN Data[Places[tag] + 1] ELSE Undefined
    BY DEF Get, GetAt, Tags, Places, Data
  <2>2. backwards => Places[tag] < Len(Data) /\ Data[Places[tag] + 1] = stored[tag]
    BY <1>1, <2>1 DEF IInv, DataInv, ExactBackwards
  <2>3. Places[tag] < Len(Data) => Data[Places[tag] + 1] >= stored[tag]
    BY <1>1, <2>1 DEF IInv, DataInv, NeverEarlier
  <2>. QED
    BY <2>1, <2>2, <2>3
<1>. QED
  BY <1>1, Invariant, PTL
=============================================================================
