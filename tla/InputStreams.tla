---------------------------- MODULE InputStreams ----------------------------
(***************************************************************************)
(* InputStreamManager, which application threads ask for streams and,      *)
(* through GraphHelper::CreatePacket, for packets of the default stream;   *)
(* the numbering of packets by their stream; and the tagged data that      *)
(* InputStreamContextDefault keeps for a stream.                           *)
(*                                                                         *)
(* context_map_ has no lock.  An insertion while another thread is at the  *)
(* map may be lost, and a lookup meanwhile may miss; further outcomes of   *)
(* the race are not distinguished from these.  A thread that dereferences  *)
(* a null stream ends in "null", one that fails the assertion on the       *)
(* stream's id, which only builds with DEBUG have, in "invalid".           *)
(***************************************************************************)
EXTENDS Collection

CONSTANTS
    Threads,
    UintBound,      \* the number of values of uint8_t; the last one is kInputStreamId
    MaxStreams,     \* bound: streams made
    MaxPackets,     \* bound: packets made of one stream
    DataTags,
    MaxData         \* bound: data stored with a stream

ASSUME InputStreamsAssumption ==
    /\ UintBound \in Nat \ {0} /\ MaxStreams \in Nat \ {0}
    /\ MaxPackets \in Nat /\ MaxData \in Nat

Null == -1
Keys == 0 .. MaxStreams - 1

VARIABLES
    stream_id_,     \* the counter
    context_map,    \* context_map_: keys to streams, a stream being its number in streams
    streams,        \* the streams made: their id (uint8_t) and packet_id_
    pc,
    purpose,        \* what a thread asks the manager for: "packet" | "stream"
    key,            \* the key drawn from the counter
    mine,           \* the stream a thread is about to make a packet of
    held,           \* the streams the application holds
    served,         \* history: the streams of the packets GraphHelper::CreatePacket made
    overlapped,     \* history: a thread was at the map while another was making a stream
    removed,        \* history: keys given to RemoveStreamContext
    collection,     \* collections_ of the first stream; those of other streams are like it
    stored,         \* history: the datum AddData stored under a tag
    given,          \* history: the number of data stored
    backwards       \* history: tags were removed in the reverse order of their addition

managerVars == <<stream_id_, context_map, streams, held>>
threadVars  == <<pc, purpose, key, mine>>
dataVars    == <<collection, stored, given, backwards>>
vars == <<managerVars, threadVars, served, overlapped, removed, dataVars>>

Init ==
    /\ stream_id_ = 0
    /\ context_map = <<>>
    /\ streams = <<>>
    /\ pc = [t \in Threads |-> "idle"]
    /\ purpose = [t \in Threads |-> "stream"]
    /\ key = [t \in Threads |-> Null]
    /\ mine = [t \in Threads |-> Null]
    /\ held = {}
    /\ served = {}
    /\ overlapped = FALSE
    /\ removed = {}
    /\ collection = EmptyCollection
    /\ stored = <<>>
    /\ given = 0
    /\ backwards = TRUE

-----------------------------------------------------------------------------
(***************************************************************************)
(* The manager.                                                            *)
(***************************************************************************)
Making(t) == pc'[t] \in {"fetch", "insert"}
Races(t)  == \E u \in Threads \ {t} : pc[u] \in {"insert", "lookup"}

Goto(t, label) == pc' = [pc EXCEPT ![t] = label]
Put(k, s) == context_map' = [j \in DOMAIN context_map \union {k} |->
                                IF j = k THEN s ELSE context_map[j]]

\* CreateInputStreamContext.
AskForStream(t) ==
    /\ pc[t] = "idle"
    /\ purpose' = [purpose EXCEPT ![t] = "stream"]
    /\ Goto(t, "fetch")
    /\ UNCHANGED <<managerVars, key, mine, served>>

\* GraphHelper::CreatePacket, DefaultStreamContext: the counter is read.
AskForPacket(t) ==
    /\ pc[t] = "idle"
    /\ purpose' = [purpose EXCEPT ![t] = "packet"]
    /\ Goto(t, IF stream_id_ = 0 THEN "fetch" ELSE "lookup")
    /\ UNCHANGED <<managerVars, key, mine, served>>

\* Mutant: the key is drawn from the size of the map.
FetchAddFromSize(t) ==
    /\ pc[t] = "fetch"
    /\ stream_id_ < MaxStreams
    /\ key' = [key EXCEPT ![t] = Cardinality(DOMAIN context_map)]
    /\ stream_id_' = stream_id_ + 1
    /\ Goto(t, "insert")
    /\ UNCHANGED <<context_map, streams, held, purpose, mine, served>>

\* GenerateStreamContext draws a key...
FetchAdd(t) ==
    /\ pc[t] = "fetch"
    /\ stream_id_ < MaxStreams
    /\ key' = [key EXCEPT ![t] = stream_id_]
    /\ stream_id_' = stream_id_ + 1
    /\ Goto(t, "insert")
    /\ UNCHANGED <<context_map, streams, held, purpose, mine, served>>

\* Mutant: a stream that is made for the application is not put in the map.
InsertDefaultOnly(t) ==
    /\ pc[t] = "insert"
    /\ streams' = Append(streams, [id |-> key[t] % UintBound, packets |-> 0])
    /\ IF purpose[t] = "stream"
       THEN held' = held \union {Len(streams')} /\ UNCHANGED <<mine, context_map>>
       ELSE mine' = [mine EXCEPT ![t] = Len(streams')] /\ Put(key[t], Len(streams')) /\ UNCHANGED held
    /\ Goto(t, IF purpose[t] = "stream" THEN "idle" ELSE "create")
    /\ key' = [key EXCEPT ![t] = Null]
    /\ UNCHANGED <<stream_id_, purpose, served>>

\* ...SetId truncates it to uint8_t, and the stream is put in the map.
Insert(t) ==
    /\ pc[t] = "insert"
    /\ streams' = Append(streams, [id |-> key[t] % UintBound, packets |-> 0])
    /\ \/ Put(key[t], Len(streams'))
       \/ Races(t) /\ UNCHANGED context_map
    /\ IF purpose[t] = "stream"
       THEN held' = held \union {Len(streams')} /\ UNCHANGED mine
       ELSE mine' = [mine EXCEPT ![t] = Len(streams')] /\ UNCHANGED held
    /\ Goto(t, IF purpose[t] = "stream" THEN "idle" ELSE "create")
    /\ key' = [key EXCEPT ![t] = Null]
    /\ UNCHANGED <<stream_id_, purpose, served>>

DefaultIsThere == 0 \in DOMAIN context_map /\ context_map[0] # Null

Found(t) ==
    /\ DefaultIsThere
    /\ mine' = [mine EXCEPT ![t] = context_map[0]]
    /\ Goto(t, "create")
    /\ UNCHANGED context_map

\* Mutant: the default stream is the last one made.
LookupLast(t) ==
    /\ pc[t] = "lookup"
    /\ streams # <<>>
    /\ mine' = [mine EXCEPT ![t] = Len(streams)]
    /\ Goto(t, "create")
    /\ UNCHANGED <<managerVars, purpose, key, served>>

\* context_map_[0], which puts a null pointer there if there is nothing; the
\* null pointer is dereferenced by CreatePacket.
Lookup(t) ==
    /\ pc[t] = "lookup"
    /\ \/ Found(t)
       \/ /\ ~DefaultIsThere \/ \E u \in Threads : pc[u] = "insert"
          /\ IF 0 \in DOMAIN context_map THEN UNCHANGED context_map ELSE Put(0, Null)
          /\ Goto(t, "null")
          /\ UNCHANGED mine
    /\ UNCHANGED <<stream_id_, streams, held, purpose, key, served>>

\* InputStreamContext::CreatePacket.
CreatePacket(s) ==
    /\ streams[s].packets < MaxPackets
    /\ streams' = [streams EXCEPT ![s].packets = @ + 1]

\* InputPktId asserts that the stream's id is not the last value, in builds
\* that define DEBUG; other builds make the packet.
IdIsInvalid(s) == streams[s].id = UintBound - 1

CreateDefaultPacket(t) ==
    /\ pc[t] = "create"
    /\ \/ /\ CreatePacket(mine[t])
          /\ served' = served \union {mine[t]}
          /\ Goto(t, "idle")
       \/ /\ IdIsInvalid(mine[t])
          /\ Goto(t, "invalid")
          /\ UNCHANGED <<streams, served>>
    /\ mine' = [mine EXCEPT ![t] = Null]
    /\ UNCHANGED <<stream_id_, context_map, held, purpose, key>>

\* A packet of a stream the application holds.
CreateOwnPacket(t, s) ==
    /\ pc[t] = "idle"
    /\ s \in held
    /\ \/ CreatePacket(s) /\ UNCHANGED pc
       \/ IdIsInvalid(s) /\ Goto(t, "invalid") /\ UNCHANGED streams
    /\ UNCHANGED <<stream_id_, context_map, held, purpose, key, mine, served>>

DropStream(s) ==
    /\ s \in held
    /\ held' = held \ {s}
    /\ UNCHANGED <<stream_id_, context_map, streams, threadVars, served>>

RemoveStreamContext(k) ==
    /\ k \in DOMAIN context_map
    /\ context_map' = [j \in DOMAIN context_map \ {k} |-> context_map[j]]
    /\ UNCHANGED <<stream_id_, streams, held, threadVars, served>>

ManagerStep ==
    /\ \/ /\ \/ \E t \in Threads :
                    \/ AskForStream(t) \/ AskForPacket(t) \/ FetchAdd(t) \/ Insert(t)
                    \/ Lookup(t) \/ CreateDefaultPacket(t)
                    \/ \E s \in DOMAIN streams : CreateOwnPacket(t, s)
             \/ \E s \in DOMAIN streams : DropStream(s)
          /\ UNCHANGED removed
       \/ \E k \in Keys : RemoveStreamContext(k) /\ removed' = removed \union {k}
    /\ overlapped' =
        \/ overlapped
        \/ \E t, u \in Threads : t # u /\ Making(t) /\ (Making(u) \/ pc'[u] = "lookup")
    /\ UNCHANGED dataVars

-----------------------------------------------------------------------------
(***************************************************************************)
(* The data of a stream; like the map, they are not locked, and calls on   *)
(* one stream do not overlap.                                              *)
(***************************************************************************)

\* A stream lives as long as the map, the application or a thread has it: a
\* packet's pointer to its stream is weak.
Alive(s) ==
    \/ \E k \in DOMAIN context_map : context_map[k] = s
    \/ s \in held
    \/ \E t \in Threads : mine[t] = s

AddData(tag) ==
    /\ given < MaxData
    /\ ~HasTag(collection, tag)
    /\ collection' = AfterAddTag(collection, tag, given + 1)
    /\ stored' = [t \in Tags(collection') |-> IF t = tag THEN given + 1 ELSE stored[t]]
    /\ given' = given + 1
    /\ UNCHANGED backwards

DeleteData(tag) ==
    /\ HasTag(collection, tag)
    /\ RemovesInside(collection, tag)
    /\ collection' = AfterRemoveTag(collection, tag)
    /\ stored' = [t \in Tags(collection') |-> stored[t]]
    /\ backwards' = (backwards /\ \A t \in Tags(collection) : stored[t] <= stored[tag])
    /\ UNCHANGED given

DataStep ==
    /\ streams # <<>> /\ Alive(1)
    /\ \E tag \in DataTags : AddData(tag) \/ DeleteData(tag)
    /\ UNCHANGED <<managerVars, threadVars, served, overlapped, removed>>

Next == ManagerStep \/ DataStep

Spec == Init /\ [][Next]_vars

-----------------------------------------------------------------------------
(***************************************************************************)
(* Properties                                                              *)
(***************************************************************************)

\* The variables keep their types; the data are as many as the tags, which
\* GetNumEntries asserts, and a tag's position is inside the vector or stale.
TypeOK ==
    /\ stream_id_ \in 0 .. MaxStreams
    /\ DOMAIN context_map \subseteq Keys
    /\ \A k \in DOMAIN context_map : context_map[k] \in DOMAIN streams \union {Null}
    /\ streams \in Seq([id : 0 .. UintBound - 1, packets : 0 .. MaxPackets])
    /\ pc \in [Threads -> {"idle", "fetch", "insert", "lookup", "create", "null", "invalid"}]
    /\ purpose \in [Threads -> {"packet", "stream"}]
    /\ key \in [Threads -> Keys \union {Null}]
    /\ mine \in [Threads -> DOMAIN streams \union {Null}]
    /\ held \subseteq DOMAIN streams /\ served \subseteq DOMAIN streams
    /\ overlapped \in BOOLEAN /\ backwards \in BOOLEAN
    /\ removed \subseteq Keys
    /\ CountsAgree(collection)
    /\ Tags(collection) = DOMAIN stored
    /\ \A tag \in Tags(collection) : collection.tag_map[tag] \in 0 .. given - 1
    /\ given \in 0 .. MaxData

\* Packets of different streams never have the same InputPktId, as long as
\* no more streams are made than uint8_t has values, whoever makes them when.
PacketIdsAreUnique ==
    stream_id_ <= UintBound =>
        \A i, j \in DOMAIN streams :
            i # j /\ streams[i].packets > 0 /\ streams[j].packets > 0
                => streams[i].id # streams[j].id

\* CreatePacket may be called by several threads at once, and before or
\* after streams are made, as long as no call meets the making of a stream:
\* its packets are those of one stream, the first, and it never finds null.
DefaultStreamServes ==
    ~overlapped /\ 0 \notin removed =>
        /\ served \subseteq {1}
        /\ \A t \in Threads : pc[t] # "null"

\* Packets point to their streams weakly: unless calls met or the stream was
\* removed, the map keeps every stream when the application has dropped it.
StreamsOutlivePackets ==
    ~overlapped /\ removed = {} => \A s \in DOMAIN streams : Alive(s)

\* The datum found under a tag is the one stored under it, as long as tags
\* are removed in the reverse order of their addition; after any other removal
\* it may be a datum stored later, or past the end, but never an earlier one.
TagsShowTheirData ==
    \A tag \in Tags(collection) :
        LET datum == Get(collection, tag) IN
        /\ backwards => datum = stored[tag]
        /\ datum # Undefined => datum >= stored[tag]
=============================================================================
