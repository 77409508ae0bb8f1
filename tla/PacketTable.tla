---------------------------- MODULE PacketTable ----------------------------
(***************************************************************************)
(* The table of packet contexts of a graph (packet_contexts_, src/graph.cc)*)
(* between the application's calls and the scheduler's threads: who enters *)
(* a packet, who may take it out again, and what the callers are told.     *)
(* The graph itself is left abstract here: an accepted packet is being     *)
(* run, and at some point its graph node finishes it (AsyncGraph has the   *)
(* details).  Tasks hold a packet's context through weak pointers, so the  *)
(* table is what keeps a running packet alive.                             *)
(***************************************************************************)
EXTENDS Integers, FiniteSets

CONSTANTS
    NumStreams,     \* streams the application creates
    NumStreamIds,   \* a stream id is a uint8_t: 256
    PktsPerStream,
    FlowLimit       \* 20

ASSUME PacketTableAssumption ==
    /\ NumStreams \in Nat
    /\ NumStreamIds \in Nat \ {0}
    /\ PktsPerStream \in Nat
    /\ FlowLimit \in Nat \ {0}

Packets == [stream : 0 .. NumStreams - 1, id : 0 .. PktsPerStream - 1]

\* An InputPktId has the stream id in its high 8 bits and the packet id in
\* its low 56 bits; the stream counter is truncated to the 8 bits.
Keys      == (0 .. NumStreamIds - 1) \X (0 .. PktsPerStream - 1)

\* Mutant: the stream id is not shifted.
FullIdUnshifted(p) == <<0, p.stream + p.id>>

FullId(p) == <<p.stream % NumStreamIds, p.id>>

\* Packet::GetId has only the low bits; as a key that is stream 0.
LowId(p) == <<0, p.id>>

VARIABLES
    hasCallback,    \* a result callback is registered
    table,          \* packet_contexts_: a function from keys to packets
    finished,       \* packets whose finished_ flag is set
    call,           \* per packet: where the application's call stands
    run,            \* per packet: where the scheduler's threads stand
    queried,        \* per packet: how many queries returned its result
    calledBack      \* packets whose result the callback got

vars == <<hasCallback, table, finished, call, run, queried, calledBack>>

Init ==
    /\ hasCallback \in BOOLEAN
    /\ table = [k \in {} |-> 0]
    /\ finished = {}
    /\ call = [p \in Packets |-> "new"]
    /\ run = [p \in Packets |-> "none"]
    /\ queried = [p \in Packets |-> 0]
    /\ calledBack = {}

\* packet_contexts_[k] = p and packet_contexts_.erase(k)
With(k, p)  == [j \in DOMAIN table \union {k} |-> IF j = k THEN p ELSE table[j]]
Without(k)  == [j \in DOMAIN table \ {k} |-> table[j]]

\* IsPacketProcessFinished
IsFinished(k) == k \in DOMAIN table /\ table[k] \in finished

(***************************************************************************)
(* The application.                                                        *)
(***************************************************************************)

\* Mutant: one packet more.
AcceptsOneMore == Cardinality(DOMAIN table) <= FlowLimit

\* AddPacketContext refuses a packet when the table is full.
Accepts == Cardinality(DOMAIN table) < FlowLimit

\* CreatePacketContext, AddPacketContext and Schedule; then AddPacket polls
\* ("polling") and AddPacketAsync returns ("returned").
Enter(p, next) ==
    /\ call[p] = "new"
    /\ Accepts
    /\ table' = With(FullId(p), p)
    /\ run' = [run EXCEPT ![p] = "running"]
    /\ call' = [call EXCEPT ![p] = next]
    /\ UNCHANGED <<hasCallback, finished, queried, calledBack>>

AddPacket(p)      == Enter(p, "polling")
AddPacketAsync(p) == Enter(p, "returned")

FlowControl(p) ==
    /\ call[p] = "new"
    /\ ~Accepts
    /\ call' = [call EXCEPT ![p] = "refused"]
    /\ UNCHANGED <<hasCallback, table, finished, run, queried, calledBack>>

\* AddPacket polls for the packet's low id every 10 ms, a thousand times.
PollFinished(p) ==
    /\ call[p] = "polling"
    /\ IsFinished(LowId(p))
    /\ call' = [call EXCEPT ![p] = "ok"]
    /\ UNCHANGED <<hasCallback, table, finished, run, queried, calledBack>>

PollTimesOut(p) ==
    /\ call[p] = "polling"
    /\ ~IsFinished(LowId(p))
    /\ call' = [call EXCEPT ![p] = "timeout"]
    /\ UNCHANGED <<hasCallback, table, finished, run, queried, calledBack>>

\* Mutant: the context is erased whether it is finished or not.
GetResultUnchecked(k) ==
    /\ k \in DOMAIN table
    /\ queried' = IF IsFinished(k) THEN [queried EXCEPT ![table[k]] = @ + 1] ELSE queried
    /\ table' = Without(k)
    /\ UNCHANGED <<hasCallback, finished, call, run, calledBack>>

\* Mutant: the context is not erased.
GetResultKeeps(k) ==
    /\ IsFinished(k)
    /\ queried[table[k]] < 2
    /\ queried' = [queried EXCEPT ![table[k]] = @ + 1]
    /\ UNCHANGED <<hasCallback, table, finished, call, run, calledBack>>

\* GetResult returns the result and erases the context when it is finished;
\* otherwise it returns nothing and changes nothing.
GetResult(k) ==
    /\ IsFinished(k)
    /\ queried' = [queried EXCEPT ![table[k]] = @ + 1]
    /\ table' = Without(k)
    /\ UNCHANGED <<hasCallback, finished, call, run, calledBack>>

(***************************************************************************)
(* The scheduler's threads.                                                *)
(***************************************************************************)

\* Mutant: the context is erased without a callback, too.
FinishAlwaysErases(p) ==
    /\ run[p] = "running"
    /\ finished' = finished \union {p}
    /\ run' = [run EXCEPT ![p] = IF hasCallback THEN "callback" ELSE "erase"]
    /\ UNCHANGED <<hasCallback, table, call, queried, calledBack>>

\* The graph node's ProcessCtx sets finished_, and the finished callback of
\* the graph is called.
Finish(p) ==
    /\ run[p] = "running"
    /\ finished' = finished \union {p}
    /\ run' = [run EXCEPT ![p] = IF hasCallback THEN "callback" ELSE "done"]
    /\ UNCHANGED <<hasCallback, table, call, queried, calledBack>>

\* RemovePacketContextIfFinished: the result callback, without the lock...
CallBack(p) ==
    /\ run[p] = "callback"
    /\ calledBack' = calledBack \union {p}
    /\ run' = [run EXCEPT ![p] = "erase"]
    /\ UNCHANGED <<hasCallback, table, finished, call, queried>>

\* ...and the erase under it.
Erase(p) ==
    /\ run[p] = "erase"
    /\ table' = Without(FullId(p))
    /\ run' = [run EXCEPT ![p] = "done"]
    /\ UNCHANGED <<hasCallback, finished, call, queried, calledBack>>

Next ==
    \/ \E p \in Packets :
        \/ AddPacket(p) \/ AddPacketAsync(p) \/ FlowControl(p)
        \/ PollFinished(p) \/ PollTimesOut(p)
        \/ Finish(p) \/ CallBack(p) \/ Erase(p)
    \/ \E k \in Keys : GetResult(k)

Spec == Init /\ [][Next]_vars

-----------------------------------------------------------------------------
(***************************************************************************)
(* Properties                                                              *)
(***************************************************************************)

TypeOK ==
    /\ hasCallback \in BOOLEAN
    /\ DOMAIN table \subseteq Keys
    /\ \A k \in DOMAIN table : table[k] \in Packets
    /\ finished \subseteq Packets
    /\ call \in [Packets -> {"new", "polling", "returned", "refused", "ok", "timeout"}]
    /\ run \in [Packets -> {"none", "running", "callback", "erase", "done"}]
    /\ queried \in [Packets -> Nat]
    /\ calledBack \subseteq Packets

InTable(p) == FullId(p) \in DOMAIN table /\ table[FullId(p)] = p

\* No call of another thread takes a packet's context away while the graph
\* runs it: its tasks hold weak pointers only and dereference them.
RunningIsKept == \A p \in Packets : run[p] = "running" => InTable(p)

\* A result is never lost: once the threads are through with a packet, its
\* result was handed to the callback, was returned by a query, or is still
\* there for one.
NoResultLost ==
    \A p \in Packets :
        run[p] = "done" => p \in calledBack \/ queried[p] > 0 \/ InTable(p)

\* No two queries, from whichever threads, return the same result.
QueriedOnce == \A p \in Packets : queried[p] <= 1

\* The table never holds more contexts than the flow control admits.
FlowLimited == Cardinality(DOMAIN table) <= FlowLimit

\* AddPacket reports a packet as not processed only if it is not.
TimeoutMeansNotProcessed ==
    [][\A p \in Packets :
        call[p] = "polling" /\ call'[p] = "timeout" => p \notin finished]_vars
=============================================================================
