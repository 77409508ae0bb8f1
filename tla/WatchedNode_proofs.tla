------------------------- MODULE WatchedNode_proofs -------------------------
(***************************************************************************)
(* Proofs about WatchedNode, for any contexts, ids and threads, and any    *)
(* way in which the contexts got their ids.                                *)
(***************************************************************************)
EXTENDS WatchedNode, TLAPS

-----------------------------------------------------------------------------
(***************************************************************************)
(* The inductive invariant.                                                *)
(***************************************************************************)

TypeInv ==
    /\ unique_id \in [Contexts -> Ids]
    /\ fed \in [Contexts -> {"new", "watched", "queued"}]
    /\ inouts_queue \in Seq(Contexts)
    /\ pc \in [Threads -> {"out", "pop", "process", "notify"}]
    /\ ctx \in [Threads -> Contexts \union {NoContext}]
    /\ processed \subseteq Contexts
    /\ notified_id \in Seq(Ids)
    /\ served \in Seq(Contexts)
    /\ notified \subseteq Contexts

\* map_ leads from an id to a context that has it.
MapKeepsIds ==
    \A id \in DOMAIN map : map[id] \in Contexts /\ unique_id[map[id]] = id

\* A thread has a context from its Pop to its Notify.
HoldsContext ==
    \A t \in Threads : ctx[t] \in Contexts <=> pc[t] \in {"process", "notify"}

\* Contexts move one way: fed, queued, held, notified.
QueuedOnce ==
    /\ IsInjective(inouts_queue)
    /\ \A c \in Range(inouts_queue) :
        fed[c] = "queued" /\ c \notin notified /\ \A t \in Threads : ctx[t] # c

HeldOnce ==
    \A t \in Threads : ctx[t] \in Contexts =>
        /\ fed[ctx[t]] = "queued"
        /\ ctx[t] \notin notified
        /\ \A u \in Threads : ctx[u] = ctx[t] => u = t

NotifiedAfterProcess ==
    /\ \A t \in Threads : pc[t] = "notify" => ctx[t] \in processed
    /\ \A c \in notified : fed[c] = "queued" /\ c \in processed

\* The waiting thread has, or had, every watched context.
WatchedOrServed ==
    \A c \in Contexts : fed[c] # "new" => unique_id[c] \in DOMAIN map \/ c \in Range(served)

\* notified_id_ has the ids of the contexts notified and not yet served, each once.
NotifiedIds ==
    /\ IsInjective(notified_id)
    /\ \A id \in Range(notified_id) :
        \E c \in notified : unique_id[c] = id /\ c \notin Range(served)
    /\ \A c \in notified : c \in Range(served) \/ unique_id[c] \in Range(notified_id)

ServedOnce == IsInjective(served) /\ Range(served) \subseteq notified

Stages ==
    /\ HoldsContext
    /\ QueuedOnce
    /\ HeldOnce
    /\ NotifiedAfterProcess

Notifications ==
    /\ WatchedOrServed
    /\ NotifiedIds
    /\ ServedOnce
    /\ waiting # "dead"

\* The stages of a context do not depend on its id; what the waiting thread has
\* does.
IInv ==
    /\ TypeInv
    /\ MapKeepsIds
    /\ Stages
    /\ IsInjective(unique_id) => Notifications

-----------------------------------------------------------------------------
(***************************************************************************)
(* Sequences without repetitions.                                          *)
(***************************************************************************)

\* Two sequences, one behind the other.
LEMMA ConcatNoRepeats ==
    ASSUME NEW S, NEW s \in Seq(S), NEW u \in Seq(S)
    PROVE  /\ s \o u \in Seq(S)
           /\ Range(s \o u) = Range(s) \union Range(u)
           /\ IsInjective(s) /\ IsInjective(u) /\ Range(s) \intersect Range(u) = {}
                => IsInjective(s \o u)
<1>. DEFINE t == s \o u
<1>1. /\ t \in Seq(S) /\ DOMAIN t = 1 .. Len(s) + Len(u)
      /\ DOMAIN s = 1 .. Len(s) /\ DOMAIN u = 1 .. Len(u)
      /\ Len(s) \in Nat /\ Len(u) \in Nat
      /\ \A i \in DOMAIN s : t[i] = s[i]
      /\ \A i \in DOMAIN u : t[Len(s) + i] = u[i]
  OBVIOUS
<1>2. \A i \in DOMAIN t : i \in DOMAIN s \/ \E j \in DOMAIN u : i = Len(s) + j
  <2>1. ASSUME NEW i \in DOMAIN t, i \notin DOMAIN s
        PROVE  i - Len(s) \in DOMAIN u /\ i = Len(s) + (i - Len(s))
    BY <1>1, <2>1
  <2>. QED
    BY <2>1
<1>3. /\ \A i \in DOMAIN s : i \in DOMAIN t
      /\ \A i \in DOMAIN u : Len(s) + i \in DOMAIN t
  BY <1>1
<1>4. Range(t) = Range(s) \union Range(u)
  <2>1. \A x \in Range(t) : x \in Range(s) \union Range(u)
    BY <1>1, <1>2 DEF Range
  <2>2. \A x \in Range(s) \union Range(u) : x \in Range(t)
    BY <1>1, <1>3 DEF Range
  <2>. QED
    BY <2>1, <2>2
<1>5. ASSUME IsInjective(s), IsInjective(u), Range(s) \intersect Range(u) = {},
             NEW i \in DOMAIN t, NEW j \in DOMAIN t, t[i] = t[j]
      PROVE  i = j
  <2>. HIDE DEF t
  <2>1. \A k \in DOMAIN s, l \in DOMAIN u : s[k] # u[l]
    BY <1>5 DEF Range
  <2>2. CASE i \in DOMAIN s /\ j \in DOMAIN s
    BY <1>1, <1>5, <2>2 DEF IsInjective
  <2>3. CASE i \notin DOMAIN s /\ j \notin DOMAIN s
    <3>1. PICK k \in DOMAIN u, l \in DOMAIN u : i = Len(s) + k /\ j = Len(s) + l
      BY <1>2, <2>3
    <3>. QED
      BY <1>1, <1>5, <3>1 DEF IsInjective
  <2>4. CASE (i \in DOMAIN s) # (j \in DOMAIN s)
    BY <1>1, <1>2, <1>5, <2>1, <2>4
  <2>. QED
    BY <2>2, <2>3, <2>4
<1>. QED
  BY <1>1, <1>4, <1>5 DEF IsInjective

\* One more value at the end.
LEMMA AppendNoRepeats ==
    ASSUME NEW S, NEW s \in Seq(S), NEW x \in S
    PROVE  /\ Append(s, x) \in Seq(S)
           /\ Range(Append(s, x)) = Range(s) \union {x}
           /\ IsInjective(s) /\ x \notin Range(s) => IsInjective(Append(s, x))
<1>1. /\ <<x>> \in Seq(S) /\ Append(s, x) = s \o <<x>>
      /\ IsInjective(<<x>>) /\ Range(<<x>>) = {x}
  BY DEF IsInjective, Range
<1>. DEFINE u == <<x>>
<1>. HIDE DEF u
<1>2. /\ s \o u \in Seq(S)
      /\ Range(s \o u) = Range(s) \union Range(u)
      /\ IsInjective(s) /\ IsInjective(u) /\ Range(s) \intersect Range(u) = {} => IsInjective(s \o u)
  <2>. u \in Seq(S)
    BY <1>1 DEF u
  <2>. QED
    BY ConcatNoRepeats
<1>. QED
  BY <1>1, <1>2 DEF u

\* The first value, and the rest.
LEMMA TailNoRepeats ==
    ASSUME NEW S, NEW s \in Seq(S), s # <<>>
    PROVE  /\ Tail(s) \in Seq(S)
           /\ Head(s) \in S
           /\ Range(s) = Range(Tail(s)) \union {Head(s)}
           /\ IsInjective(s) => IsInjective(Tail(s)) /\ Head(s) \notin Range(Tail(s))
<1>. DEFINE t == Tail(s)
<1>1. /\ t \in Seq(S) /\ Head(s) \in S /\ Head(s) = s[1]
      /\ Len(s) \in Nat /\ Len(s) >= 1
      /\ DOMAIN s = 1 .. Len(s) /\ DOMAIN t = 1 .. Len(s) - 1
      /\ \A i \in DOMAIN t : t[i] = s[i + 1]
  OBVIOUS
<1>2. 1 \in DOMAIN s /\ \A i \in DOMAIN t : i + 1 \in DOMAIN s
  BY <1>1
<1>3. \A i \in DOMAIN s : i = 1 \/ \E j \in DOMAIN t : i = j + 1
  <2>1. ASSUME NEW i \in DOMAIN s, i # 1 PROVE i - 1 \in DOMAIN t /\ i = (i - 1) + 1
    BY <1>1, <2>1
  <2>. QED
    BY <2>1
<1>4. Range(s) = Range(t) \union {Head(s)}
  <2>1. \A x \in Range(s) : x \in Range(t) \union {Head(s)}
    BY <1>1, <1>3 DEF Range
  <2>2. \A x \in Range(t) \union {Head(s)} : x \in Range(s)
    BY <1>1, <1>2 DEF Range
  <2>. QED
    BY <2>1, <2>2
<1>5. ASSUME IsInjective(s) PROVE IsInjective(t) /\ Head(s) \notin Range(t)
  <2>1. ASSUME NEW i \in DOMAIN t, NEW j \in DOMAIN t, t[i] = t[j] PROVE i = j
    <3>1. i + 1 = j + 1
      BY <1>1, <1>2, <1>5, <2>1 DEF IsInjective
    <3>. QED
      BY <1>1, <3>1
  <2>2. ASSUME NEW i \in DOMAIN t PROVE t[i] # Head(s)
    <3>1. i + 1 # 1
      BY <1>1
    <3>. QED
      BY <1>1, <1>2, <1>5, <3>1 DEF IsInjective
  <2>. QED
    BY <2>1, <2>2 DEF IsInjective, Range
<1>. QED
  BY <1>1, <1>4, <1>5

\* Nothing repeats in an empty sequence.
LEMMA EmptyNoRepeats == IsInjective(<<>>) /\ Range(<<>>) = {}
  BY DEF IsInjective, Range

-----------------------------------------------------------------------------
(***************************************************************************)
(* The steps preserve the invariant.                                       *)
(***************************************************************************)

\* A context that is fed is nowhere else yet.  AddWatch puts it into map_ under
\* its id; if the id was there, it keeps its context.
LEMMA FeedSteps ==
    ASSUME IInv, NEW c \in Contexts, AddWatch(c) \/ AddInoutContext(c), UNCHANGED unique_id
    PROVE  IInv'
<1>. USE DEF IInv
<1>1. /\ unique_id \in [Contexts -> Ids] /\ fed \in [Contexts -> {"new", "watched", "queued"}]
      /\ inouts_queue \in Seq(Contexts)
  BY DEF TypeInv
<1>2. CASE AddWatch(c)
  <2>1. /\ UNCHANGED <<nodeVars, notified_id, waiting, stop, served, notified>>
        /\ fed[c] = "new" /\ fed' = [fed EXCEPT ![c] = "watched"]
        /\ map' = [id \in DOMAIN map \union {unique_id[c]} |-> IF id \in DOMAIN map THEN map[id] ELSE c]
    BY <1>2 DEF AddWatch, Feed
  <2>2. \A d \in Contexts : /\ fed[d] = "queued" => fed'[d] = "queued"
                            /\ fed'[d] # "new" => fed[d] # "new" \/ d = c
    BY <1>1, <2>1
  <2>3. TypeInv' /\ MapKeepsIds'
    BY <1>1, <2>1 DEF TypeInv, MapKeepsIds, nodeVars
  <2>4. HoldsContext' /\ QueuedOnce' /\ HeldOnce' /\ NotifiedAfterProcess'
    <3>1. Range(inouts_queue) \subseteq Contexts /\ notified \subseteq Contexts
      BY <1>1 DEF Range, TypeInv
    <3>. QED
      BY <2>1, <2>2, <3>1 DEF Stages, HoldsContext, QueuedOnce, HeldOnce, NotifiedAfterProcess, nodeVars
  <2>5. ASSUME IsInjective(unique_id) PROVE Notifications'
    <3>1. Notifications
      BY <2>5
    <3>2. WatchedOrServed'
      BY <2>1, <2>2, <3>1 DEF Notifications, WatchedOrServed
    <3>3. (NotifiedIds /\ ServedOnce /\ waiting # "dead")'
      BY <2>1, <3>1 DEF Notifications, NotifiedIds, ServedOnce
    <3>. QED
      BY <3>2, <3>3 DEF Notifications
  <2>. QED
    BY <2>3, <2>4, <2>5 DEF Stages
<1>3. CASE AddInoutContext(c)
  <2>1. /\ UNCHANGED <<pc, ctx, processed, waitVars, notified>>
        /\ fed[c] = "watched" /\ fed' = [fed EXCEPT ![c] = "queued"]
        /\ inouts_queue' = Append(inouts_queue, c)
    BY <1>3 DEF AddInoutContext, Feed
  <2>2. \A d \in Contexts : /\ fed'[d] = "queued" <=> fed[d] = "queued" \/ d = c
                            /\ fed'[d] # "new" => fed[d] # "new"
    BY <1>1, <2>1
  <2>3. c \notin Range(inouts_queue) /\ c \notin notified /\ \A t \in Threads : ctx[t] # c
    BY <2>1 DEF Stages, QueuedOnce, NotifiedAfterProcess, HeldOnce
  <2>4. /\ inouts_queue' \in Seq(Contexts) /\ Range(inouts_queue') = Range(inouts_queue) \union {c}
        /\ IsInjective(inouts_queue')
    BY <1>1, <2>1, <2>3, AppendNoRepeats DEF Stages, QueuedOnce
  <2>5. TypeInv' /\ MapKeepsIds'
    BY <1>1, <2>1, <2>4 DEF TypeInv, MapKeepsIds, waitVars
  <2>6. HoldsContext' /\ QueuedOnce' /\ HeldOnce' /\ NotifiedAfterProcess'
    <3>1. Range(inouts_queue) \subseteq Contexts /\ notified \subseteq Contexts
      BY <1>1 DEF Range, TypeInv
    <3>2. HoldsContext' /\ HeldOnce' /\ NotifiedAfterProcess'
      BY <2>1, <2>2, <3>1 DEF Stages, HoldsContext, HeldOnce, NotifiedAfterProcess
    <3>3. QueuedOnce'
      BY <2>1, <2>2, <2>3, <2>4, <3>1 DEF Stages, QueuedOnce
    <3>. QED
      BY <3>2, <3>3
  <2>7. ASSUME IsInjective(unique_id) PROVE Notifications'
    <3>1. Notifications
      BY <2>7
    <3>2. WatchedOrServed'
      BY <2>1, <2>2, <3>1 DEF Notifications, WatchedOrServed, waitVars
    <3>3. (NotifiedIds /\ ServedOnce /\ waiting # "dead")'
      BY <2>1, <3>1 DEF Notifications, NotifiedIds, ServedOnce, waitVars
    <3>. QED
      BY <3>2, <3>3 DEF Notifications
  <2>. QED
    BY <2>5, <2>6, <2>7 DEF Stages
<1>. QED
  BY <1>2, <1>3

\* A thread in Process: what it pops leaves the queue for its hand, and what it
\* notifies leaves its hand for notified_id_.
LEMMA NodeSteps ==
    ASSUME IInv, NEW t \in Threads, NodeStep(t), UNCHANGED <<unique_id, fed>>
    PROVE  IInv'
<1>. USE DEF IInv
<1>1. /\ unique_id \in [Contexts -> Ids] /\ inouts_queue \in Seq(Contexts)
      /\ pc \in [Threads -> {"out", "pop", "process", "notify"}]
      /\ ctx \in [Threads -> Contexts \union {NoContext}] /\ notified_id \in Seq(Ids)
      /\ NoContext \notin Contexts
  BY WatchedNodeAssumption DEF TypeInv
<1>2. ASSUME UNCHANGED <<waitVars, notified>>
      PROVE  MapKeepsIds' /\ (IsInjective(unique_id) => Notifications')
  BY <1>2 DEF MapKeepsIds, Notifications, WatchedOrServed, NotifiedIds, ServedOnce, waitVars
<1>3. ASSUME UNCHANGED <<inouts_queue, ctx, processed, waitVars, notified>>, pc[t] \in {"out", "pop"},
             NEW here \in {"out", "pop"}, pc' = [pc EXCEPT ![t] = here]
      PROVE  IInv'
  <2>1. TypeInv'
    BY <1>3 DEF TypeInv, waitVars
  <2>2. HoldsContext' /\ QueuedOnce' /\ HeldOnce' /\ NotifiedAfterProcess'
    BY <1>1, <1>3 DEF Stages, HoldsContext, QueuedOnce, HeldOnce, NotifiedAfterProcess
  <2>. QED
    BY <1>2, <1>3, <2>1, <2>2 DEF Stages
<1>4. CASE CallProcess(t)
  BY <1>3, <1>4 DEF CallProcess, Goto
<1>5. CASE Pop(t) /\ inouts_queue = <<>>
  BY <1>3, <1>5 DEF Pop, Goto
<1>6. CASE Pop(t) /\ inouts_queue # <<>>
  <2>. DEFINE c == Head(inouts_queue)
  <2>1. /\ UNCHANGED <<processed, waitVars, notified>> /\ pc[t] = "pop"
        /\ ctx' = [ctx EXCEPT ![t] = c] /\ inouts_queue' = Tail(inouts_queue)
        /\ pc' = [pc EXCEPT ![t] = "process"]
    BY <1>6 DEF Pop, Goto
  <2>2. /\ inouts_queue' \in Seq(Contexts) /\ c \in Contexts
        /\ Range(inouts_queue) = Range(inouts_queue') \union {c}
        /\ IsInjective(inouts_queue') /\ c \notin Range(inouts_queue')
    BY <1>1, <1>6, <2>1, TailNoRepeats DEF Stages, QueuedOnce
  <2>. HIDE DEF c
  <2>3. fed[c] = "queued" /\ c \notin notified /\ \A u \in Threads : ctx[u] # c
    BY <2>2 DEF Stages, QueuedOnce
  <2>4. /\ ctx'[t] = c /\ pc'[t] = "process"
        /\ \A u \in Threads \ {t} : ctx'[u] = ctx[u] /\ pc'[u] = pc[u]
    BY <1>1, <2>1
  <2>5. TypeInv'
    BY <1>1, <2>1, <2>2 DEF TypeInv, waitVars
  <2>6. HoldsContext' /\ NotifiedAfterProcess'
    BY <2>1, <2>2, <2>4 DEF Stages, HoldsContext, NotifiedAfterProcess
  <2>7. QueuedOnce'
    BY <2>1, <2>2, <2>4 DEF Stages, QueuedOnce
  <2>8. HeldOnce'
    BY <2>1, <2>2, <2>3, <2>4 DEF Stages, HeldOnce
  <2>. QED
    BY <1>2, <2>1, <2>5, <2>6, <2>7, <2>8 DEF Stages
<1>7. CASE Process(t)
  <2>1. /\ UNCHANGED <<inouts_queue, ctx, waitVars, notified>> /\ pc[t] = "process"
        /\ processed' = processed \union {ctx[t]} /\ pc' = [pc EXCEPT ![t] = "notify"]
    BY <1>7 DEF Process, Goto
  <2>2. ctx[t] \in Contexts
    BY <2>1 DEF Stages, HoldsContext
  <2>3. TypeInv'
    BY <1>1, <2>1, <2>2 DEF TypeInv, waitVars
  <2>4. HoldsContext' /\ QueuedOnce' /\ HeldOnce' /\ NotifiedAfterProcess'
    BY <1>1, <2>1 DEF Stages, HoldsContext, QueuedOnce, HeldOnce, NotifiedAfterProcess
  <2>. QED
    BY <1>2, <2>1, <2>3, <2>4 DEF Stages
<1>8. CASE Notify(t)
  <2>. DEFINE c  == ctx[t]
              id == unique_id[c]
  <2>1. /\ UNCHANGED <<inouts_queue, processed, map, stop, served>> /\ pc[t] = "notify"
        /\ notified_id' = Append(notified_id, id)
        /\ waiting' = IF waiting = "wait" THEN "woken" ELSE waiting
        /\ notified' = notified \union {c}
        /\ ctx' = [ctx EXCEPT ![t] = NoContext] /\ pc' = [pc EXCEPT ![t] = "pop"]
    BY <1>8 DEF Notify, Goto
  <2>2. /\ c \in Contexts /\ c \in processed /\ fed[c] = "queued" /\ c \notin notified
        /\ \A u \in Threads \ {t} : ctx[u] # c
        /\ c \notin Range(inouts_queue) /\ id \in Ids
    BY <1>1, <2>1 DEF Stages, HoldsContext, HeldOnce, NotifiedAfterProcess, QueuedOnce
  <2>3. /\ ctx'[t] = NoContext /\ pc'[t] = "pop"
        /\ \A u \in Threads \ {t} : ctx'[u] = ctx[u] /\ pc'[u] = pc[u]
    BY <1>1, <2>1
  <2>4. /\ notified_id' \in Seq(Ids) /\ Range(notified_id') = Range(notified_id) \union {id}
        /\ IsInjective(notified_id) /\ id \notin Range(notified_id) => IsInjective(notified_id')
    BY <1>1, <2>1, <2>2, AppendNoRepeats
  <2>5. TypeInv' /\ MapKeepsIds'
    BY <1>1, <2>1, <2>2, <2>4 DEF TypeInv, MapKeepsIds
  <2>6. HoldsContext' /\ NotifiedAfterProcess'
    BY <1>1, <2>1, <2>2, <2>3 DEF Stages, HoldsContext, NotifiedAfterProcess
  <2>7. QueuedOnce'
    <3>1. \A d \in Range(inouts_queue) : d \in Contexts
      BY <1>1 DEF Range
    <3>. QED
      BY <1>1, <2>1, <2>2, <2>3, <3>1 DEF Stages, QueuedOnce
  <2>8. HeldOnce'
    BY <1>1, <2>1, <2>2, <2>3 DEF Stages, HeldOnce
  <2>9. ASSUME IsInjective(unique_id) PROVE Notifications'
    <3>1. Notifications /\ notified \subseteq Contexts
      BY <2>9 DEF TypeInv
    <3>2. \A d \in Contexts : unique_id[d] = id => d = c
      BY <1>1, <2>2, <2>9 DEF IsInjective
    <3>3. id \notin Range(notified_id) /\ c \notin Range(served)
      BY <2>2, <3>1, <3>2 DEF Notifications, NotifiedIds, ServedOnce
    <3>. HIDE DEF c, id
    <3>4. NotifiedIds'
      <4>1. \A i \in Range(notified_id') :
              \E d \in notified' : unique_id'[d] = i /\ d \notin Range(served')
        BY <2>1, <2>4, <3>1, <3>3 DEF Notifications, NotifiedIds, id
      <4>2. \A d \in notified' : d \in Range(served') \/ unique_id'[d] \in Range(notified_id')
        BY <2>1, <2>4, <3>1 DEF Notifications, NotifiedIds, id
      <4>. QED
        BY <2>4, <3>1, <3>3, <4>1, <4>2 DEF Notifications, NotifiedIds
    <3>5. (WatchedOrServed /\ ServedOnce /\ waiting # "dead")'
      BY <2>1, <3>1 DEF Notifications, WatchedOrServed, ServedOnce
    <3>. QED
      BY <3>4, <3>5 DEF Notifications
  <2>. QED
    BY <2>5, <2>6, <2>7, <2>8, <2>9 DEF Stages
<1>. QED
  BY <1>4, <1>5, <1>6, <1>7, <1>8 DEF NodeStep

\* The waiting thread: with ids of their own, every notified id leads to its
\* context in map_, so that Serve serves them all and is left with none.
LEMMA WaitingSteps ==
    ASSUME IInv, WaitingStep \/ Stop, UNCHANGED <<unique_id, fed, nodeVars, notified>>
    PROVE  IInv'
<1>. USE DEF IInv
<1>1. /\ unique_id \in [Contexts -> Ids] /\ notified_id \in Seq(Ids) /\ served \in Seq(Contexts)
      /\ notified \subseteq Contexts
  BY DEF TypeInv
<1>2. Stages'
  BY DEF Stages, HoldsContext, QueuedOnce, HeldOnce, NotifiedAfterProcess, nodeVars
<1>3. ASSUME UNCHANGED <<map, notified_id, served>>, waiting' = "dead" => waiting = "dead" \/ ~IsInjective(unique_id)
      PROVE  IInv'
  <2>1. TypeInv' /\ MapKeepsIds'
    BY <1>3 DEF TypeInv, MapKeepsIds, nodeVars
  <2>2. IsInjective(unique_id') => Notifications'
    BY <1>3 DEF Notifications, WatchedOrServed, NotifiedIds, ServedOnce
  <2>. QED
    BY <1>2, <2>1, <2>2
<1>4. CASE TestStop \/ TimeOut \/ WakeUp \/ Stop
  BY <1>3, <1>4 DEF TestStop, TimeOut, WakeUp, Stop
<1>5. ASSUME Serve, IsInjective(unique_id)
      PROVE  IsInjective(notified_id) /\ Range(notified_id) \subseteq DOMAIN map
  BY <1>1, <1>5 DEF Notifications, NotifiedIds, WatchedOrServed, Stages, NotifiedAfterProcess
<1>6. CASE Serve /\ ~(IsInjective(notified_id) /\ Range(notified_id) \subseteq DOMAIN map)
  BY <1>3, <1>5, <1>6 DEF Serve
<1>7. CASE Serve /\ IsInjective(notified_id) /\ Range(notified_id) \subseteq DOMAIN map
  <2>. DEFINE now == [i \in DOMAIN notified_id |-> map[notified_id[i]]]
  <2>1. /\ served' = served \o now /\ notified_id' = <<>> /\ waiting' = "top"
        /\ map' = [id \in DOMAIN map \ Range(notified_id) |-> map[id]]
    BY <1>7 DEF Serve
  <2>2. /\ DOMAIN now = DOMAIN notified_id
        /\ \A i \in DOMAIN now : /\ notified_id[i] \in DOMAIN map /\ now[i] = map[notified_id[i]]
                                 /\ now[i] \in Contexts /\ unique_id[now[i]] = notified_id[i]
    BY <1>7 DEF MapKeepsIds, Range
  <2>3. now \in Seq(Contexts) /\ IsInjective(now)
    <3>1. DOMAIN notified_id = 1 .. Len(notified_id) /\ Len(notified_id) \in Nat
      BY <1>1
    <3>2. now \in Seq(Contexts)
      BY <2>2, <3>1
    <3>3. IsInjective(now)
      BY <1>7, <2>2 DEF IsInjective
    <3>. QED
      BY <3>2, <3>3
  <2>. HIDE DEF now
  <2>4. served' \in Seq(Contexts) /\ Range(served') = Range(served) \union Range(now)
        /\ (IsInjective(served) /\ Range(served) \intersect Range(now) = {} => IsInjective(served'))
    BY <1>1, <2>1, <2>3, ConcatNoRepeats
  <2>5. TypeInv' /\ MapKeepsIds'
    BY <2>1, <2>4 DEF TypeInv, MapKeepsIds, nodeVars
  <2>6. ASSUME IsInjective(unique_id') PROVE Notifications'
    <3>1. Notifications
      BY <2>6
    <3>2. \A i \in DOMAIN now : now[i] \in notified /\ now[i] \notin Range(served)
      <4>. TAKE i \in DOMAIN now
      <4>1. notified_id[i] \in Range(notified_id)
        BY <2>2 DEF Range
      <4>2. PICK c \in notified : unique_id[c] = notified_id[i] /\ c \notin Range(served)
        BY <3>1, <4>1 DEF Notifications, NotifiedIds
      <4>3. c = now[i]
        BY <1>1, <2>2, <2>6, <4>2 DEF IsInjective
      <4>. QED
        BY <4>2, <4>3
    <3>3. \A c \in Contexts : unique_id[c] \in Range(notified_id) => c \in Range(now)
      <4>. SUFFICES ASSUME NEW c \in Contexts, NEW i \in DOMAIN notified_id, unique_id[c] = notified_id[i]
                    PROVE  c \in Range(now)
        BY DEF Range
      <4>1. c = now[i]
        BY <1>1, <2>2, <2>6 DEF IsInjective
      <4>. QED
        BY <2>2, <4>1 DEF Range
    <3>4. ServedOnce'
      BY <2>4, <3>1, <3>2 DEF Notifications, ServedOnce, Range
    <3>5. WatchedOrServed'
      <4>1. DOMAIN map' = DOMAIN map \ Range(notified_id)
        BY <2>1
      <4>. QED
        BY <2>4, <3>1, <3>3, <4>1 DEF Notifications, WatchedOrServed
    <3>6. NotifiedIds'
      BY <1>1, <2>1, <2>4, <3>1, <3>3, EmptyNoRepeats DEF Notifications, NotifiedIds
    <3>. QED
      BY <2>1, <3>4, <3>5, <3>6 DEF Notifications
  <2>. QED
    BY <1>2, <2>5, <2>6
<1>. QED
  BY <1>4, <1>6, <1>7 DEF WaitingStep

-----------------------------------------------------------------------------
(***************************************************************************)
(* The theorems.                                                           *)
(***************************************************************************)

\* Every context is new.
LEMMA InitEstablishes == Init => IInv
<1>. SUFFICES ASSUME Init PROVE IInv
  OBVIOUS
<1>1. TypeInv
  BY WatchedNodeAssumption DEF Init, TypeInv
<1>2. MapKeepsIds
  BY DEF Init, MapKeepsIds
<1>3. HoldsContext /\ QueuedOnce /\ HeldOnce /\ NotifiedAfterProcess
  BY WatchedNodeAssumption, EmptyNoRepeats DEF Init, HoldsContext, QueuedOnce, HeldOnce, NotifiedAfterProcess
<1>4. WatchedOrServed /\ NotifiedIds /\ ServedOnce /\ waiting # "dead"
  BY EmptyNoRepeats DEF Init, WatchedOrServed, NotifiedIds, ServedOnce
<1>. QED
  BY <1>1, <1>2, <1>3, <1>4 DEF IInv, Stages, Notifications

\* Every step of the application, the node's threads and the waiting thread
\* keeps the stages apart and the ids accounted for.
THEOREM Invariant == Spec => []IInv
<1>1. ASSUME IInv, [Next]_vars PROVE IInv'
  <2>1. CASE (\E c \in Contexts : AddWatch(c) \/ AddInoutContext(c)) /\ UNCHANGED unique_id
    BY <1>1, <2>1, FeedSteps
  <2>2. CASE (\E t \in Threads : NodeStep(t)) /\ UNCHANGED <<unique_id, fed>>
    BY <1>1, <2>2, NodeSteps
  <2>3. CASE (WaitingStep \/ Stop) /\ UNCHANGED <<unique_id, fed, nodeVars, notified>>
    BY <1>1, <2>3, WaitingSteps
  <2>4. CASE UNCHANGED vars
    <3>1. UNCHANGED <<unique_id, fed, nodeVars, waitVars, notified>>
      BY <2>4 DEF vars
    <3>2. TypeInv' /\ MapKeepsIds'
      BY <1>1, <3>1 DEF IInv, TypeInv, MapKeepsIds, nodeVars, waitVars
    <3>3. Stages'
      BY <1>1, <3>1 DEF IInv, Stages, HoldsContext, QueuedOnce, HeldOnce, NotifiedAfterProcess, nodeVars
    <3>4. IsInjective(unique_id') => Notifications'
      BY <1>1, <3>1 DEF IInv, Notifications, WatchedOrServed, NotifiedIds, ServedOnce, waitVars
    <3>. QED
      BY <3>2, <3>3, <3>4 DEF IInv
  <2>. QED
    BY <1>1, <2>1, <2>2, <2>3, <2>4 DEF Next
<1>. QED
  BY <1>1, InitEstablishes, PTL DEF Spec

\* With ids of their own, however many threads process contexts and whatever
\* the waiting thread misses, the assertion on map_ holds, and f_ gets every
\* context at most once and not before it was processed.
THEOREM ServesOnce == Spec => []ServedOnceProcessed
<1>1. IInv => ServedOnceProcessed
  BY DEF IInv, ServedOnceProcessed, Notifications, ServedOnce, Stages, NotifiedAfterProcess
<1>. QED
  BY <1>1, Invariant, PTL

\* With ids of their own, a notification that nobody waits for is kept, with its
\* context in map_, until it is served.
THEOREM KeepsNotifications == Spec => []NoNotificationLost
<1>1. IInv => NoNotificationLost
  BY DEF IInv, TypeInv, NoNotificationLost, Notifications, NotifiedIds, WatchedOrServed, Stages,
     NotifiedAfterProcess
<1>. QED
  BY <1>1, Invariant, PTL
=============================================================================
