---------------------------- MODULE WatchedNode ----------------------------
(***************************************************************************)
(* Node::Process, which serves a queue of contexts, and the WaitingThread  *)
(* it notifies of every context it has processed.  The schedulers of the   *)
(* repository call ProcessCtx and use neither; how the two are meant to be *)
(* joined is read off AddWatch, AddInoutContext and                        *)
(* PacketPerNodeContext::Notify: a context is watched, then queued, and    *)
(* the function f_ gets it when it has been processed.                     *)
(*                                                                         *)
(* A calculator that fails ends the program; the model describes what      *)
(* happens up to that point.  The waiting thread holds its mutex while it  *)
(* serves, which makes that one step.                                      *)
(***************************************************************************)
EXTENDS Integers, Sequences, SequencesExt, FiniteSets

CONSTANTS
    Contexts,
    Ids,            \* the values of unique_id_
    Numberings,     \* the ways in which contexts may have got their ids
    Threads,        \* threads that call Node::Process
    NoContext

ASSUME WatchedNodeAssumption ==
    /\ NoContext \notin Contexts
    /\ Numberings \subseteq [Contexts -> Ids]

VARIABLES
    unique_id,      \* unique_id_ of each context
    fed,            \* what has been done with a context: "new" | "watched" | "queued"
    \* the node
    inouts_queue,
    pc,             \* a thread in Process: "out" | "pop" | "process" | "notify"
    ctx,            \* node_ctx
    processed,      \* the contexts whose outputs are filled
    \* the waiting thread
    map,            \* map_: ids to contexts
    notified_id,
    waiting,        \* "top" | "wait" | "woken" | "ended" | "dead"
    stop,
    served,         \* the contexts f_ was called with
    notified        \* history: the contexts whose Notify returned

nodeVars == <<inouts_queue, pc, ctx, processed>>
waitVars == <<map, notified_id, waiting, stop, served>>
vars == <<unique_id, fed, nodeVars, waitVars, notified>>

Init ==
    /\ unique_id \in Numberings
    /\ fed = [c \in Contexts |-> "new"]
    /\ inouts_queue = <<>>
    /\ pc = [t \in Threads |-> "out"]
    /\ ctx = [t \in Threads |-> NoContext]
    /\ processed = {}
    /\ map = <<>>
    /\ notified_id = <<>>
    /\ waiting = "top"
    /\ stop = FALSE
    /\ served = <<>>
    /\ notified = {}

-----------------------------------------------------------------------------
(***************************************************************************)
(* A context is watched and queued.                                        *)
(***************************************************************************)
Feed(c, from, to) == fed[c] = from /\ fed' = [fed EXCEPT ![c] = to]

\* AddWatch; an id that is watched already stays with its context.
AddWatch(c) ==
    /\ Feed(c, "new", "watched")
    /\ map' = [id \in DOMAIN map \union {unique_id[c]} |-> IF id \in DOMAIN map THEN map[id] ELSE c]
    /\ UNCHANGED <<nodeVars, notified_id, waiting, stop, served, notified>>

AddInoutContext(c) ==
    /\ Feed(c, "watched", "queued")
    /\ inouts_queue' = Append(inouts_queue, c)
    /\ UNCHANGED <<pc, ctx, processed, waitVars, notified>>

-----------------------------------------------------------------------------
(***************************************************************************)
(* Node::Process and GraphNode::Process.                                   *)
(***************************************************************************)
Goto(t, label) == pc' = [pc EXCEPT ![t] = label]

CallProcess(t) ==
    /\ pc[t] = "out"
    /\ inouts_queue # <<>>
    /\ Goto(t, "pop")
    /\ UNCHANGED <<inouts_queue, ctx, processed, waitVars, notified>>

\* Mutant: the context is left in the queue until it has been processed.
PopLeavesFront(t) ==
    /\ pc[t] = "pop"
    /\ IF inouts_queue = <<>>
       THEN Goto(t, "out") /\ UNCHANGED <<inouts_queue, ctx>>
       ELSE /\ ctx' = [ctx EXCEPT ![t] = Head(inouts_queue)]
            /\ inouts_queue' = IF Head(inouts_queue) \in processed
                               THEN Tail(inouts_queue) ELSE inouts_queue
            /\ Goto(t, "process")
    /\ UNCHANGED <<processed, waitVars, notified>>

Pop(t) ==
    /\ pc[t] = "pop"
    /\ IF inouts_queue = <<>>
       THEN Goto(t, "out") /\ UNCHANGED <<inouts_queue, ctx>>
       ELSE /\ ctx' = [ctx EXCEPT ![t] = Head(inouts_queue)]
            /\ inouts_queue' = Tail(inouts_queue)
            /\ Goto(t, "process")
    /\ UNCHANGED <<processed, waitVars, notified>>

\* The calculator has filled every output, or the packet is set finished.
Process(t) ==
    /\ pc[t] = "process"
    /\ processed' = processed \union {ctx[t]}
    /\ Goto(t, "notify")
    /\ UNCHANGED <<inouts_queue, ctx, waitVars, notified>>

\* Mutant: an id is kept only if the thread waits for it.
NotifyWaitingOnly(t) ==
    /\ pc[t] = "notify"
    /\ waiting \notin {"ended", "dead"}
    /\ notified_id' = IF waiting = "wait" THEN Append(notified_id, unique_id[ctx[t]]) ELSE notified_id
    /\ waiting' = IF waiting = "wait" THEN "woken" ELSE waiting
    /\ notified' = notified \union {ctx[t]}
    /\ ctx' = [ctx EXCEPT ![t] = NoContext]
    /\ Goto(t, "pop")
    /\ UNCHANGED <<inouts_queue, processed, map, stop, served>>

\* WaitingThread::Notify: only a thread that waits is woken.
Notify(t) ==
    /\ pc[t] = "notify"
    /\ notified_id' = Append(notified_id, unique_id[ctx[t]])
    /\ waiting' = IF waiting = "wait" THEN "woken" ELSE waiting
    /\ notified' = notified \union {ctx[t]}
    /\ ctx' = [ctx EXCEPT ![t] = NoContext]
    /\ Goto(t, "pop")
    /\ UNCHANGED <<inouts_queue, processed, map, stop, served>>

NodeStep(t) == CallProcess(t) \/ Pop(t) \/ Process(t) \/ Notify(t)

-----------------------------------------------------------------------------
(***************************************************************************)
(* The waiting thread.                                                     *)
(***************************************************************************)
TestStop ==
    /\ waiting = "top"
    /\ waiting' = IF stop THEN "ended" ELSE "wait"
    /\ UNCHANGED <<map, notified_id, stop, served>>

\* wait_for ends after 100 ms, and ids that came meanwhile are not looked at.
TimeOut ==
    /\ waiting = "wait"
    /\ waiting' = "top"
    /\ UNCHANGED <<map, notified_id, stop, served>>

\* A spurious wakeup counts as a notification.
WakeUp ==
    /\ waiting = "wait"
    /\ waiting' = "woken"
    /\ UNCHANGED <<map, notified_id, stop, served>>

\* Mutant: a wakeup serves the id that was notified last.
ServeLast ==
    /\ waiting = "woken"
    /\ served' = IF notified_id = <<>> THEN served ELSE Append(served, map[Last(notified_id)])
    /\ notified_id' = <<>>
    /\ waiting' = "top"
    /\ UNCHANGED <<map, stop>>

\* Every id must lead to a context, which f_ is called with.  Else the program
\* stops at the assertion or, built without DEBUG, f_ gets a null pointer.
Serve ==
    /\ waiting = "woken"
    /\ IF IsInjective(notified_id) /\ Range(notified_id) \subseteq DOMAIN map
       THEN /\ served' = served \o [i \in DOMAIN notified_id |-> map[notified_id[i]]]
            /\ map' = [id \in DOMAIN map \ Range(notified_id) |-> map[id]]
            /\ notified_id' = <<>>
            /\ waiting' = "top"
       ELSE /\ waiting' = "dead"
            /\ UNCHANGED <<map, notified_id, served>>
    /\ UNCHANGED stop

\* stop_ is neither locked nor notified: the thread ends after its wait.
Stop ==
    /\ ~stop
    /\ stop' = TRUE
    /\ UNCHANGED <<map, notified_id, waiting, served>>

WaitingStep == TestStop \/ TimeOut \/ WakeUp \/ Serve

Next ==
    \/ (\E c \in Contexts : AddWatch(c) \/ AddInoutContext(c)) /\ UNCHANGED unique_id
    \/ (\E t \in Threads : NodeStep(t)) /\ UNCHANGED <<unique_id, fed>>
    \/ (WaitingStep \/ Stop) /\ UNCHANGED <<unique_id, fed, nodeVars, notified>>

Spec == Init /\ [][Next]_vars

\* The waiting thread runs; nothing makes a wait end by a notification.
FairSpec == Spec /\ WF_vars(WaitingStep /\ UNCHANGED <<unique_id, fed, nodeVars, notified>>)

-----------------------------------------------------------------------------
(***************************************************************************)
(* Properties                                                              *)
(***************************************************************************)

\* If contexts have ids of their own, the assertion on the context holds, and
\* f_ gets a context once and after it was processed.  (GraphView numbers the
\* contexts in lines that are commented out; with one id for all of them the
\* second notification ends the program.)
ServedOnceProcessed ==
    IsInjective(unique_id) =>
        /\ waiting # "dead"
        /\ IsInjective(served)
        /\ Range(served) \subseteq processed

\* A notification that does not meet the wait is not served, but kept: the
\* context of every notified id is with f_, or its id is in notified_id_ and
\* its context in map_.
NoNotificationLost ==
    IsInjective(unique_id) =>
        \A c \in notified :
            \/ c \in Range(served)
            \/ /\ unique_id[c] \in Range(notified_id)
               /\ unique_id[c] \in DOMAIN map

\* A wakeup serves all that was notified before it, also what earlier waits missed.
WakeupServesAll ==
    \A c \in Contexts :
        IsInjective(unique_id) /\ waiting = "woken" /\ c \in notified ~> c \in Range(served)
=============================================================================
