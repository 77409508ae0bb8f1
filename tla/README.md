# A verification project for simple.flow

simple.flow runs *packets* through a graph of *nodes*. The application describes the graph, hands
packets in one after the other, and gets the results back through a callback or by asking. Inside,
a scheduler thread and a pool of executor threads run the nodes of many packets at once. What is
hard is therefore the order of things: which thread reads a counter when, which packet arrives
first at a node, who still needs the context of a packet that somebody else declares finished.

This directory holds TLA+ modules for those parts, TLC configurations that check them on small
instances, and proofs, checked by TLAPS, that hold for every number of packets, threads and places.
`PROJECT.json` lists the runs, the definitions with the lines of code they stand for, the hazards
found in the code and the theorems. Paths below are relative to the repository.

## 1. The system

| Component | State | Operations | Talks to |
|---|---|---|---|
| `GraphHelper`, `Graph` (`src/graph.cc`) | `packet_contexts_` (a map from ids to contexts), `mtx_`, the result callback | `AddPacket`, `AddPacketAsync`, `GetResult`, `IsPacketProcessed`, `AddSkipPacket`, `Stop`, `RemovePacketContextIfFinished` | application threads; the scheduler (`Schedule`); called back by the executor's threads |
| `PacketContext`, `PacketPerNodeContext` | one record per packet, one per packet and node: input and output packages, `finished_` | `SetFinished`, `GetPacketContext` (locks a weak pointer), `PropagateOutputPortTo` | kept alive by the table and by running tasks; queued tasks have weak pointers |
| `SchedulerAsync` | the ready queue with 16 priorities, `stop_` | `AddPacketContext`, the scheduler thread, the ready task, `DoPropagate`, `Stop` | executor, contexts, graph callback |
| `SchedulerAsyncOrderPreserving` | the same, and per stream an `OrderInformation` | the same, with a branch for nodes with `order_preserving_` | the same |
| `OrderInformation` (`src/stream/input_stream_context.cc`) | per node: next id (an `int`), heap of waiting ids, their contexts, skipped ids | `GetNextPktId`, `SetNextPktId`, `AddUnprocessedPkt`, `GetSmallestUnprocessedPkt`, `AddSkipPktId`, each under one lock | executor threads; whoever announces skips |
| `SchedulerOneThread` | a pool of one thread | `AddPacketContext`, `DoSchedule` | topology, contexts, graph callback |
| `GraphTopology` | level of every node | `Initialize` (a recursive walk), queries | graph view; gives priorities and rounds |
| `GraphViewSpec`, `GraphSpec`, `NodeSpec` | the description: ports, links, names | `Initialize` (validation, ids, edges) | graph view |
| `GraphView` | nodes, edges, devices | `Initialize`, `GetOutputEdges`, `GetSiblingNode`, `InitPacketContext` | everything above |
| `Node`, `GraphNode`, `InOutHandler` | ports, calculators | `ProcessCtx`, `IsInputReady`, `IsOutputReady` | calculators, contexts |
| `Calculator`, `CalculatorContext` | vectors of one call | `Process`, `AddSkipNode` | packages, streams |
| `Package`, `PackageShape` | shape, marks, data, index of data | `SetShape`, `AddData`, `GetData`, walks | calculators, application |
| `InputStreamManager`, `InputStreamContextDefault`, `Collection` | a counter, streams by id (no lock), tagged data of a stream | create, remove, look up the default stream; add, delete and read data | application, calculators; packets point to their stream weakly |
| `Executor`, `Device` | a `base::PipeManager` | `AddTask`, `Stop`, `ComputeSync` | schedulers, nodes |
| `Node::Process`, `WaitingThread` | a node's queue of contexts; watched contexts, notified ids | `AddInoutContext`, `Process`, `AddWatch`, `Notify`, `Start`, `Stop` | each other; no scheduler uses them at this commit |
| registries, options, contracts, status | lookups and values | | set-up only |

Interaction in one paragraph. `AddPacketAsync` makes a context, puts it into `packet_contexts_`
unless twenty are there, moves the graph's inputs on to the first nodes and adds a *ready task*
for each. The scheduler thread polls the ready queue and moves tasks to the executor. An executor
thread runs a task: lock the context, check the inputs, run the node, check the outputs, propagate
them and add a ready task for each successor. The successor that is the graph node itself sets
`finished_`, and the callback hands the result out and erases the context. At an order-preserving
node the task first compares its packet's id with the next id: a packet that is early goes to a
heap, and whoever ends a packet looks whether the heap's smallest one is next.

When a graph ends, `Stop` sets a flag for the scheduler thread and waits, for ten seconds at most,
until that thread has set another one. `~GraphHelper` destroys the manager of the streams first, which
is declared after the graph, and with it the streams that nobody else holds; then `~Graph` calls
`Stop` once more and destroys its members. All the while the executor's threads run what they have,
and what they have may outlast the packet: after the callback and the erasure of its context the
graph node's task still logs the id of the packet's stream (`src/runtime/scheduler_async.cc:55-58`),
which contexts refer to weakly.

`base::PipeManager` and `log.h` come from a submodule that is not part of the repository. The pool
is used as a first-in first-out queue served by a fixed number of threads and is modelled as that;
its `Stop` is taken to wait for the tasks its threads are running. `SIMPLE_ASSERT`
(`include/core/contract_coding.h`) checks only in builds that define `DEBUG`, which the build files
never do; the models follow the code behind a failed assertion where there is any, and name the
place where a build with `DEBUG` would end.

**What is hard here** (the list with lines is under `hazards` in `PROJECT.json`): the three
separate critical sections of an ordered node; announcements that wake nobody; nodes fed twice;
contexts that die while tasks for them are queued; a table changed by callers, queries and
callbacks; the recursive levelling over shared nodes in the order of addresses; an `int` for 64-bit
ids; the two ids of a packet; partial outputs; waits whose notification is lost; members destroyed
under running threads; a map of streams without a lock; positions that go stale.

**What makes each part correct.** Ordered node: one packet at a time, in order, nobody stranded.
Table: running contexts stay, results are handed out once and not lost, the limit holds. Graph:
one callback per accepted packet, nothing left behind, no use of a dead context but by late tasks of
branches that lead nowhere. Topology and one-thread scheduler: levels are longest paths, all ready nodes are run, with the right inputs.
Package: what was stored is found again, marks say where. Stop: it returns, it loses no task, and
nothing runs into what is destroyed if the application waited for the table to empty and holds its
packets' streams itself. Streams:
packet ids are unique, the default stream is one, tags show their data. Waiting thread: every
processed context is handed on, once.

## 2. The modules

| Module | Models | Remarks |
|---|---|---|
| `OrderInformation`, `OrderInformation_proofs` | the class, its methods as operators on one node's record | constants `MaxInt`, `UintBound`, `SkipMax` stand for 2^31, 2^64, 2048 |
| `InOrderDelivery` | the promise of an ordered node (abstract) | implemented by `OrderedNode` and, per ordered node, by `AsyncGraph` |
| `OrderedNode` | the ready task of one ordered node, any number of threads | EXTENDS `OrderInformation` |
| `OrderedNode_proofs` | its theorems | |
| `AsyncGraph` | whole graphs under both asynchronous schedulers, table, flow control, announcements, queues, lifetimes | EXTENDS `OrderInformation`; the graph is chosen from `Graphs` in the initial state |
| `AsyncGraph_proofs` | its theorems | about every graph (types) and about lines (the rest) |
| `Shutdown`, `Shutdown_proofs` | `Stop`, the scheduler thread's end, `~Graph` against the executor's threads | |
| `PacketTable`, `PacketTable_proofs` | `packet_contexts_` between callers and threads, all calls, several streams | |
| `GraphViewSpec` | validation of a description, edges from links | |
| `GraphTopology` | levels | the walk is a RECURSIVE operator |
| `OneThread` | description, levels and one packet under the one-thread policy | EXTENDS the two above |
| `Package`, `Package_proofs` | packages, their shapes and the base class's copy | |
| `Collection` | a vector and a map of tags to positions, as operators | |
| `InputStreams`, `InputStreams_proofs` | the manager of streams, ids of streams and packets, a stream's tagged data | EXTENDS `Collection` |
| `WatchedNode`, `WatchedNode_proofs` | `Node::Process` and the `WaitingThread` it notifies | |
| `MC...` | small instances for TLC | |

### How state and actions correspond to the code

* **`OrderedNode`.** `order` is the node's entry in `order_information_`; `queue` the tasks of the
  node from `AddTask` to an executor thread (one ready list and one pool queue, both first-in
  first-out, with one thread in between); `pc` and `task` a thread's place in the lambda of
  `DoSchedule` and its packet. The lambda is cut where a lock is released: `GetNext` (with the
  comparison, which touches nothing shared), `Buffer`, `Process`, `Propagate` or `CallBack` or
  `NoOutput`, `SetNext`, `TakeSmallest`, `Requeue`, `EndDrain`. `Send`, `SendEmpty` and
  `AnnounceSkip` are what the upstream nodes and the application do. The node has one upstream
  node; fan-in is a matter of `AsyncGraph`. Packets in `Mute` may yield no output, after which the task
  returns without setting the next id.
* **`AsyncGraph`.** One action per step of the same lambda, for any node. `graph` is a record that
  never changes: nodes, edges, levels, the scheduler (`policy`), the limit of the table, and whether
  the application hands packets in one after the other and announces those that were refused
  (`AddSkipPacket`). The two schedulers differ in the ordered branch and in what is dereferenced first.
  `table`, `holds` and `submit` say who keeps a context alive (`Alive`); a thread that would
  dereference a context that is gone goes to `"dead"`. There are three such places: the ordered
  scheduler asks the context for its ids before anything else (`Start`); a calculator that asks for
  its packet's stream (`asks`) makes the context follow a weak pointer to the packet's (`AsksInVain`);
  and the graph node and the propagation need it. Otherwise a task runs on without its context. `inputs` and `outputs` are the ports that
  hold packages, an edge standing for its two ports; all ports are required ones. `ready` keeps a
  list per priority, `Schedule` is `Top` and the hand-over to the executor. A calculator is a
  choice of the outputs it fills: all, but for the ports in `filters`. `appTodo` and `todo` are the
  `std::set` of destinations that `DoPropagate` returns, walked from the smallest on (`First`).
  `IsLine`, `Climbs` and `HandsOn` name the kinds of graphs the theorems are about (section 5).
* **`PacketTable`.** `table` is the map, keyed by full ids; `call` and `run` say where the
  application's call and the scheduler's threads stand with a packet. `AddPacket` polls for
  `pkt->GetId()`, that is `LowId`; a poll that gives up is possible whenever the packet is not seen
  finished, for the thousand polls of 10 ms may end at any point of the run.
* **`GraphViewSpec`, `GraphTopology`, `OneThread`.** A description is a sequence of node records;
  links are values that ports share. The order in which a node's successors are walked is that of
  their addresses (`std::set<std::shared_ptr<Node>>`): `rank`, chosen in the initial state.
  `WalksForever` says when the recursion does not end (`Overflow`). `inputs` counts the packages at
  each port, so that `InputsData`, the vector a calculator is called with, can leave out optional
  ports and hold null pointers where one port has fewer packages than another.
* **`Package`.** `pkg` has the members of the class; `stored` is a history: the data whose
  `AddData` succeeded. Callers set the shape before they store data, as `Calculator::Process`
  and the sample do. `Copied` is what the base class's `Process` makes of a package.
* **`Shutdown`.** `caller` is the place of a caller of `Stop`: `wait_for` with a predicate is a loop of
  `TestStopped`, `Block`, and a wakeup that has to lock `mtx_` again; `TimeOut` leads past the
  predicate. `loop` is the scheduler thread, which takes no lock for `stopped_` and the notification.
  A packet is a chain of `Steps` tasks; graphs and order are a matter of `AsyncGraph`. `AddPacketAsync`
  is two steps, the insertion into the table (`AddPacketContext`) and the queueing of the first task
  (`Schedule`), with the packet in `adding` between them. Destruction is
  the order of members: the manager of the streams (`DestroyStreams`), then `~Graph` with its `Stop`,
  `Graph`'s members in reverse (the table and the callbacks before `scheduler_`), then
  the scheduler's own (the ready queue before `executor_`, whose destructor waits). `Managed` are the
  packets of a stream that only the manager holds. Who locks that stream depends on the setup, chosen
  in the initial state: the ordered scheduler holds it for the whole task (`ordered`, `keeps`), the full
  form of the callback from the callback to the erasure, the short form not (`short`). `LogSource` is the
  log line after the erasure. A thread that uses a member after its destruction, or a context or a
  stream that is gone, is `"dead"`.
* **`InputStreams`.** `context_map` is the map; an insertion is one step after the drawing of the key.
  The map has no lock: an insertion that meets another thread at the map may be lost, a lookup that
  meets one may miss. `RemoveStreamContext` is one step: nothing in `src/` calls it, and a removal that
  meets another thread at the map is not modelled. Streams stay in `streams` as a history, and `Alive` says whether anybody still
  has one. Data of a stream follow `InputStreamContextDefault` and `Collection`.
* **`WatchedNode`.** `pc` is a thread's place in `Node::Process` (or `GraphNode::Process`, the same
  loop); `waiting` is the waiting thread's. `wait_for` there has no predicate, so `TimeOut` goes back
  without a look at `notified_id_`.

Definitions whose comment begins with "Mutant" are not part of the specifications: each is a
plausible bug in the definition after it, kept to show that the property named with it in
`PROJECT.json` notices the bug.

## 3. The runs

| Run | Instance | What it shows |
|---|---|---|
| `ordered` | 3 threads, packets 0-3, 0, 1 and 2 may be announced, 1 and 3 may yield no output | types, one packet at a time, nobody stranded in the heap, no null context, the next id never goes back, refinement of `InOrderDelivery`, and that every packet with no silent one before it leaves if enough packets follow the announcements: one, or two where packet 0 was announced before the node's first task |
| `limits` | the graph node's variant, an `int` up to 2, room for one skipped id | an `int` that wraps and announcements that are dropped break no order; that the node stops delivering then is not an error of this run |
| `graph_node_stalls` | an ordered graph node, 2 threads, 3 packets | **violated**: packets stay in the heap of an ordered graph node |
| `graphs` | 2 threads and four graphs: `Ordered3` (graph → 1 → 2 → graph, node 2 ordered, 3 packets), `WithGaps` (graph → 1 → graph, node 1 ordered, 4 packets, room for 2, handed in one after the other, refused ones announced), `Sink` (asynchronous; a branch that leads nowhere, may stay without data and whose calculator asks for the stream), `OrderedSink` (the same branch under the ordered scheduler, both nodes ordered) | one callback for every accepted packet, also behind gaps; no leak; order at the ordered nodes; a thread misses a context only in a late task of the branch that leads nowhere |
| `join` | two nodes feed a third | **violated**: two callbacks for one packet |
| `packet_table` | 2 streams of 2 packets, room for 2, with and without a callback | running contexts are kept, results are neither lost nor handed out twice, the limit holds |
| `add_packet_timeout` | the same, room for 3 | **violated**: `AddPacket` reports processed packets as not processed |
| `one_thread` | all acyclic graphs of 3 nodes in two ways of linking, some with cycles, with optional ports, with links that lead nowhere, and descriptions that are refused; every order of addresses | levels are longest paths and no ready node is left out, but behind taps; calculators find their inputs by port; the walk ends but on cycles |
| `package` | shapes of 1 to 3 dimensions up to 4 places | data and marks agree; ids, indices and the ranges of a walk name the same places, each id in one range; emptiness is exact; the copy is the same if the package was filled in the order of ids |
| `shutdown` | 2 callers of `Stop` and the destructor, 1 executor thread, 2 packets of 2 tasks, one of them of a stream that only the manager holds; both schedulers, both forms of the callback | every `Stop` returns, nothing is handed over after it, no task is lost, threads meet what is destroyed only for packets still in the table or of a stream that only the manager held |
| `streams` | 2 threads, 3 streams of 1 packet with ids modulo 2, 4 data under 3 tags | ids, default stream, lifetime and tags keep what they promise, under the conditions the properties name |
| `watched_node` | 2 threads, 3 contexts with ids of their own or with one id | contexts are handed on once and processed, no notification is lost, a wakeup serves all that came before |

**Bounds.** Three threads are what the schedulers use; the interleavings of an ordered node need
two (one that buffers, one that sets the next id) and a third for the window between them. Four
packets are a predecessor, a packet that is early, one that is skipped or silent and one after them;
with 0, 1 and 2 announced a single packet may follow, with packet 1 silent two stand behind it. In
whole graphs the state space is larger: two threads, one to four packets. Four packets with room for
two let the third be refused while the first two are there, and the fourth come behind the gap. `MaxInt = 8` and
`SkipMax = 8` are out of reach in all runs but `limits`, where they bite. The three priorities of
`graphs` exceed the levels of its graphs. Two streams of
two packets are enough for the two ids of a packet to be confused. Three inner nodes give every shape
of branch, join and tap that decides about the walk. Shapes with four places include one-place and
zero-place dimensions and, in the refused shape `<<2, 3>>`, one beyond the limit. In `shutdown` one packet of a managed stream and one of another are all that tasks can
differ in; two callers beside the destructor compete for the one notification; one executor thread is enough, for
what it runs into depends on how far the destruction is and not on another executor thread. In
`streams` three streams are one more than the stream id has values, and four data under three tags
let a tag be removed from the front, the middle and the end and added again. Three contexts in
`watched_node` fill `notified_id_` with more than one id.

No counter is cut off by a state constraint but in `streams`, where `DataOfOneStream` leaves out
behaviours in which data are stored while there are several streams: the two share nothing but the
lifetime of the first stream. That run also uses the symmetry of threads and of tags, and `limits` that
of threads, which is sound for invariants and for a refinement that mentions no thread. Every other run explores its whole state space (or ends at the
violation).

**Deadlock.** It is not checked: all these systems come to rest when the packets are through.
`NothingLeaks` and the liveness properties say what must hold then.

**Fairness.** `FairSpec` of `OrderedNode` and `AsyncGraph` assumes weak fairness for each executor
thread's next step, for the scheduler thread (it polls in a loop with `yield`), and for the application
to send what it announced to send. Each thread's steps are never disabled by another thread while it
is inside a task, so weak fairness says no more than that the operating system runs every thread;
locks are held only within a step. The liveness property of `ordered` states its condition (`Followed`): when all announcements are made
one packet is still to come, for an announcement alone wakes nobody, or two if packet 0 was announced
before the node's first task, for that task does not look at the announcements. In
`graphs` the announcement of a refused packet is fair where the application hands packets in one
after the other, for it makes it before the next call. The starvation of low priorities by a stream
without end is outside the finite runs.

`FairSpec` of `Shutdown` assumes weak fairness for every thread, and strong fairness for `TimeOut`: the
deadline of ten seconds is absolute, so it comes however often a spurious wakeup interrupts the
wait. Callers need not call `Stop`, and no notification is fair. `FairSpec` of `WatchedNode` assumes
that the waiting thread runs; nothing makes one of its waits end by a notification, and accordingly
the run does not claim that every notified context is served (a last one need not be) but that a
wakeup serves all that is there.

## 4. What the runs say about the code

Violated:

1. **An ordered graph node keeps packets back** (`src/runtime/scheduler_async_order_preserving.cc:97`).
   The graph node's branch returns before the loop that looks at the heap.
2. **A node fed by two nodes is run twice** (`src/runtime/scheduler_async.cc:67`). Readiness is a
   test and not a transition, and the graph node's inputs are not cleared.
3. **`AddPacket` looks for the wrong key** (`src/graph.cc:101`): the low 56 bits of an id whose high
   8 bits are the stream; with a callback the context is erased under it.

Conditions under which other properties hold, and the limits of what they claim. Each is needed: where
it is part of a property or of a run's constants, TLC finds a counterexample at once without it.

* *Taps* (`LostOnlyBehindTaps`, `LevelIsLongestPath`): a node that feeds the graph's output and another
  node hides its other successors from the walk (`src/graph_topology.cc:23`); the one-thread scheduler
  may finish a packet without them. The walk does not end on a cycle, which rule 2 of
  `GenerateEdgeSpec`, an empty place (`src/spec/graph_view_spec.cc:183`), would forbid.
* *Optional ports and merges* (`CalculatorsGetTheirInputs`): a required port behind an optional one is
  found at a lower index, and behind a merge a calculator gets null pointers (`src/node.cc:122-141`).
* *Filled in order* (`CopyIsSame`): the "simple copy" pairs ids in ascending order with data in the
  order of insertion (`src/calculator/calculator.cc:37`).
* *Late taps* (`OnlyLateTapsCrash`, `EveryPacketCalledBack`): a node whose outputs nobody reads may be run after
  its packet was called back and erased. Under the ordered scheduler the thread then dereferences a
  null context before it has done anything (`src/runtime/scheduler_async_order_preserving.cc:47-49`), under
  the other one if the calculator asks for the packet's stream or announces a skip
  (`src/packet_per_node_context.cc:94-99`). A process in which that happened is over, so delivery is claimed
  of the others. On a line no other task misses its context.
* *Silent packets and announcements* (`EveryPacketLeavesAfterSkips`): a packet that yields no output and is not
  announced blocks an ordered node for ever (`src/runtime/scheduler_async_order_preserving.cc:102`), and
  announcements want followers. The comment in `GetNextPktId` (`src/stream/input_stream_context.cc:80-81`)
  says of a filtered packet 0 that any packet is enough; but the first call returns 0 unseen, and the
  packet that asked goes to the heap until a second one comes. Announcements beyond 2048 are dropped
  and ids beyond 2^31 wrap; either stops the node for good. No property says otherwise, and none is
  violated: `limits` shows the order only.
* *Deep graphs* (`EveryPacketCalledBack`, `NothingLeaks`): no more levels than `Top` looks at. A task on a level
  of 16 and more is never taken (`src/runtime/scheduler_async.cc:171`), and its packet keeps its place.
* *Callbacks* have no order, whatever nodes are ordered: the tasks of the graph node run on several
  threads (`src/graph.cc:350`). `OrderedNodesDeliverInOrder` ends where packets leave an ordered node.
* *Orphans and managed streams* (`OnlyOrphansEndBadly`): destroying the `GraphHelper` is safe if the application has
  waited until the table is empty and holds the streams of its packets itself. To have seen the last
  callback is not enough, for the erasure comes after it; nor is the empty table alone, for the task
  then still logs the id of the stream (`src/runtime/scheduler_async.cc:55-58`), and the manager, which may hold
  the stream alone, is destroyed before the graph stops (`include/graph.h:121-125`).
* *Streams* (`PacketIdsAreUnique`, `DefaultStreamServes`, `StreamsOutlivePackets`): no more streams than
  the id has values, no two threads at the map at once, stream 0 not removed.
* *Tags* (`TagsShowTheirData`): removed in the reverse order of their addition.
* *Ids of contexts* (`ServedOnceProcessed`): `GraphView` gives every context the id 0, with the lines
  that number them commented out (`src/graph_view.cc:59-60`).

`StopReturns` holds by the deadline alone: with the `wait` of the line that is commented out
(`src/runtime/scheduler_async.cc:137`) it is violated, which is its mutant.

## 5. The proofs

All theorems are for every value of the constants (`ASSUME`s included) and are in `*_proofs`
modules; none uses a bound of the runs. Each inductive invariant was first checked by TLC on the
instances of the run of its module; being proved, they are not among the runs' properties.

* **`OrderInformation_proofs`**: what each method returns and what it leaves alone, once for both
  modules that use the class, and the condition `NoOverflow` (packet ids stay below 2^31).
* **`OrderedNode_proofs`** (assumption `NoOverflow`). The safety properties are not inductive: that
  two threads never work at once depends on where the other packets are. `IInv` adds that every
  packet with data is in exactly one place (queue, heap or the hands of one thread), that the heap
  has a context for each id it holds, that the next id has passed a packet only if it was emitted
  or skipped, and that a working thread's packet is the next id. From one step per action follow
  `TypeCorrect`, `MutualExclusion`, `ContextsAreKept`, `NextIsMonotonic` and the refinement
  `ImplementsInOrderDelivery`, whose heart is that only a working thread emits and that everything
  before its packet has left or was skipped. `NobodyIsStranded` needs one assumption more,
  `~IsGraphNode`: the run `graph_node_stalls` shows what happens at the graph node.
* **`PacketTable_proofs`** (assumption `NoCollision`: no more streams than stream ids; the limit on
  the table's size needs no assumption). `IInv` ties the threads' progress with a packet to the
  table: running implies present, unfinished and not yet queried, and what has left the table was
  given to a callback or a query.
* **`Package_proofs`** (the module's assumption: dimensions are numbers of a `uint8_t`). `IInv` says that
  every entry of `data_index_` leads into `data_`, also those `GetData` makes, that marks are exactly
  what was stored, and that what was stored is found; `StoredInPlaces`, that nothing is stored outside
  the shape and that ids and data are as many. From it follow all five properties of the run.

  The loops over the dimensions (`Strides`, the id, the index, `Walk`) and over the data (`Copied`) are
  recursive functions of the model. What they compute is proved by induction over *sets* of naturals,
  which needs no operator parameter: `Recursion` and `RecursionDown` show once that a function with the
  recursion equation exists, and one lemma per loop turns its definition into the equation. The numbering
  rests on `Before`, how many beginnings of the same length come before that of an index: an id is
  `Before` times the stride and what the other dimensions add (`IdInParts`), `Before` is injective
  (`BeforeIsInjective`) and is the position in which `Walk` visits (`VisitsAreIndices`). `PlacesAreShared`
  says that the ranges of a walk are a partition, including that the `uint8_t` that
  `GetIdFromIndex` steps does not wrap; `EmptyIsExact` is about `IsNthDimEmpty`; `CopiesAreSame` rests on
  the keys of a map being their sorted enumeration (`SortedEnumeration`).
* **`Shutdown_proofs`** (no assumption on the number of packets, tasks, threads or callers). The run
  counts the places of a task; the invariant does not count but says that no queue has two tasks
  of a packet, no two queues have one each, and no two threads. While the graph is whole the table
  has exactly the packets with a task that is not past the erasure, or about to get their first one;
  once it is destroyed whatever still needs the table is an orphan. `BadEndsAreOrphans` follows with what
  the invariant says of streams: a thread holds its packet's stream from where the scheduler or the
  callback locked it, so only the stream of a managed packet can be missed, and only after the manager
  is destroyed. `NoTaskIsLost` follows from the places being pairwise exclusive. `StopIsFinal` rests on
  the scheduler thread having ended before any call returns by the notification, the time-out
  included.
* **`WatchedNode_proofs`**. The stages of a context (fed, queued, in a thread's hands, notified) follow
  each other whatever ids the contexts have; what is said of notifications is under the condition
  that ids are injective, as in the two properties.
* **`InputStreams_proofs`**. For the manager: a key is drawn at most once while the counter is within
  `uint8_t`, a thread that inserts has a key below the counter, and the map loses nothing without
  overlap. For the data: a tag's position is one of `data_types`, two tags have two positions, and a
  tag's datum is never older than the tag; removals from the end move no position.
* **`AsyncGraph_proofs`**. `TypeCorrect` is for every graph, with joins, cycles and an `int` that
  overflows. The others are for *lines* (`IsLine`): every node has at most one input port and at most
  one successor besides taps (nodes nobody reads from), of any length, with any levels, ordered
  nodes, filters, flow control and number of packets in flight. Both conditions are the code's own: a node with
  two input ports may be run and called back twice (run `join`), so nothing less than fan-in of one is enough for
  `CalledBackOnce`; with two successors besides taps a packet is in several places. Taps are allowed
  under either scheduler, ordered taps included: their tasks may outlive the packet. The asynchronous
  scheduler checks nothing there, it merely does not dereference the pointer on that path unless the
  calculator does; the ordered one always does. The heart of `IInv` is `OnePlace`: but for tasks of taps, a
  packet on its way is with the caller that adds its first task, in one list of the ready queue, in
  the executor's queue, with one thread or in the heap of one node, and its context is in the table
  as long as it is anywhere. From it follow `LinesCrashAtTapsOnly` and `LinesCallBackOnce`.

  `LinesCrashLateAtTapsOnly` adds that such a packet was called back. It needs `NoOverflow`, and an
  argument about the heap of an ordered tap: nobody sets the next id there, for a node without
  successors never propagates, so the id stays 0, and packet 0 itself is never put on that heap;
  hence nothing is ever taken from it. A thread that finds no context then has a packet that was
  handed in and is not in the table any more, and only the callback precedes the erasure.

  `LinesLeakNothing` is for lines that hand on (`HandsOn`): filters only in front of taps, every
  node but taps with a successor, no node with order. It adds that the packages a node needs are there
  for each task on its way (`DataWaits`, so that nobody returns early) and that each packet of the
  table is somewhere (`KeptIsSomewhere`). The conditions are needed: a filter may end a packet
  anywhere else and leave its context in the table, and an ordered node may keep a packet in its heap
  for a predecessor that never comes.

  `LinesDeliverInOrder` is the refinement `OrderedNodesDeliverInOrder`: at every ordered node but the
  graph node, whatever the nodes before it do to the order, each step of a line is a step of
  `InOrderDelivery` or none. It is for lines whose levels rise from node to node (`Climbs`, as
  `GraphTopology` makes them) and needs `NoOverflow` too. Its invariant
  `TurnInv` says of such a node that whoever works there has the packet that is next, that the next
  id has passed only what left or was skipped, that what left is before the next id or with the one
  thread that is about to set it, and that what left the node is found behind it only
  (`LeftIsBehind`). The last part is what keeps a packet from coming twice, and where the levels are
  needed.

Only model-checked, and why:

* liveness (`WF_`, `SF_` and ENABLED are out of the prover's reach);
* the walk of `GraphTopology` and everything of `OneThread`, which uses it (a RECURSIVE operator: its
  calls follow the edges of a graph and there is no number to do an induction over);
* of `AsyncGraph`, `NothingLeaks` for lines with ordered nodes, and the properties for graphs that
  are not lines; the run `join` shows that they do not hold in general. All graphs of the run
  `graphs` are lines whose levels rise, which TLC checks as an assumption of `MCAsyncGraph`.

## 6. Not modelled, and why

* Registries, options, contracts, status, devices: values set once before the graph runs. With them the
  part of `Node::Initialize`, `Node::Open` and `GraphView::Initialize` that creates and opens calculators.
* `Graph::Propagate1`, `Package::IsFull`, `Collection::Merge`, tagged objects, `Device::ComputeAsync`:
  called by nobody.
* `GraphHelper::ProcessPacket`: declared, not defined.
* The policy `ONE_THREAD_PER_INPUT_SOURCE`: it creates no scheduler and the next statement fails.
* Callbacks that are registered while packets run: the two function objects have no lock.
* Names, logging, `to_string`, tensor data: no property is about them.
* A calculator that returns an error ends the program (`exit(0)` in `Node::ProcessCtx`).
* `RemoveStreamContext` in a race with other calls on the map: nothing in `src/` calls it.
* Data races beyond those named: a lost insertion and a missed lookup stand for all outcomes of two
  threads at `context_map_`, and `finished_` is read and written as if it were atomic.

## 7. Plan

Done: every module of section 2; proofs about `OrderedNode` with its abstract specification and
`NobodyIsStranded`, `PacketTable`, `Package` with its numbering, walks and copy, `Shutdown`, `WatchedNode`, `InputStreams`, and about lines in
`AsyncGraph` (lifetimes, callbacks, leaks, order at ordered nodes).

Next, in this order:

1. `NothingLeaks` for lines with ordered nodes: with `TurnInv`, and `NoPacketStranded` at each of them.
2. Branches that are longer than a tap: a packet then is in several places, one per branch.
3. That `PacketTable` abstracts the table of `AsyncGraph`.
