# Specifications of RCL

RCL is a set of programs that exchange and sum data over RDMA: a summation
service (`all_reduce_tree/summation_service`), a networking service that builds
all-reduce topologies (`all_reduce_tree/networking_service`), its rewrite with
two channels per connection (`new_rdma`) and an older benchmark with a
barrier over all connections (`rdma_full_mesh_benchmark`). This directory holds
TLA+ modules for the concurrent and distributed part of these programs, the TLC
configurations that check them, and TLAPS proofs, for every value of the
constants, of the safety properties and refinements the runs check on small
instances.

    tlc -config SPSCQueue.cfg SPSCQueue        # any run of the table below
    tlapm SPSCQueue_proofs.tla                 # any of the *_proofs modules

## The system

| Part | State | Operations | Talks to |
|---|---|---|---|
| `SPSCQueue` (`spsc_queue.h`) | `slots_`, `head_`, `tail_` | emplace, try_emplace, push, try_push, front, pop, blocking_pop | one producer and one consumer thread |
| `SummationService` | two SPSC queues, background thread, `mem_group`/`available` | start_service_async, submit/sync/peek of tasks, the destructor, (de)register_memory, get_mem_buffer | client thread through the queues |
| `RDMASession`, `NPRDMAdapter`, `NPRDMAPreConnector` | socket, queue pair, completion queue, event channel | session_init, run_tests_send_side, run_tests_recv_side | its peer, by TCP and RDMA |
| `RDMAServer` with `--single-recv` | accepted sessions, an inflight and a ready queue per group | connecting, *_allreduce, do_reduce, broadcast | all senders, one thread |
| `Config` (`config.h`) | cluster list, topology, width, server name, number of senders | parse_args, add_to_cluster, set_server_name, conflict_check | `NetworkingService`, on every node |
| topologies (`network_service.cpp`, `double_binary_tree.h`) | none, computed from the cluster list | *_service, extract_sub_groups, get_tree_neighbors | decide who connects to whom |
| cluster start-up | one server thread and several client threads per node | listen, connect with retries, accept, handshakes | every node with its peers |
| `new_rdma` | per connection a socket, a data and a control channel | connect, accept, connect_active, connect_passive, start_service | one server process, several clients |
| full-mesh benchmark | a context with two `BlockingQueue`s per connection | both event loops, poll_cq, sync_thread_func | a barrier over 15 connections |

What is hard in it:

* the queue is lock-free, with non-atomic accesses to `slots_` between atomic
  loads and stores of two threads;
* handshakes send fixed-size pieces of one TCP stream and rely on both sides
  taking the same steps, and RDMA messages need a receive that the other
  process must have posted in time;
* completions of a side's own sends and of its peer's messages arrive in one
  queue in any order, and loops poll one per turn;
* barriers are built from rounds of queue operations over many sessions, with
  new data of fast senders arriving while slow ones are still signalled;
* each node computes the topology on its own, and a server waits for a number
  of senders that must be the number of clients other nodes start for it;
* connection attempts time out, processes end by `LOG(FATAL)` or are killed, and
  peers go on: they meet the end of a stream, a reset, failed completions or a
  context that is freed while another thread uses it.

`PROJECT.json` lists these as hazards, each at its line.

## Modules

| Module | Models | Abstract specification |
|---|---|---|
| `SPSCQueue` | the ring buffer, one action per atomic access, construction, move and destruction | `BoundedFIFO` |
| `SummationService` | client thread, background thread, the two channels as bounded queues | `BoundedFIFO` (of 2 * Bound + 1) |
| `MemoryRegistry` | register_memory, deregister_memory over a heap that reuses addresses | |
| `RDMASession` | both ends of a session, from the greeting to the endless exchange | |
| `AllReduceServer` | the single receiver and its senders | `AllReduceBarrier` |
| `Topology` | the five topologies as operators on node numbers | |
| `Configuration` | every node's way from the command line to the threads it starts; uses `Topology` | |
| `ClusterStartup` | all nodes' threads until their sessions are up; uses `Topology` | |
| `NewRdmaSession` | the new_rdma server with a thread per connection, and its clients | |
| `FullMeshBarrier` | the benchmark's event loops, poll_cq threads, sync thread, clients | `AllReduceBarrier` |
| `SPSCQueue_proofs`, `SummationService_proofs`, `MemoryRegistry_proofs`, `RDMASession_proofs`, `AllReduceServer_proofs`, `NewRdmaSession_proofs`, `FullMeshBarrier_proofs` | TLAPS proofs about the module of that name | |
| `ClusterStartup_proofs` | TLAPS proofs about `Topology`, `ClusterStartup` and `Configuration` | |
| `MCAllReduceServer`, `MCTopology`, `MCClusterStartup` | instances for TLC | |

`BoundedFIFO` is what both users of queues promise: Push at the end below a
bound, Take or Drop of the first. `AllReduceBarrier` is a barrier per round: a
client may contribute to a round when it was released from the one before, and
is released when all clients have contributed.

State corresponds to the code as the comments at the VARIABLES say; the map in
`PROJECT.json` names the lines of every definition. A few choices are common to
all modules:

* Definitions named `D_what` are `D` with a plausible bug. They are used by
  nothing but the runs that replace `D` by them, to show that a property fails
  when the code is wrong in that way.
* `pc`-like variables name the place of a thread in its function. Whatever one
  thread does between two visible accesses is one action.
* External parts are modelled from how the code uses them: TCP is a reliable
  FIFO that accepts connections into a backlog as soon as a socket listens; a
  reliable-connected queue pair delivers in order, consumes a posted receive
  for a SEND or a write with immediate, and completes the sender's request
  some time later; a completion raises an event only if its queue is armed;
  the heap returns any address that is not in use.
* Deaths. The processes in a constant `Mortal` may be killed at any step.
  `LOG(FATAL)` and a killed process look alike to the peer: what was written
  before is still read, then the stream ends; it is reset if the dead process
  left bytes unread or is written to. RDMA messages to a dead process, and those
  it did not acknowledge, complete with an error once the retries are exhausted,
  and after that the queue pair (in `RDMASession`) flushes its receives. What a
  dead process posted last may or may not have left it.
* Payloads are left out. A message is its kind, a task its number and width.

Points where a model is smaller than the code:

* `SPSCQueue` interleaves the atomic accesses as sequentially consistent steps.
  Each thread writes only its own index with release and reads the other's
  with acquire, so every value read was published after the slot accesses
  before it; a thread may read an index late, which is the same as the thread
  being slow. `size` and `empty` are left out (nobody depends on them), and so
  is the destructor.
* In `AllReduceServer` the handshake of a session is one step, which blocks or
  ends the process when the sender is dead. Its event mode has the event channel
  of each session as `RDMASession` has it.
* `ClusterStartup` has the handshake of a session as one step of both ends.
* `Configuration` takes the nodes one after the other: they do not communicate
  before they connect (its specification is called `ConfSpec`, so that the
  proofs can use it together with `ClusterStartup`). An address is its place in
  the sorted order. `std::sort` is stated by its result: the r-th entry is the
  one with fewer than r entries below it and at least r up to it (`Sorted`). A
  `--cluster` option names every node once, in any order (`ClusterAssumption`),
  as in all command lines of `networking_service/README.md`: only such a list is
  the right one on all nodes, since `add_to_cluster` leaves out the node's own
  address and nothing else, a repeated one included. The options for devices,
  ports, sizes and traffic class are left out.
* `FullMeshBarrier`: a message to a client that has not posted its receives yet
  is retried without end (`rnr_retry_count = 7`), so it just waits in `inbox`.
  What a thread finds in a freed context is either what was there before or the
  end of the process. Of the connections beyond those that start the barrier
  there is at most one: with two, `push_back` may move `ctx_group` while the
  sync thread iterates over it.
* `NewRdmaSession` leaves the `sleep_for`s between steps out; no order depends on
  them.

## Runs

| Run | Instance | Distinct states | Shows |
|---|---|---|---|
| `spsc` | capacity 3, 2 values | 4 170 | type, no slot race, object lifetime, implements the FIFO, spin loops end |
| `session` | 2 unacknowledged messages, both modes, either side may be killed | 81 126 | no side runs ahead of a synchronisation, every message finds its receive, data and credit alternate, polled mode never stops while both live |
| `session_event` | the same without deaths | | **violated**: in event mode a thread waits with a completion in its queue |
| `allreduce` | 3 senders in 1 or 3 groups, 2 rounds, one mortal sender, both modes | 397 518 | no broadcast before the reduction is complete, no session lost, implements the barrier, all rounds complete in polled mode |
| `topology` | 2 or 3 nodes with any combination of options; up to 27 nodes, tree width up to 5 | 67 242 | all nodes judge a command line alike; groups agree and are disjoint, tree and ring reach everybody, the double tree matches at both ends, senders are counted right |
| `startup` | all topologies, 2 to 4 nodes, one or many receiver threads | 189 990 | nobody is stranded in a backlog, no process aborts once all listen, the cluster comes up |
| `odd_tree` | double binary tree of 3 nodes | | **violated**: the cluster never comes up |
| `summation` | Bound 2, widths 2, 20, 21, 7 tasks | 96 948 | k-th completion is the k-th task, implements one FIFO, calls return below the limit, a destructor that waits leaves no work undone |
| `registry` | 3 addresses, 6 entries | 2 002 | type, live entries and live buffers correspond, nothing is freed twice |
| `address_reuse` | the same | | **violated**: a live buffer is reported as already freed |
| `full_mesh` | 2 members, 1 late connection, 2 rounds, one member and the late one mortal | 341 946 | no thread uses queues that are not there yet, "MUST be empty" holds of the connections the barrier counts, implements the barrier, no round gets stuck |
| `new_rdma` | 2 clients, one mortal | 69 075 | the stream is parsed as written, receives are posted in time, completions never pile up, nobody ends but for a death, data flows for ever |

Bounds. Capacity 3 is the smallest at which the ring buffer is neither empty
nor full with one element and wraps at different places for both indices; the
proofs cover every capacity. In `summation` 7 tasks exceed the 2 * 2 + 1 that
fit, so the service is filled, blocks and is emptied again; 21 is a width
`reduce_sum` does not know, 2 and 20 are its limits. Two rounds are enough for
data of the next round to meet a barrier that is not finished with this one,
and both barriers return to a state that differs only by the round counters.
Three senders are one group in a full mesh of four nodes and three
groups in a tree of width 2 over eight; both are checked. 27 nodes allow trees of
width 3 with three levels (and 2 with four, 5 with two). Two unacknowledged
messages let late acknowledgements mix with the next turn. Six entries over
three addresses let each address be reused. `session` and `new_rdma` need no
bound on their rounds, their state repeats. Two clients, one of them mortal, are
enough to ask whether the death of one harms the other. In `full_mesh` the
barrier is started by 2 instead of 15 connections, one of which dies, with a
third that comes late and may be counted or not. The small deployments of
`topology` combine every topology, none and an unknown one, server name, sender count, receiver mode and
order of addresses; the large ones list the addresses in descending order.

Deadlock checking is off where the system may stop or a bound stops it: a
client that has given up, a process that has ended, a deployment whose last node
is done, bounded rounds or tasks, a client of the summation
service that submits into a full service, sessions in event mode.

Fairness. Each thread is weakly fair: the programs use one OS thread for each,
and the only lock, the mutex of `BlockingQueue`, is held for single operations.
The network delivers and acknowledges (reliable connections with infinite
retry). Calls a user may or may not make
(pushing, popping, submitting, registering), deaths and timeouts are not fair.
`SpinsEnd` assumes of the other thread only that it returns to its blocking
operation again and again. Liveness is claimed while the processes concerned
live, and not in event mode, where `session_event` shows what can happen.

### What the violated runs mean

* `session_event`: `query_status` fetches an event, re-arms the queue and polls
  one completion. If two completions came before the queue was armed again,
  the second raises no event, so the thread waits although the completion is
  there; the peer then waits for an answer. Draining the queue before waiting
  again would repair it.
* `odd_tree`: `get_connection` gives a node children only if its offset is
  below `cluster.size() / 2`. For three nodes, node 1 is the parent of nodes 0
  and 2 but computes no children, so it waits for 0 senders, and the test for
  equality after the first increment never succeeds. `DoubleTreeMatches` shows
  that even sizes are right.
* `address_reuse`: `deregister_memory` stops at the first entry with the
  pointer, which after reuse of an address is the freed one. The live buffer
  is reported as freed and stays allocated. Nothing is ever freed twice.

### What the models show besides

Ends that `Configuration` reaches and that a user of the program should know:

* The server-client example of `networking_service/README.md` (`--num 3
  --single-recv --server 12.12.12.114`, without `--topo`) passes
  `conflict_check` and ends in "Unknown service type": nothing but `--topo`
  chooses a topology.
* "You mush speficy master node" is never printed: `serve_as_client` is set only
  together with a name. Without `--server` all nodes of a server-client
  deployment become clients of an empty address, which ends them in
  `RDMAClient::config_check`.
* `--topo` with a name that is none of a topology is ignored without a message,
  so that an earlier `--topo`, or none, is in force.
* A tree width of 1 passes `conflict_check`, and `extract_sub_groups` then
  divides by one for ever, on all nodes.
* `add_to_cluster` drops a node's own address but no duplicates.

And of faults:

* In `new_rdma` the death of one client can end the server and with it every
  connection: by the end of its stream during the handshake, by SIGPIPE, or by a
  failed completion. Otherwise the server's thread for it sleeps (after a reset)
  or polls for ever. `FatalOnlyAfterLoss` says that nothing else ends the server.
* In the networking service a peer that dies during the handshake leaves the
  other side in `recv_data_force` for ever, or ends it after a reset; the single
  receiver initialises sessions in order, so all others wait with it.
* In the benchmark the death of a client stops the barrier for all, since its
  bit is never set again, or ends the server. It never lets a round pass early.
* Two retry loops end by the code's own choice, and the properties allow it. A
  client of the networking service that gives up ends its process, with whoever
  is connected to it: `NoLateAbort` says that this cannot happen once all
  servers listen, and `ClusterComesUp` is claimed if nobody gives up. A client
  of `new_rdma` whose tries all failed goes on without a connection and ends
  when it writes: `FatalOnlyAfterLoss` allows this end and no harm to others.
* A connection of the benchmark that comes after `max_QP` was read is signalled
  but never counted. Its arrivals stay in `q2`, and the warning "MUST be empty"
  comes for it; `MustBeEmpty` is about the counted ones.

## Proofs

`SPSCQueue_proofs` proves, for every capacity of at least 2
(`CapacityAssumption`) and every set of elements that does not contain the
marker for raw memory (`RawAssumption`):

* `TypeCorrect`: `Spec => []TypeOK`;
* `SlotRaceFreedom`: `Spec => []NoSlotRace`;
* `LifetimeSafety`: `Spec => []ObjectLifetime`;
* `Refinement`: `Spec => ImplementsFIFO`, the FIFO of `capacity_ - 1` elements.

None of these is inductive. `NoSlotRace` depends on what a thread found in an
earlier step and the other thread has not undone since, and `ObjectLifetime` on
where objects are. The invariant `IInv` therefore adds to the types: a slot
holds an object exactly if it lies in the cyclic interval from `tail_` to
`head_` and is not yet destroyed, or is constructed and not yet published
(`Occupied`); after a producer's check the successor of `head_` is not `tail_`
until it publishes, and after a consumer's check `head_` is not `tail_` until
it publishes. `NextIInv` has one step per action. `Refinement` maps the queue to
the slots from the first one not taken to `head_`; `ContentsType` gives its
length and elements, `ContentsUnchanged` the steps that leave it alone, and
`StepRefines` shows that publishing `head_` is Push, moving out Take, destroying
an element nobody moved out Drop, and all else a stutter.

`MemoryRegistry_proofs` proves, for every set of addresses and every number of
entries, `TypeCorrect`, `EntriesMatch` (`Spec => []EntriesMatchHeap`) and
`FreeSafety` (`Spec => NoDoubleFree`). Its `IInv` says that live entries stand
for buffers in use, that each buffer in use has a live entry, and that no two
live entries share a buffer. Uniqueness is needed because `deregister_memory`
may stop at a stale entry of a reused address: if the entry it stops at is live,
it is the only one. Freeing is then safe, while `address_reuse` shows that
freeing may not happen at all.

`SummationService_proofs` proves, for channels of every size, every set of widths
and any number of tasks, `TypeCorrect`, `CompletionOrder`
(`Spec => []CompletionsInOrder`) and `Refinement` (`Spec => ImplementsFIFO`, one
FIFO of 2 * Bound + 1 tasks). A completion is only known to be the right one if
all tasks ahead of it are: `IInv` numbers the tasks in channel 1, the one the
background thread holds and those in channel 0 consecutively from `collected`,
and says that a task whose `reduce_sum` is behind it has its sum stored if its
width is known. Pushing to channel 0 is Push, collecting from channel 1 is Take,
and what the background thread does is a stutter.

`AllReduceServer_proofs` proves, for every finite non-empty set of senders, every
grouping of them onto groups 1 to k, any number of rounds and any set of mortal
senders, `TypeCorrect`, `ReductionFirst` (`Spec => []ReduceBeforeBroadcast`),
`SessionsKept` (`Spec => []NoSessionLost`) and `Refinement`
(`Spec => ImplementsBarrier`). The parts of `IInv` are: `QueuesOK`, each session
that is up is in exactly one of its group's two queues, once; `ControlOK`, how
far the start and the loops over the groups have come, and which queues are
empty there; `RoundsOK`, a session is ready exactly if one more of its pushes was
reduced than answered, all are answered equally often until the broadcast
starts, and reduced equally often during it; `TrafficOK`, a push is on the wire,
then in the completion queue, then reduced, and a sender has pushed once more
than it has used up control messages; `EventsOK`, an event is only raised by
disarming the queue. Without `TrafficOK` a sender
could contribute twice to a round, and without `RoundsOK` the loops' counting of
sessions says nothing about rounds.

`FullMeshBarrier_proofs` proves, for every finite non-empty set of members, at
most one late connection, any mortal ones and any number of rounds,
`ContextBuilt` (`Spec => []BuiltBeforeUse`), `EmptyWhenSignalled`
(`Spec => []MustBeEmpty`) and `Refinement` (`Spec => ImplementsBarrier`).
`TokenOK` says that server and client of a connection pass one token back and
forth, which is in the inbox, on the wire or with the poll_cq thread; `SyncOK` says
what the sync thread can rely on; `EpochOK` says that a context the
sync thread counts has at most the one signal or arrival it owes, and that all are
signalled equally often but for what they owe. A client that is ahead of the others is
therefore never counted for a round twice, and "MUST be empty" is true.

`RDMASession_proofs` proves, for every number of unacknowledged messages of at
least one, both modes and any mortal sides, `TypeCorrect`, `Synchronised`
(`Spec => []SyncsMatch`), `ReceivesPosted` (`Spec => []NoRNR`) and `Alternation`
(`Spec => []OneTurn`). `NoRNR` at the first write depends on the handshake, so
`IInv` follows the program from the start: a socket holds exactly what the
peer wrote and this side has not read yet (`SyncOK`), nothing is exchanged
before the client has finished its handshake (`QuietOK`), a side that has posted
its first receive has one posted, or the message that consumed it is not polled
yet, or the receive is about to be replaced (`ReceivesOK`), and the turn is in at
most one of six places (`TurnOK`).

`NewRdmaSession_proofs` proves, for any set of clients and any mortal ones,
`StreamParsed` (`Spec => []StreamMatches`), `ReceivesPosted` (`Spec => []NoRNR`),
`Balanced` (`Spec => []CompletionsBalanced`) and `EndsOnlyAfterLoss`
(`Spec => []FatalOnlyAfterLoss`). The invariant is a conjunction over
connections: `Shake` relates the two threads' places, the bytes between them and
the states of their queue pairs during both handshakes; `Service` says that one
token goes round between the two ends, what has become of a side's own message
while it awaits its completion, and where receives are posted. `FatalOnlyAfterLoss` needs both, since any
unexpected message, status or kind of completion would end a process.

`ClusterStartup_proofs` has four parts.

* Topology, for node numbers of any size. `SendersCounted`: the number of senders
  a server waits for is the number of nodes that connect to it, for every
  topology and size that `Startable` describes, except at the middle node of an
  odd double binary tree, which waits for none. `TreeGroupsAgreeEverywhere` and
  `DoubleTreeEdges` say what the nodes' separate computations have to do with
  each other. Recursive functions and sequences of any length are reasoned about
  without the library's induction theorems: the set of places that satisfy the
  claim is shown to have no least counterexample (`Recursion`).
* Start-up. From the hypothesis `AllStartable` (a known topology, at least two
  nodes and, for a tree, a width of at least 2 of which the number of nodes is a
  power): `NobodyStranded` (`AllStartable /\ Spec => []NoClientStranded`) and
  `AbortsAreEarly` (... `=> NoLateAbort`). `IInv` says that backlog and sessions
  of a server hold exactly the clients that have come, each once (`QueuesOK`),
  that the accept loop has ended only with all senders accepted and that sessions
  are initialised in order (`ServerOK`), and why a process can have ended
  (`AbortOK`). Odd double binary trees are not excluded: their servers are stuck,
  as `odd_tree` shows, but strand nobody after an accept loop that has ended.
* The topologies that start, for all deployments whose options parse
  (`DeploymentAssumption`). `GroupsAgree`, `TreeIsComplete` and `DoubleTreesMatch`
  prove `TreeGroupsAgree`, `TreeReachesAll` and `DoubleTreeMatches` from
  `ConfInv`: the width is a number, and a node that starts its threads has
  passed `conflict_check` and the test of the tree's size with the
  configuration it has. `RunningStartable` derives `Startable` from it, which
  justifies the hypothesis of the second part. For `TreeReachesAll`, before step
  s every node holds the data of the window of s nodes it is in (`HoldsWindows`),
  and the window of size n is everything; for the roots of the double tree,
  each step up halves the offset (`RootReached`).
* What the nodes make of their options, for clusters of any size and command
  lines of any length (`DeploymentAssumption` and `ClusterAssumption`).
  `AllJudgeAlike`, `RingCloses` and `SendersAgree` prove `NodesAgree`,
  `RingIsOneCycle` and `SendersMatch`. They compare nodes that have computed on
  their own, so the inductive invariant `NodesInv` has to say what a node's
  Config object is at any time: after k options each field has the value of the
  last of them that sets it (an unknown topology sets nothing), and the list of addresses is in order, holds the
  other nodes, and has (n - 1) entries for each `--cluster` so far (`Parsed`);
  what `conflict_check` and `start_service_async` then make of it (`Ended`); and
  that the nodes before the one whose turn it is have come to an end, and those
  after it have the defaults (`Progress`). The list is followed through
  `add_to_cluster` by what sorting does to length, range and order
  (`SortFacts`, `ListFacts`). Two nodes' objects then differ only in their lists
  and their role, and not in what decides (`Alike`); in an ordered list of the
  others the first after m is m + 1, or 0 (`NextHopIs`); and in that of all
  nodes each is at its own place (`OrderedNodes`). `StartsWhatTopologySays` puts
  this together: what a node starts is what `Topology` defines for its number,
  in a topology that is `Startable`. `ClusterStartup` and the first two parts of
  the proofs begin with just that.

Only model-checked:

* all liveness properties: fairness and ENABLED are outside the prover's reach.
  Every invariant and every safety action property of the passing runs, and the
  safety part of every refinement, is also proved;
* that `BoundedFIFO` and `AllReduceBarrier` are the right abstractions is for
  the reader to judge; the refinements are of their safety part.

## Not modelled

Logging, timers, address and
TOS utilities, the abstract `Coordinator` of the scheduling service, the message
layout of the benchmark, `back_up/omp.cpp`, examples and benchmarks, and variants
that are unreachable (`two_channel_test`, `server_test`,
`start_service_default`, `start_service_single_channel`). Floating-point sums.
Writing past the 1024 entries of `mem_group` or the 32 of the benchmark's bitmap
and moving `ctx_group` during an iteration are undefined behaviour that the
models exclude by their bounds.

## Plan

Done, in this order: `SPSCQueue` with its abstraction and proofs,
`SummationService` on top of it, `RDMASession`, `AllReduceServer` with
`AllReduceBarrier`, `Topology`, `ClusterStartup`, `MemoryRegistry` with proofs,
`FullMeshBarrier`, `NewRdmaSession`; then the faults: deaths of processes in
`RDMASession`, `NewRdmaSession` (now with several clients) and `FullMeshBarrier`
(with both event loops), the event mode of `AllReduceServer`, and
`Configuration`.

Then the proofs: `SummationService`, `AllReduceServer`, `FullMeshBarrier`,
`RDMASession`, `NewRdmaSession`, `ClusterStartup` with `Topology`, and
`Configuration`.

No safety property is left without a proof. What could be added is the
undefined behaviour that the bounds exclude (see above), and the liveness
properties if a prover for fairness becomes available.
