# A TLA+ model of the Adaptive AUTOSAR platform

This directory models the repository's own logic: the software update service, service
discovery, publish/subscribe, remote procedure calls and their bytes, health management,
execution and state management, diagnostics, the storages, and the applications that use
them. Each part is a TLA+ module translated from its source and checked by TLC on small
instances; of the 38 properties that the passing runs check, TLAPS proves 27 for all
instances, in eight proof modules; two more runs show where the code departs from its comments. `PROJECT.json` maps every definition to the lines it models and lists
the runs, the mutants, the hazards and the theorems.

Run a check with `tlc -config <cfg> <module>` and a proof with `tlapm <module>.tla`, in
this directory.

## Inventory

| Component | State it keeps | Operations | Talks to |
|---|---|---|---|
| UCM package manager (`ara/ucm`) | update state, pending transfers and their data, staged package, registry, installed files, execution manifest | TransferStart/Data/Exit, ProcessSwPackage, Activate, Reset | file storage, key-value storage, `tar`, the manifest that execution management reads |
| UCM and VUCM applications | one campaign: step, package, transfer id | Run, poll loop | proxy and skeleton over SOME/IP RPC on TCP |
| SOME/IP RPC | reassembly buffer, reply queue, accepted connection | accept, receive, send, disconnect | poller, generated proxies and skeletons |
| SD client (`ara/com/someip/sd`) | six-state FSM, `TtlTimer` (requested, TTL, signal flag, disposed), offered endpoint and its lock | Start, Stop, two waits, TryGetOfferedEndpoint, destructor, message handler | SD network layer; four threads share the timer, all the lock |
| SD server | four-state FSM, a stop flag per timer state, queue of Finds | Start, Stop, Find handler, sends that may be refused | SD network layer |
| SD network layer | send queue, list of receivers | Send, onReceive, onSend | UDP multicast, every client and server |
| Publish/subscribe | subscription counter and FSM; queue of acknowledgements | Start, Stop, Subscribe, Publish, wait for a subscription | SD network layer |
| Vehicle status service, extended vehicle, watchdog | life of each process, log counter, expiry flags | Main, Terminate, event callback, log | publish/subscribe, key-value storage |
| Execution library (`ara/exec`) | function-group states, notifiers, promises, execution states, activation cycle | SetState, transitions, reports, WaitForActivation | RPC; execution and state management |
| Execution and state management | table of children, state of the machine | spawn, reap, terminate, kill | `ara/exec`, `ara/sm`, the operating system |
| Health management (`ara/phm`) | status of each supervision, global status, counters, worker threads | checkpoints, reference cycle, verdict, recovery | supervised entities, recovery action |
| Checkpoint transport, E2E profile 11 | two message counters, send queue, FIFO | TrySend, Protect, Check | health management |
| Diagnostics (`ara/diag`) | event status, debouncers, security levels, the transfer, reset requests, trouble codes | UDS requests, monitor actions | router, delay timer, timer thread |
| Diagnostic manager and DoIP | bridge to the vehicle, DoIP queues, cache of resources, buffers on the stack | build and tear down the bridge, request, answer, a Receive that fails | SD client, monitor, OBD-II emulator, web service |
| Persistency (`ara/per`) | key-value map, its file and temporary file | open, set, sync | file system |
| SOME/IP messages, entries, options | byte layouts, session id, reboot flag | compose, send, deserialise | all of `ara/com` |
| Core types (`ara/core`) | heap objects behind Result and Optional | copy, move, swap, access | everything |
| Conversations, logging, ARXML reader, configuration helpers, communication groups | little or none | | |

The hard behaviours:

* *Threads without locks.* Condition variables are notified without their mutex, or
  waited on without a predicate; flags are read, acted upon and reset in separate
  steps; callbacks of two threads update one object or one storage, also while it is
  being saved; threads share one `unique_lock` object.
* *State read first and used later.* Stop of an event group, the poller's handling of a
  subscription, the update of the global supervision, TerminateAll next to a spawn.
* *Sessions that break off.* A client of the update service can time out, die in the
  middle of a frame, or come back while the server still works for its predecessor; a
  DoIP client can be replaced while its requests are under way.
* *Crashes.* The update service, the vehicle and the watchdogs can be killed at any
  point, in the middle of a save too.
* *Partial failure.* `tar`, the manifest, the registry and `fork` fail one by one, after
  earlier steps took effect; a queue refuses what is sent; the result of a Receive is not
  looked at; a loop throws with a lock taken.
* *State that outlives its cause.* The staging directory, pending transfers, the signal
  flag, the TTL, the stop flags, unjoined threads.
* *Timeouts and delays.* TTL, call deadline, reference cycle, maximum deadline,
  debouncing time, delay after failed unlock attempts, lifetime of a cache.
* *Counters that wrap.* Session ids, block counters, E2E counters, failed attempts.

What makes each component correct is what its run checks, in the table below.

## Modules

### PackageManager

`ara::ucm::PackageManager`. The UCM process is a single poll loop, so a public method
runs to its end before the next begins: each is one action, parameterised by the result
it returns. A package is a name whose archive is a sequence of chunks, each with the
members that end in it; extraction (`Extracted`, external) writes the members of the
chunks that arrived over what the staging directory already holds, and may stop half
way. Storages that fail to open, failing writes, a torn manifest and a registry that is
not synced are outcomes of the actions. `Restart` is the end of the process: the members
are lost, the files stay. `onClientDisconnected` is the handler of the skeleton.

### UpdateCampaign, UcmProofs

Extends PackageManager with VUCM, the RPC frames and the TCP connection. A request is a
sequence of units; only TransferData has more than one, so a frame can be cut. The five
handlers of the skeleton each run one PackageManager action and queue its reply;
replies are not matched to requests, exactly as in the proxy. VUCM gives up at its
deadline, may be killed, and another campaign may follow at once, with its connection in
the backlog. For one descriptor the poller runs the sender before the receiver, so a request
is received when no reply waits. UcmProofs proves both modules' safety.

### SdClient, OfferedEndpoint, SdClientProofs, SdServer

`SomeIpSdClient` with `TtlTimer` and the states under `sd/fsm`. Four threads: the agent
(the FSM), the owner, the network thread and a thread in one of the two timed waits.
Setters take two steps, value then flag and notify; `WaitForSignal` is split at the test
of the flag and at the blocking, since the notifier does not hold the mutex.
`mSignalFlag` is not initialised in the code, so it starts as either value.

OfferedEndpoint is what the network thread stores of an offer and other threads ask for, a
part of the client that shares no variable with the rest. All threads use one `unique_lock`
object: its flag is tested before the mutex is taken, and written after it was taken and
after it was released, each a step of its own. So `lock()` throws when the flag says that
the mutex is owned, `unlock()` throws when another thread has just written it, and a thread may
block for good. The loop over the options throws past the last one when there are some but
none is a TCP endpoint, with the mutex still locked.

`SomeIpSdServer` with its timer states: the agent's `pc` follows Activate, the sleeps of
SetTimer, sendOffer and the transition; the owner raises the three stop flags one after
the other and joins; the network thread queues Finds. The machine is in its next state
before that state is activated, so the StopOffer leaves in a later step than the change to
NotReady, and the queue of the network layer may refuse every message (`Send`).

### HealthManagement

Both supervisions with their workers, the global supervision, and the part of
`PlatformHealthManagement::Main` that wires them while the alive worker already runs. A
worker's callback is two steps, computing the global update and applying it. Time is the
phase of a checkpoint transition: early, in time, late.

### CheckpointChannel

How checkpoints get to health management: `Profile11` (CRC-8 over the bytes, 4-bit
counter), the queue that drops when its lock is taken, the FIFO that the sender's own
communicator may read as well. On the way a message can be lost, or one of its bytes can
change: that is the fault which a CRC of one byte is sure to find, while two changed bytes
can cancel out. Extends SomeIpMessages for the bytes.

### PubSub

The server of one event group with its three states, the clients, and UDP, which loses
and reorders. The poller reads the state and handles a request by what it read; Stop
does the same in the owner's thread. An acknowledgement is queued by a `try_lock`, is
multicast to everyone, and wakes a thread that waits without a predicate.

### VehicleStatus, KeyValueStorage, AtomicStorage, VehicleStatusProofs

VehicleStatus composes PubSub and KeyValueStorage: `main` and `Main` of the extended
vehicle (construction, which may fail half way, the heartbeat loop, StopOfferService, the
last save) and of the watchdogs, whose poller's callback and loop write to one storage
in separate steps. Every process may be killed at any time and come back.
KeyValueStorage has the map, the file and the temporary file. A save opens the temporary
file, walks the map entry by entry and renames; nothing keeps the other thread from
`SetValue` meanwhile. `walk` remembers the map as it was when the walk began: if the map is
another one when the walk ends, each entry that was written is the value before, the value
after or missing, since the walk follows links that are being changed. AtomicStorage is
the abstract specification: durable contents change in one step, to a finished copy, which is
all of the memory if that stayed as it was while it was copied, and otherwise of some
of its entries. `StorageIsAtomic` is the refinement. The proofs about PubSub are in
VehicleStatusProofs too, since VehicleStatus extends it.

### Execution, ExecutionProofs, DeterministicClient

Execution management's Main (spawn the bootstrap process, reap, terminate, kill) and
its poller (StateServer, ExecutionServer, onStateChange, spawn) share the table of
children; state management is the bootstrap process and calls over TCP with timeouts.
DeterministicClient has the static cycle thread, started by the first client and ended by
the last, the `AtomicOptional` seed of two members, and waits without a predicate.
Constructors and destructors of different clients may overlap: two destructors that both see
themselves as the last one wait for one future, and the second throws (`Abort`).

### UdsServer, DiagnosticMonitor, DiagnosticRecords, DiagnosticMonitorProofs

UdsServer: the router, SecurityAccess with the thread of its delay timer, RequestTransfer,
TransferData and exit, EcuResetRequest, GenericRoutine. Each request comes with meta-info of
its own, which may lack a key or hold a threshold that eight bits cannot hold. The starter of
a delay spins until the thread of the timer waits; when that is over between two looks, it
spins for ever and no request is answered any more.

DiagnosticMonitor: Monitor, both debouncers and Event; the timer-based one with the thread
that waits, is notified, frozen and joined. `start` reads once how much of the time is left;
it has nothing to do when a thread waits (`Check`), joins another one, which may decide the
test in the meantime, launches the next one with the time it read before, and spins until
that one waits (`Spin`). Nothing keeps a wait from ending before the spinner looks
(`SpinsForEver`). The jump values of the counter may lie anywhere, at or beyond the
thresholds too, where the code takes them as they are.

DiagnosticRecords: DTCInformation with its three callbacks, each of which is called where
the code calls it.

### DoipBridge, UdsDoipProofs

DiagnosticManager with its monitor, the OBD-II to DoIP converter, DoipClient, DoipServer
with its handlers, the requests for resources and their cache. A converter can be
replaced while the old one is still alive, since the code forgets it. Both ends ignore the
result of Receive: at the end of a connection, or after an error, they handle what their
buffer on the stack happens to hold, which may be no packet, or the one before
(`clientBuffer`, `serverBuffer`, the actions with `again` and `ClientRepeats`). The answer
of the web service is under way for some time (`reading`) before it is cached, and what is
cached counts as new when it arrives. An answer that is a number too large or a value of
another type throws where nobody catches, and ends the process of the vehicle
(`VehicleAborts`). UdsDoipProofs holds the proofs about UdsServer and about DoipBridge.

### SomeIpMessages, CoreTypes, LibraryProofs, WireProofs

SomeIpMessages: the payload of service-discovery messages with entries and options,
written and read as bytes, session id and reboot flag, and the reassembly of a stream of
requests. CoreTypes: `Result` and `Optional` as owners of heap cells under copies,
moves, swaps and accessors. LibraryProofs holds the proofs about CoreTypes, SdServer and
OfferedEndpoint, WireProofs those about SomeIpMessages, CheckpointChannel and HealthManagement, which the
checkpoints are for.

## Runs

| Run | Checks | Shows |
|---|---|---|
| `package_manager` | ActiveSessionKnown, StagedFileComplete, ActivatedIsInstalled, RegistryFileGrows | the manager stays consistent under any order of calls, failures and restarts |
| `campaign` | SuccessMeansInstalled, FailedCampaignIsCleared | at the step in which VUCM reports success its package is on the target machine, if UCM could open its file storage; a failed campaign does not leave UCM busy |
| `sd_client` | FindsBounded, NoChangeUnseen, ReadyEnds, JoinEndsOutsideWindow, EndpointIsWhole | no order of the threads loses a change of the timer or floods the network; a client leaves ServiceReady; the destructor returns unless its notify falls into the window between the predicate and the blocking; nobody is told the address of one offer with the port of another, whatever became of the lock |
| `libraries` | RoundTrip, RebootFlag, StreamIsCut, CheckpointsArrive, ResultsAreSound, OfferIsWithdrawn, StopReturns, FindIsAnswered, BlamedIsExpired, ExpiryIsRecovered, DeadlineSettles | what is written is read; the reboot flag falls at the first wrap; a cut stream is put together; checkpoints pass in order over losses; a Result has one side and one owner; a server whose agent has ended has withdrawn its offer, but for a refused StopOffer or a stranded agent, stops when told, and answers; recovery follows expiry and nothing else, and the deadline worker ends |
| `pubsub` | AcceptedIsServed, DequeueFindsMessage | who was counted is served while nobody stray unsubscribes; a notified waiter finds a message |
| `vehicle_status` | StoppedIsDown, VehicleTerminates | a stopped event group is down; a signalled vehicle ends |
| `storage` | StorageIsAtomic | a storage survives a kill at any point of a save, and a save is complete unless the other thread writes during it |
| `single_writer` | SingleWriter, violated | the comments promise one writer at a time; the watchdog has two threads that write |
| `execution` | SuccessMeansStarted, KnownChildrenEnd, Terminates, CallsReturn | a successful SetState tried to start every process of the state; no child known before TerminateAll outlives it; execution management ends; calls of deterministic clients return, constructors and waits as long as no two clients were made or destroyed at a time |
| `diagnostics` | FailuresAreLimited, BlocksInOrder, AnsweredOnce, AnswerIsRecent | wrong keys between two delays are limited by the loosest threshold that came with one; blocks are in order; no request is answered twice but for packets that a failed Receive repeats; no answer is older than the cache and the web service allow |
| `monitor` | ReportStands, Debounced, ReportReturns | no late thread overrules a report; single reports decide only after the whole way to a threshold, less the jump; reports return unless they spin on a thread that has waited already |
| `dtc_status` | StatusChangesAreTold, violated | the status callback hears neither of a code that is cleared nor of one that is stored |

`DoipBridge` also assumes `SupportedIsServed`, which TLC evaluates for all 255 pids: the
pids announced to the tester are exactly those that are answered.

Every property has a mutant: a changed version of one mapped definition, kept just above
it and marked `Mutant:`, under which TLC finds the property violated. Type invariants of
the modules were checked in the same instances and are not kept in the runs; where a
proof needs them they are part of its invariant.

Runs that hold several subjects (`libraries`, `diagnostics`, `execution`) choose one of
them in the initial state; the others stand still in that behaviour.

What a property does not say, where a reader may expect more of it:

* AcceptedIsServed holds until someone who was not counted unsubscribes; after that the server
  may leave clients without service, see below. DequeueFindsMessage is about a thread that was
  notified; one that wakes spuriously takes from the queue too, which may be empty
  (`someip_pubsub_client.cpp:89`), and that is undefined.
* SuccessMeansStarted demands an attempt for each process: a `fork` that fails is
  printed and counts as one, in the code and in the model.
* ExpiryIsRecovered: recovery is a fact that stays, so that a second expiry is not told
  from the first. DeadlineSettles is about the first verdict of a deadline.
* RebootFlag is about the sender; nothing in the code compares the flag of a received
  message. StreamIsCut is about one connection, not about what an ended one left in the
  buffer; CheckpointsArrive about two ends of which neither restarts.
* AnswerIsRecent counts time as it passes; a system clock that is set back, which the
  cache would follow, is not modelled.
* StopReturns, FindIsAnswered: a Find is answered when its Offer was handed to the network
  layer, which may drop it.

### Bounds

* `MCPackageManager`: two packages, one whole and one without metadata, that install the
  same binary; two transfers and two blocks each, so that a transfer can be short, exact
  or too long and a second one can meet what the first left behind.
* `MCUpdateCampaign`: three campaigns, so that one can fail, the next can inherit its
  leftovers, and a third can meet a late reply. The two packages have the same size, binary
  and process, so that one can be taken for the other. `Bulk = 2` cuts a TransferData frame at
  its head or in its body.
* `MCSdClient`: `RepetitionsMax = 2` gives a first, a middle and a last round. Offers,
  stops and waits are unbounded. The endpoint has two readers, the Main of the diagnostic
  manager and the thread of its debouncer, so that one can pass the test of the flag while
  the other writes it; two endpoints are enough to mix.
* `MCLibraries`: six subjects. Messages have two entries and two options out of four, and
  session ids that wrap at two; the stream has three requests, cut anywhere; E2E counters wrap
  at two, with six checkpoints and three ways to change a byte; two Results and two void ones
  share four cells. The SD server has two rounds and three Finds, so that one phase can answer
  two and leave one to the next; starts and stops are unbounded. For health management a
  cycle can be too quiet, good or too busy, and a tolerance of two lets the supervision fail
  and recover before it expires.
* `MCPubSub`: two clients, one of which waits, two datagrams under way; session ids wrap
  at two. A client subscribes while the count is zero, and a second request may be
  under way by then, so that a count of two is reached.
* `MCVehicleStatus`: one watchdog, one datagram under way. For `vehicle_status` no entries of
  the logs are followed, only which files are whole. For the runs about the storage three entries of
  the watchdog's log are followed, one that was written before a save and one of each thread
  during it, while the vehicle keeps running.
* `MCExecution`: state management and one process, two calls of SetState; two
  deterministic clients, whose constructors and destructors may overlap, and one seed.
* `MCDiagnostics`, UdsServer: a router with security access and reset and one with the transfer, both
  forms of one level, seeds and counters that wrap at two, a pool of two bytes. The meta-info
  of a request has a threshold of one, of the largest counter, or of one more, which is
  kept as zero; or it lacks a key, or all of them. DoipBridge: two bridges,
  one request and one packet that is handled again, a cache of two ticks and a transit of one; a pid
  of one byte and one of four, the latter with two values. (`EncodeReads` proves for all six
  pids that what is encoded is what a tester reads.)
* `MCDiagnosticMonitor`: thresholds of -3 and 3, unequal steps, a jump to 1 towards
  passed and one to 4, beyond the threshold, towards failed; times of two and one ticks, words of
  eight values.
* `MCDiagnosticRecords`: two trouble codes and two bits.

No symmetry is used. Deadlock is not checked in `sd_client`, whose client is destroyed in the
end and whose endpoint may stay locked, in `libraries`, where the bound on what is sent is
reached, and in `diagnostics`, whose processes may end.

### Fairness

* UpdateCampaign: weak fairness of each callback of UCM's poll loop, which runs every
  descriptor that stays ready, and of the end of VUCM's wait, which has a deadline.
  Nobody has to start a campaign, and nothing prevents a kill.
* SdClient: weak fairness of the agent, whose sleeps and timed waits end, and of the
  calls that have begun. An agent blocked in `WaitForSignal` is not enabled: fairness
  does not hide a lost notify. Spurious wakeups are never fair. Nothing is fair about the
  endpoint's lock.
* SdServer: weak fairness of the agent and of a Stop that has begun.
* HealthManagement: weak fairness of Main, of each worker and of its callback, and of
  time. The supervised entity need not report.
* VehicleStatus: weak fairness of the vehicle's Main, of its poller while it polls, and
  of Terminate after the signal. Nobody has to start, signal or kill.
* Execution: weak fairness of Main and of the poller; processes need not end by
  themselves nor heed SIGTERM. DeterministicClient: of the cycle and of calls begun.
* DiagnosticMonitor: weak fairness of the reporting thread and of the timer's thread, not of
  the order in which the one looks and the other waits.

## Proofs

All theorems hold for every value of the constants that satisfies the named assumptions
of the module; these only say what the constants are (for instance `AliveAssumption`: a
minimum above zero and below the maximum and a positive tolerance, which the constructor
of AliveSupervision enforces, its maximum being taken not to wrap).

* **UcmProofs**, PackageManager: TypeOK, the properties of run `package_manager`, and
  StagedBinaryHasSession, NoDuplicateProcess, RegistryFileBehind and SessionsAreStable.
  Sessions need that the newest id is the one in use and that ids to be handed out are
  free; the staged file needs the link between its length and a pending declaration across
  Reset; the registry's file needs the state of the handles, since a registry that
  failed to open must not be written.
* **UcmProofs**, UpdateCampaign: SuccessMeansInstalled, for all packages, lengths of
  archives and frames, and any number of campaigns. Replies are not matched with requests,
  so the invariant (`CampaignInv`) says how far VUCM can be ahead of UCM. `WireOK` has the
  types, that a reassembled frame is a request or TransferData with a foreign block, and that
  at most one reply waits. `QueueOK`: a reply that gives an id gives one of a session that
  is unused since. `ConnectionOK`: the only connection with a client is that of the running
  VUCM. `DriverOK` lists where a campaign can be: it waits for its id; it asked and what the call
  relies on holds, or it was answered and what the call leaves behind holds (`Before`, `After`);
  or it went on with a reply meant for an earlier client, and then either its own
  TransferStart was refused, after which requests and replies are in step again, or the session
  it uses is gone and all it asks for fails. VUCM can therefore succeed only with the reply to
  its own Activate. The lemmas go unit by unit through what is unread (`Flow`,
  `PipeStep`) and handler by handler through the manager (`ManagerHandle`, `CallLeaves`).
* **SdClientProofs**: TypeOK, FindsBounded, NoChangeUnseen, and that the agent lives with
  its client. The invariant adds which FSM states can be at a waiting point, how many
  Finds each phase accounts for, that only the destructor disposes the entry state, and
  `ChangeIsFlagged`: from the test of the timer to the end of the wait, a change that no
  setter is still completing shows in the flag. This is why the order value, flag, notify
  against clear, read is right and only the wakeup itself can be lost.
* **LibraryProofs**: for SdServer, its TypeOK and OfferIsWithdrawn, for every number of rounds and
  of Finds; the invariant adds that a running agent is in a timer state, that offers belong to a
  round that is left, that what is queued was received, that a machine in NotReady has sent
  its StopOffer or is about to, and that an agent that ended elsewhere was stopped there
  (`Ended`). For OfferedEndpoint, EndpointIsWhole, for every number of readers and of
  endpoints: whatever the flag of the shared `unique_lock` says, a thread is between its
  locking and unlocking only while the mutex is its own (`EndpointInv`). For CoreTypes, its TypeOK
  and ResultsAreSound, for every number of variables and cells: the invariant (`Tidy`, `Whole`,
  `NotBoth`) says that each object on the heap is pointed to once unless it was given away,
  and that a Result exists with both of its Optionals or none.
* **WireProofs**, HealthManagement: TypeOK and BlamedIsExpired. The update a worker has
  computed may be applied much later, so the invariant says that an expired update still names
  an expired supervision (`UpdateIsSound`), which holds since Report never leaves kExpired.
* **WireProofs**, SomeIpMessages: RebootFlag, for every width of the session id: the flag is
  set exactly until the id first wraps. StreamIsCut, for every set of requests whose fields fit
  their widths and however the stream is cut: the requests lie one behind the other on a tape
  (`Laid`), of which the first were handed over, the reassembly buffer holds the beginning of
  the next one and the stream the rest. One turn of the loop takes the first request off a tape
  that holds it whole (`TakeOneKeeps`), and as many turns as there are bytes take all that are
  whole (`LoopTakesAll`). This rests on what Inject and Extract do to a byte, a short and a word.
* **WireProofs**, SomeIpMessages: RoundTrip, for all services, event groups and options, up to
  15 options and 4095 entries in a message, and wherever a datagram is cut. What is written is a
  sequence of parts, each at an offset that the ones before it give (`Offsets`, `Flat`):
  options (`OptionWritten`), entries of 16 bytes each (`EntryWritten`), and the message
  (`SdWritten`). Each part is read back where it stands, or found to be cut (`OptionRead`,
  `EntryRead`); the reader then follows the parts, holding after k entries exactly the first k and
  standing behind their options (`NextEntryRead`, `EntriesRead`), so it returns the message
  or refuses it (`CutRead`). That no option is refused on the way needs that the sender's entry
  would take it again in that order (`OptionsAllowed`, `NextAllowed`), and that an entry is made
  again by the factory that made it (`MadeByFactory`). The inductive invariant `WireInv` says
  this of the entry under construction and of those of the message, and that what is on the
  wire is the payload of such a message.
* **WireProofs**, CheckpointChannel: CheckpointsArrive, for every width of the counter up to four
  bits, any number of checkpoints and of losses. The exclusive or of bytes is invertible and
  linear, one shift of the CRC register can be undone, so the table of 256 entries has no entry
  twice and the CRC of two messages that differ in one byte differs. The invariant
  (`ChannelInv`) says that what is queued and in the FIFO is intact or broken by one byte, in
  the order in which it was sent, and that the receiver's counter is that of the last
  checkpoint it got; a direct successor then has the next counter or, after the wrap, zero.
* **VehicleStatusProofs**, PubSub: AcceptedIsServed and DequeueFindsMessage, for every finite set of
  clients. The counter may exceed the number of counted clients, never fall below it
  (`CounterCovers`); this needs that a request that saw an unsubscribed server is handled
  before anyone else is let in (`SeenBefore`), since the poller handles one at a time.
* **VehicleStatusProofs**, VehicleStatus: StorageIsAtomic, the refinement of AtomicStorage, and
  StoppedIsDown, for every set of watchdogs. The refinement's invariant says that a file
  is always a whole map, that whoever saves has a storage and a walk under way, and that whoever
  renames has a whole temporary file, with the second writer changing the map at any of
  these steps; each action is then classified by what it does to one storage,
  and each such step is a step of the abstract storage. StoppedIsDown needs that Main
  leaves its loop only after the poller's last callback (`StopInv`).
* **ExecutionProofs**: TypeOK, KnownChildrenEnd and SuccessMeansStarted, for every set of
  processes and states. A running process is in the table until TerminateAll has waited, or is
  one that was forked and not recorded yet (`ChildrenInv`); this needs that the poller spawns
  only within a request and is gone when the destructor runs (`PollerInv`). Up to the second call
  of SetState all that is under way belongs to the first (`UnderWay`), which is why an answer that
  is not matched by its id is right for that call; it is not for later ones.
* **UdsDoipProofs**, UdsServer: FailuresAreLimited and BlocksInOrder. The property counts every
  wrong key that is refused, whatever its request came with. The invariant (`CounterCounts`) says
  that the code's counter, which a request without a threshold does not move and which is reset only
  after the spin, is that number as long as each of them had a limit which the counter can
  exceed. For the transfer, the accepted block counters follow the last block, and a closed
  transfer leaves both at one. The two parts share no variable and have an invariant each.
* **UdsDoipProofs**, DoipBridge: the types (`DoipTypes`), AnswerIsRecent and AnsweredOnce, for every
  number of bridges, of requests and of failed Receives, every lifetime of the cache, every transit
  and all values of the resources that their bytes can hold. What is under way from the web
  service was true when it was read, what is cached at most the transit before it was cached
  (`RecentlyTrue`, `Since`). Each action takes at most one packet from one place and puts at most one
  into another, but for a packet that is handled again, which `stale` counts; so answers
  given and packets outstanding never exceed the requests and those (`Outstanding`, with
  cardinalities of places of sequences).
* **DiagnosticMonitorProofs**: Debounced and ReportStands, for all thresholds, steps, jumps and
  times. Towards each verdict the counter has gone no further from where the last one left it, or
  a jump took it, than the steps that were counted (`NoFurther`), so that reaching the
  threshold takes the way that Debounced demands; a jump at or beyond it spares the way and no
  more. A report acts only when no thread is left, which Freeze and Join establish; a thread
  that `start` launches with an old duration belongs to a report that decided nothing
  (`Decided`).

The named assumptions say that the constants are what their names say: sets of clients are
finite, threads are different (`ThreadsAssumption`), values that stand for nothing are none of the real ones
(`NoneAssumption`, `NullAssumption`, `ProcessAssumption`, `EndpointsAssumption`, `ValuesAssumption`), packages have archives that are not empty
(`PackageAssumption`), counters have at least one value (`SessionAssumption`, `WidthAssumption`),
that of E2E fits its four bits, and the thresholds of a debouncer lie on both sides of zero
(`CounterAssumption`, of CheckpointChannel and of DiagnosticMonitor), requests and checkpoints fit the widths of
their fields (`RequestsAssumption`, `SentAssumption`), entries and options are made of what
their factories take (`ServicesAssumption`, `EventgroupsAssumption`, `OptionsAssumption`), a
changed byte is a changed byte (`FlipsAssumption`), the
resources of the vehicle fit the bytes of their answers (`SpeedAssumption` and its neighbours in
DoipBridge, from the conversions of the handlers). Bounds such as MaxCampaigns are assumed to
be numbers, and no proof uses how large they are, except those of a message
(`BoundsAssumption`): a message has at most 15 options in all, since an entry counts those of each
list in four bits and the code does not check that they fit, and a UDP datagram has no room for
4096 entries of 16 bytes. A time to live has 24 bits. TLC evaluates each assumption in a run.

Only model-checked: what needs fairness (FailedCampaignIsCleared, ReadyEnds,
JoinEndsOutsideWindow, StopReturns, FindIsAnswered, ExpiryIsRecovered,
DeadlineSettles, VehicleTerminates, Terminates, CallsReturn, ReportReturns), which the prover does
not reach.

The provers have no induction over data, since they cannot instantiate a theorem that takes an
operator. What WireProofs needs of it, about numbers and about the recursive functions of the
model, it gets from a minimal counterexample: `WFMin` of WellFoundedInduction gives the least
element of a set of numbers, and the set is that of the numbers for which a fact fails.

## Where the code departs from its comments

* `single_writer`: the watchdog's comment (`watchdog_application.cpp:38`) and the storage's
  (`key_value_storage.h:27`) rely on one writer. The callback of the poller and Main run in
  different threads: SetValue changes the map while SyncToStorage walks it. What StorageIsAtomic
  says of a save holds for all that, and a save during which nobody writes is complete.
* `dtc_status`: the notifier is documented for "any DTC status change"
  (`dtc_information.h:75`). Clearing a code and storing it again change its status without a
  call (`dtc_information.cpp:117`, `:43`), so that what was told last is not what is stored.

## What the models show beside the properties

Behaviours of the code that came up while modelling, that the models contain and that a property
of a run at most makes an exception of:

* *Update*: Activate registers the lowest pending transfer, which can be that of a failed
  campaign (`package_manager.cpp:358`); a package without metadata can be activated with
  that of an earlier one (`:169`); half a frame of an ended connection stays in the
  reassembly buffer (`socket_rpc_server.cpp:87`).
* *Service discovery*: the signal of Start can be taken for an offer (`ttl_timer.cpp:52`);
  an expired TTL leaves the offered state (`:75`); the destructor's only notify can be
  lost (`:27`), the exception that JoinEndsOutsideWindow names; an offer is signalled
  before its endpoint is stored; threads lock one `unique_lock` object, so that
  TryGetOfferedEndpoint can throw, or unlocking can, with the mutex taken for good
  (`someip_sd_client.cpp:141,143,270`); the loop over options has no bound, and an offer with
  other options than a TCP endpoint throws with the mutex taken (`:102`); the queue may refuse a
  StopOffer (`sd_network_layer.cpp:114`); stop flags of other phases survive a restart of the
  server (`someip_sd_server.cpp:176`), and a Stop between two phases ends the agent without a
  StopOffer (`timer_set_state.h:110`), in a state from which it cannot be started again
  (`Stranded`); a stopped client cannot be started again (`someip_sd_agent.h:53`); each transition
  deepens the agent's stack (`finite_state_machine.h:69`).
* *Health*: an update computed earlier overwrites an expiry (`global_supervision.cpp:48`);
  a status that changes while the global supervision is constructed reaches nobody (`:13`);
  `joinable()` is taken for running (`deadline_supervision.cpp:61`); expected indications
  plus margin are cut to 16 bits (`alive_supervision.cpp:22`); the global supervision is
  deleted before the workers are joined (`platform_health_management.cpp:354`).
* *Publish/subscribe, vehicle*: acknowledgements go to everyone and are not matched; a
  stray unsubscription takes the server to NotSubscribed while others listen, against
  the comment at `machine_state.h:37`; a subscription is never retried; the StopOffer
  queued after SIGTERM is never sent; WatchdogApplication::Main does not look at its
  token, so that Terminate, which waits for it (`modelled_process.h:78`), does not return; the
  log counter restarts at zero and overwrites earlier entries.
* *Execution*: a child forked during TerminateAll outlives it; answers to SetState are not
  matched by session id, and a request that the queue refuses is lost silently; when
  constructors and destructors of deterministic clients overlap, a constructor or a wait need not
  return and a destructor may throw (`deterministic_client.cpp:23,95`); a seed set between Value()
  and Reset() is lost.
* *Diagnostics*: handlePassedAttempt means to lock the other levels and locks copies of them
  (`security_access.cpp:219`); wrong keys of a request without a threshold are not counted, and a
  threshold of 255, which an 8-bit counter cannot exceed, limits nothing (`:238`); a value of the
  meta-info is converted where nobody catches (`std::stoi`; the model takes it for a
  number); a second delay assigns to a thread that was never joined and ends the process
  (`delay_timer.cpp:24`); DelayTimer::Start (`:26`) and the timer-based debouncer
  (`timer_based_debouncer.cpp:68`) spin for ever when the thread they started waits only between
  two looks; rapid shutdown is enabled although the answer is negative; a second reset is
  always refused; mIsPassing is not initialised, and what is left of a time can wrap
  (`timer_based_debouncer.cpp:55`).
* *DoIP*: the callback throws in a timer thread (`diagnostic_manager.cpp:125`) and may meet
  a deleted client (`:374`); a re-discovery forgets the first converter; after a failed Receive
  the previous packet may be handled again, by the server (`doip_server.cpp:90`) and by the
  client (`doip_client.cpp:125`), so that a tester can get two answers; a resource that is not
  a number gets no answer, and one that is too large ends the process.
* *Encoding, core types*: more than 15 options overflow their 4-bit count, a TTL of more
  than 24 bits is cut, short payloads are not checked; the move assignment of
  `Result<void>` names a member that does not exist (`result.h:608`); `Value() &&` leaks
  (`optional.h:216`).

## Not modelled

The socket layer below the callbacks, logging, versions of packages, the reading of
ARXML, the vendored pugixml, and the construction and destruction of objects that no
other thread sees. The conversations of `ara/diag` are records whose setters write one member and
call its callback; what is delicate about them is memory, which is undefined behaviour and not a
state: GetConversation returns a reference into a vector that grows (`conversation.cpp:21`) and
GetCurrentActiveConversations references to loop copies (`:40`). Components of `PROJECT.json` with
status `not_modelled` or `partly` give their reasons. Two hazards have no property and carry a
note: the two steps in which alive indications are compared and reset, and a `fork` that fails.

## Plan

Done, in the order of importance: 1. PackageManager; 2. UpdateCampaign; 3. SdClient and
SdServer; 4. HealthManagement; 5. PubSub, VehicleStatus and the storages with the refinement
of AtomicStorage; 6. Execution; 7. the diagnostics modules; 8. SomeIpMessages,
CheckpointChannel and CoreTypes; 9. DoipBridge.

Left: the composition of SdClient and SdServer over the lossy network layer with an
abstract specification of discovery (a client that searches while a server is up becomes
ready), for one server and two clients; the safety half of the properties that need
fairness, as theorems: what holds of every state from which they must make progress.
