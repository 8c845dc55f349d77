# Verification of the swarm

TLA+ models of *the swarm*: a set of nodes on one LAN that store erasure-coded
data together and run programs on it, each node on its own shards. The nodes
agree through a hashgraph on which data is stored, who stores it, and which
programs are executed. Everything here is read from the Rust source under
`src/src/`; `PROJECT.json` maps each definition to the lines it models.

## 1. Inventory

A node is one process: a libp2p swarm with a hand-written behaviour, and four
modules, each a tokio task with an input and an output queue of 100 entries
(`module.rs`).

| Component | State | Operations | Talks to |
|---|---|---|---|
| Data memory (`data_memory/mod.rs`) | `distribution`, `local_storage`, `to_distribute`, `currently_assembled`, `data_known_locations` | initialize, prepare and serve shards, store the assigned shard, track locations, recollect, read and write for the processor | behaviour (queues), processor (memory bus) |
| Instruction memory (`instruction_storage/mod.rs`) | `currently_executed`: Executing with `peers_finished`, or Finished | track a program, count who executed it | behaviour |
| Processor (`processor/`) | Ready or Executing, the context of a program | prefetch operands, calculate, write the context back | behaviour, memory bus |
| Graph wrapper (`consensus/graph.rs`) | scheduled transactions, the graph, buffers of recognized and of finalized transactions | schedule, create an event, generate and apply a sync, deliver transactions one by one | behaviour, other nodes (gossip) |
| Behaviour (`behaviour/`) | connected peers, pending requests, gossip timer | route every event of every module; `handle_tx` for recognized transactions | all |
| Request-response (`request_response.rs`, `main.rs`) | requests in flight | send, answer, report failures | behaviour, other nodes |
| User interface, files, codecs, signatures, logs, metrics | - | I/O | behaviour |

How data is stored: a user's Put is encoded into N shards, K of which suffice;
the author announces a `StorageRequest`; every peer that recognizes it requests
its assigned shard from the author, stores it and announces `Stored`; when all N
locations are known the user is told `PutConfirmed` and the author stops serving.
A Get asks known locations until K shards have arrived. How a program runs: an
`Execute` transaction reaches every instruction memory, the program goes to the
processor, whose completion is announced with `Executed`; after K announcements
the user is told `ProgramExecuted`, and each `Executed` updates the locations of
the results.

What is hard here:

* **Ordering.** The behaviour acts on *recognized* transactions, whose order
  respects ancestry and nothing else; finalized ones are only logged. Concurrent
  commands are seen in different orders by different peers.
* **No retry.** Lost requests and responses are logged. A recollection, a serve
  request or a confirmation that is lost is never repeated; only gossip is
  repetitive. Nothing is persisted: a node that stops is gone.
* **Queues and wake-ups.** Full queues stop the node; the instruction memory is
  not polled while the processor is busy; several hand-overs rely on a later
  poll.
* **Stale state.** Locations are never forgotten; the processor writes back
  operands it only read; the transaction buffer keeps an old hash.

The properties that make each component correct, and every hazard with its line,
are in `PROJECT.json` ("hazards"), with the property that covers it or the reason
why none does yet.

## 2. Modules and how they correspond to the code

| Module | What it is |
|---|---|
| `SharedMemory` | abstract: a write-once memory kept in N parts |
| `DataMemory` | data memories of all peers, their exchange of shards, the transactions they announce, the memory bus; implements `SharedMemory` |
| `ProgramReports` | abstract: users are told of a program once, after enough peers executed it |
| `ProgramExecution` | a program from the user through graph wrapper, gossip, instruction memory and processor back to the user; implements `ProgramReports` |
| `RequestRouting` | one node: main loop, libp2p requests, behaviour and data memory, with bounded queues |
| `NodePolling` | one node: the poll loop of the behaviour, wake-ups, gossip timer, busy modules |
| `ErasureCode` | the code by which data is kept in shards: GF(2^8), `encode`, `decode` |
| `ShardProcessor` | what processors compute on shards, against the mock processor on the data |
| `MC*` + `*.cfg` | instances for TLC |
| `DataMemoryProofs`, `DistributionProofs` | theorems about `DataMemory` |
| `ProgramExecutionProofs`, `ExecutionOrderProofs` | theorems about `ProgramExecution` |
| `RequestRoutingProofs`, `NodePollingProofs` | theorems about the two modules of one node |
| `ShardProcessorProofs` | theorems about `ErasureCode` and `ShardProcessor` |
| `QueueLemmas` | what appending to and taking from a queue does to what is in it: how many entries of a kind (`Count`), which (`Content`), under which identifiers (`Carried`, `Distinct`), and what is ahead of an entry (`Ahead`) |

**DataMemory.** The variables `mode` to `data_known_locations` are the fields of
`UninitializedDataMemory` and `InitializedDataMemory`, one copy per peer; `mode`
says which of the two a peer is, or that its task has ended. There is one action
per input event, with the behaviour's part included: `Put` is
`PrepareServiceRequest` and the `ScheduleTx` that its answer causes;
`RecognizeStored` is `handle_stored_ts`, `StoreConfirmed` and the `PutConfirmed`
shown to the user. Helpers keep the names of the methods. A shard is identified
with the value it encodes, because the code is MDS: K shards of one value give
it back, and K shards of different values give something else (`Mixed`).
Consensus is a log per author with, for every transaction, how much of every
other log its author had recognized: a peer recognizes a transaction only after
those. That is exactly what `next_recognized` guarantees, and weaker than what
gossip usually gives. A program is one instruction on one operand; the processor
reads the operand's local shard and sends the *whole* context, operand included,
to the memory bus, and an `Executed` is scheduled however the execution ended.
`put_value`, `put_author`, `executed` and `spent` are history and budgets. The
mapping to `SharedMemory`: the content of a cell is what was put, a part is
stored when some peer stores the shard.

**ProgramExecution.** `included_transaction_buffer` and
`recognized_transaction_buffer` are fields of the graph wrapper; `events`, `known`
and `recognized` stand for the hashgraph library, as far as the wrapper uses it
(external). An event without transactions only carries knowledge, so it is not
recorded. `Gossip` is the timer's `CreateStandalone` followed by
`GenerateSyncRequest`, `ApplySync` adds the events of a message and creates an
event with the scheduled transactions. `RecognizeBuffered` and
`RecognizeNextEvent` are the two branches of `next_tx`, including the hash that
is never set. `currently_executed`, `peers_finished` and `finished` are the
instruction memory; its `output` is a queue because the behaviour leaves it alone
while the processor is busy (`PollInstructionMemory`). A node without connected
peers never creates an event, as in the code: gossip needs a peer. The mapping to
`ProgramReports`: `executions` are the pairs of peer and program in `executed`.

**RequestRouting.** The main task is a program counter `at`: in `select!`, in one
of the sections of a poll, or blocked in a send. libp2p's request-response is
external: events it has not yielded, requests in flight, the last identifier. A
section drains its channel one item per step, so that the data memory, a task of
its own, goes on meanwhile. `PollOrder` is the order of sections within
`Behaviour::poll` and of the behaviours within `CombinedBehaviour`. Sends of the
behaviour are polled once and stop the node when they would wait; sends of the
main loop wait. The data memory is a version number per shard and whether it is
initialized.

**NodePolling.** A poll is again one step per item. `wakers` are the channels the
task is registered with, because the last look at them found nothing; a send to
one of them makes the task `woken`. A section that is passed over (instruction
memory while the processor is busy, timer while the graph wrapper is) leaves its
registration as it was, and replacing the timer loses it. The sigmoid of
`next_duration` is a step from `Min` to `Max` at `Ramp`, which is positive: right
after a reset the code's sigmoid is at its lower end. A `try_lock` in
`accepts_input` that fails reads as busy, which is the state on one side of the
`set_state` that holds the lock.

**ErasureCode.** A byte is the set of its bits. GF(2^8) is computed as the library
does: sums bitwise, products by logarithms and the table `EXP_TABLE` of the powers
of x, which is a constant; `TableAssumption` says what makes it that table (it
starts with one, each entry is x times the one before, modulo the library's
polynomial, and the 255 entries are all bytes but zero), and TLC evaluates it on
the table that `MCShardProcessor` computes. `encode` and `decode` use the matrix of
the library for two data shards. The field is external: it is the library's.

**ShardProcessor.** Extends `ErasureCode`. Peers prefetch, execute and write back
independently; one of them may lack a shard. The reference, `execute_on`, is the
mock processor.

`DataMemory` and `ProgramExecution` meet at `PeerShardsActualized` (`actualized`
in the one, `RecognizeExecuted` in the other) and at the execution of a program
(`FinishExecution`, `RunProgram`). Each leaves the other's part open, so neither
restricts what the other may do. `RequestRouting` and `NodePolling` are what
happens inside one node below these two: they check what the two assume, that a
request gets an answer or fails (while the node is not overloaded), that gossip
recurs, and that the output of the instruction memory is looked at again.

## 3. Runs

All runs use `CHECK_DEADLOCK FALSE`: a swarm whose users are content has nothing
left to do.

| Run | Instance | Checks |
|---|---|---|
| `dm_put` | 3 peers, (1,2) code, 2 inits with valid and invalid distributions, 1 put, 2 gets | `TypeOK`, `ConfirmedMeansFullyStored`, `NoShardLost`, `ListedIsRecollectable`, `ConfirmedOnce`, `DistributionAgreement` and `NothingStoredBeforeInit` for a single commanding user, `ImplementsSharedMemory` |
| `dm_live` | 3 peers, (2,3) code, 1 put, 1 get after PutConfirmed, N - K = 1 lost message or crashed peer | `PutEventuallyConfirmed`, `GetEventuallyAnswered`, `ListedIsRecollectable` |
| `dm_program` | 2 peers, (2,2) code, 1 put of either of two values, 1 program that gives another address the other value, 2 gets | `KnownLocationIsAssigned`, `RecollectedIsPut`, `RecollectedIsComputed` |
| `pe_two` | 2 peers, 2 programs, 1 confirmation needed, one peer may crash | `TypeOK`, `SameExecutionOrder`, `ReportedOnce`, `ExecutedIsKnown` |
| `pe_live` | 2 peers, 1 program, 2 confirmations needed, 2 lost gossip messages | `TrackedIsReported`, `ReportedIsExecuted`, `ImplementsReports` |
| `rr_route` | queues of 2, 2 incoming and 2 outgoing requests for one shard | `TypeOK`, `GivesUpOnlyOverloaded`, `ResponsesAreMatched`, `WaitersAreServed`, `AnswersAreFresh`, `IncomingIsAnswered`, `OutgoingIsResolved` |
| `np_node` | timeouts 2 and 3, 1 program, 1 received sync, any number of initializations | `TypeOK`, `ResetNeverPostpones`, `NothingIsMissed`, `GossipGoesOn`, `ScheduledIsAnnounced` |
| `sp_linear` | 3 peers, 3 programs of up to 3 linear instructions, edge bytes | `TypeOK`, `ContextsDecodeToExpected`, `RecollectedIsExpected` |

The following runs end in a violation; each stands for a sentence of the code
that the code does not keep (see "findings" in `PROJECT.json`):

| Run | What happens |
|---|---|
| `dm_reput` | the second put to an address is confirmed, and no longer served, after its first `Stored`, because the locations of the first put are counted |
| `dm_unassigned` | an `Executed` of a peer without an assigned shard ends the data memory of the initialized peers |
| `pe_hash` | a program that is not the first transaction of its event is identified with the all-zero hash |
| `sp_logic` | a result of Nand recollected with a parity shard is not the result of Nand |

Three limits of the code are visible in the models without a run of their own. With
two commanding users `DistributionAgreement` fails: peers recognize the two
initializations in different orders (`graph.rs:64` relies on a single peer that
makes all commands, and nothing enforces it). And a peer whose program failed
for want of an operand announces `Executed` all the same and is recorded as a
location of the result. Last, responses do not say which recollection they belong
to: after a second put a late one of the first value may get into the next
recollection of the address.

`ListedIsRecollectable` is about running peers. Locations are never forgotten, so
an address stays listed when the peers that store it have stopped; what the
property says is that K running peers among those listed are enough, since each
has the shard that it is asked for. In `dm_live` one of three may have stopped.

`RecollectedIsPut` is checked where it can fail: in `dm_program` a peer may
recollect two addresses at the same time, which always hold different values, and
each recollection waits for a shard of the other peer. (With one address and one
put, every shard anywhere is of one value.)

`GivesUpOnlyOverloaded` is an action property: at the step after which the main
task waits for room that only it can make, or stops for a full queue, more requests
are under way than a queue holds. Under way is a request of another peer that has
no answer yet *or that the data memory is not done with*. The second half is
needed: equal requests share an entry of `processed_requests`, the first answer
goes to all of them, and the duplicates stay in the queues of the data memory for
a while (`behaviour/mod.rs:432`), taking room although everybody has been answered.
A request that an uninitialized data memory ignored stays under way as well: it
waits in its entry for a later answer, which is then sent to all who wait in one
go. What has ended takes no room, so the number of requests a node has handled does
not matter. Beyond that limit the node does give up, in the model as in the code; the
progress properties of `rr_route` say "or the node gives up".

**Bounds.** Three peers are the smallest swarm in which the author, a recipient
and a third peer see confirmations in different orders; with the default code (2
of 3), as in `dm_live`, also one in which a shard is missing and the data can be
recollected. `dm_put` uses a (1,2) code, so that one of the three peers may be
without a shard and the initialization, an invalid one first, can be part of the
run. Two gets reach a recollection that starts while responses of an earlier one
are in flight. Two programs are what it takes to share an event or not, and one
confirmation of two peers makes the other one late. Values are `{b}` wherever one
put is made to one address and nothing else has a value; `dm_reput` and `dm_program` use
two, and `dm_program` checks states up to an exchange of the two, which is sound:
either may be put, and the program maps each to the other. `pe_live` has two peers and losses: with
three peers the instance is beyond TLC. In `rr_route` two equal requests of
others share an entry, an answer for the first may be on its way when the second
arrives, and the shard may be stored at any point. `MaxIncoming` and `MaxOutgoing`
bound the requests of the whole run, four, twice what a queue holds: the queues do
overflow, and a request may find what earlier ones left. That no longer run differs
is what the theorem `GivesUpOverloaded` adds. In `np_node` received syncs are bounded in total: gossip that
arrives at every single check of the timer, so that the graph wrapper is always
busy, would keep the timer from being looked at, and nothing in the code prevents
that. `sp_linear` has programs that read their results, overwrite their operands
and lack one; bytes at the edges of the field suffice, since the code treats
bytes apart. Every bound is a named constant (`MaxInits`, `MaxPuts`, `MaxGets`,
`MaxFailures`, `MaxLost`, `MaxSchedules`, `Unreliable`, `Commanders`, `PutVids`,
`MaxIncoming`, `MaxOutgoing`, `MaxVersions`, `MaxPrograms`, `MaxSyncs`,
`DataValues`); `WaitForConfirm` says whether users wait for a confirmation before
they put or get again.

**Fairness.** `DataMemory`, `ProgramExecution`: weak fairness of recognizing
transactions, of handling requests and responses that are not lost, of applying a
sync, and of every queue of every module: the tasks are `select!` loops that
drain their queues. Weak fairness of `Gossip(p, q)`: the timer fires again, as
`np_node` shows, and picks a random connected peer. Weak fairness of
`PollInstructionMemory` is what `ScheduledIsAnnounced` shows.
`RequestRouting`: the runtime runs both tasks, and libp2p times requests out.
`NodePolling`: the runtime runs every task that can go on; time passes (strong
fairness of `Tick`: between polls, which take no time, it is enabled again and
again); and mDNS, a behaviour polled by the same task, wakes it now and then.
The last is needed: the code never registers a timer it has just started or
reset, and a busy module that gets ready wakes nobody, so that in a silent
network only mDNS makes the behaviour look again. Users, losses and crashes are
not fair.

## 4. Proofs

All theorems hold for every set of peers, addresses, values and programs and for
every bound; the assumptions on constants are named in the modules
(`0 < K <= N`, absent entries differ from present ones, `Threshold` positive,
`Peers` finite in `ProgramExecution`, `0 < Min <= Max` and `0 < Ramp` in
`NodePolling`, `TableAssumption` and two data shards of `N \in 3 .. 255` in
`ErasureCode`). What a theorem assumes beyond these is in its statement.

**DataMemory** (`DataMemoryProofs`).

* `TypeCorrect`: `TypeOK` is inductive. It includes that no handler indexes a
  shard outside the code or stores under an absent id.
* `ConfirmedSafe`, `NothingLost`: under the assumptions `MaxPuts <= 1` and
  `Separate`, the conditions under which the code keeps what it says (`dm_reput`
  shows what happens with a second put). `Separate` says that no program computes
  an address that is put; programs are otherwise free: they may be many, read
  results of each other and race with puts. What is proved is about the `Plain`
  addresses, those that no program computes. The inductive invariant
  `WriteOnceInv` says that whoever holds a shard of one - locally, to distribute, in
  a response or in a recollection - holds one of the value put (`HeldIsPut`), also
  on the memory bus, where the processor's write-back of an operand it only read
  waits (`WritesArePut`), that peers store only their assigned shard (`OwnShards`),
  that a `Stored` in the log is true and an `Executed` is of a computed address
  (`Announced`), that a known location stores the shard (`KnownIsStored`) and that
  a confirmation saw all locations (`ConfirmedIsKnown`). None of the properties is
  inductive by itself: the confirmation counts locations, a location comes from a
  transaction, and the transaction from a response. `WriteOnceInv` has been
  model-checked on the instance of `dm_program`.
* `RecollectionSafe`, `ListedSafe`: from the same invariant and under the same
  assumptions. Both properties are about plain addresses. Of the others they would
  be false: what is recollected or listed may be a result, which nobody put, and a
  location of a result is known although its peer failed to compute it.
  `ComputationSafe` is what holds of results. `ListedSafe` needs no assumption about
  crashes: it speaks of the peers that are running.
* `RefinesSharedMemory`: with `MaxPuts <= 1` and `Programs = {}` `DataMemory`
  implements `SharedMemory`. `StepRefines` has one step per action: `Put` is a
  `Write`, a response that is stored a `Store` (`ResponseStores`), the response that
  completes a recollection an `Answer` (`CollectAnswers`), the `Stored` that
  completes the locations a `Confirm` (`StoredConfirms`), and everything else,
  losses and crashes included, leaves the memory alone. An `Answer` needs K stored
  parts; they are there because a recollection under way knows K locations
  (`RecollectingInv`) and known locations store their shard.
* `ComputationSafe`: with `MaxPuts <= 1` and programs as in `OneStage`: a program
  computes addresses that nobody puts, that are operands of no program and that no
  other program computes. (Without that a shard computed before another operand
  was replaced may meet one computed after; `dm_reput` shows the smallest such
  case.) `ComputedInv` says that whoever holds a shard of an address - in a memory,
  a recollection, a response or a write on the memory bus - holds what is due
  there: the shard of the value put, or of what the program computes from it. The
  actions enter through three shapes of a step: what has a value (`ValueStep`), what
  is held (`HoldStep`) and what a recollection answers (`AnswerStep`).

**DataMemory with one commander** (`DistributionProofs`; `Commanders = {c}` for
any peer `c`, which is what `graph.rs:64` relies on; with two commanders
`DistributionAgreement` is false).

* `DistributionsAgree`, `InitializationFirst`: for any puts, programs, losses and
  crashes. The actions enter only through three shapes of a step (`LogStep`,
  `PositionStep`, `ModeStep`, lemma `StepShape`). `AgreementInv` says that a peer
  has recognized the ancestors of what it has recognized (`AncestorsFirst`), that
  initializations are in the commander's log alone (`SoleInitializer`), that an
  initialized peer has the first valid distribution of that log (`Adoption`), and
  that a storage transaction has a valid initialization among its ancestors
  (`StorageAfterInit`). Recognition is not delivery in one order: the proof uses
  ancestry and nothing else.
* `LocationsAssigned`: `PulledInv` (a shard that is requested in order to store
  it, served, or announced is the one assigned to the peer that asked) and
  `LocatedInv`; agreement makes the announcer's distribution the reader's.
* `ConfirmedAtMostOnce`: with `MaxPuts <= 1`, `Separate` and no two peers given the
  same shard (`Numbered`: the code enumerates the peers, `behaviour/mod.rs:769`).
  `OnceInv` follows one delivery of a shard through request, response and
  announcement: there is one storage request (`RequestedOnce`), a peer's delivery
  is in one place (`DeliveredOnce`), a known location was announced
  (`LocatedIsAnnounced`), so the last location becomes known once (`ToldOnce`).
* `MemoryGoesOn`: needs no single commander. If every distribution that can be
  adopted names every peer (`EveryoneAssigned`), no data memory stops of itself. It
  is the other half of the finding of `dm_unassigned`: a peer that was left out is
  the only way to the `return` at `data_memory/mod.rs:784`.

**ProgramExecution** (`ProgramExecutionProofs`, `ExecutionOrderProofs`).

* `TypeCorrect`.
* `ReportSafe`: by `ReportInv`: every announcement on its way - scheduled, in an
  event, in a buffer or counted - was preceded by an execution by its author;
  a Finished program has Threshold executors; a reported one is Finished. The
  cardinality argument uses that confirmations are a subset of the executors.
* `ReportOnce`: by `OnceInv`: `FinishedExecution` is in the output queue or in
  the reports at most once, because a program becomes Finished once.
* `Implements`: every step of `ProgramExecution` is a step of `ProgramReports` or
  leaves its state alone. The enabling conditions of `Tell` are the two
  properties above, in the state after the step.
* `ExecutedKnown`: by `KnownInv`: what a processor was handed is tracked at its
  peer; what is tracked was scheduled in an event the peer recognized; what is
  announced was scheduled in an ancestor of the announcement; what was scheduled
  in a recognized event is tracked. It needs no bound on authors or events and
  covers the programs with a zero hash too.
* `IdentifiersNameEventOrZero`: from `KnownInv`. `IdentifierNamesEvent` is false
  (`pe_hash`); what is true is that an identifier names an event that scheduled the
  program or has the hash that the buffer was created with, and never names an event
  that did not schedule it.
* `OneOrder`: `SameExecutionOrder` under `OneCommander` (one peer schedules the
  programs, which is what `graph.rs:64` relies on). `OrderInv` says that nobody else
  schedules programs (`SoleScheduler`), that a buffer holds the end of the event
  recognized last (`BufferIsRest`), and that what a peer executed, executes, has in
  the processor's input and in the output of the instruction memory are, one after
  the other, the programs at successive places of the commander's events, without a
  gap, up to where the peer is (`InOrder`). A place (`Slots`) is an event and a
  transaction in it, ranked by the number of places before it, so that lists
  need not be built to be compared; a new event adds places after all others and
  changes no rank. `OrderInv` has been model-checked on the instance of `pe_two`.
  The programs with a zero hash are covered.

**RequestRouting** (`RequestRoutingProofs`), for any capacity of the queues and any
number of requests.

* `TypeCorrect`: an identifier libp2p gives out stays within the budget because a
  request is in one place on its way there (`OutboundBudget`).
* `ResponsesMatched`: by `MatchedInv`: libp2p's events are looked at when
  `request_response.output` has been drained, and an identifier that may have a
  response is recorded or is in that queue, ahead of the response. It is the order
  of the poll's sections that matters.
* `AnswersFresh`: by `AskedInv` (what carries an identifier carries what was asked
  under it) and `FreshInv`: an answer that leaves the data memory is no older than
  the question of anybody who waits for it *or will start to wait before it is
  taken*. The second part is why the section of the data memory comes before that
  of request-response.
* `GivesUpOverloaded`: by `PlacedInv` (an incoming request is in one place, among
  events, queues, handlers that wait and answers) and `LoadInv`, which counts: what
  is in a queue is there on behalf of one request that is under way (`InboundLoad`,
  `OutboundLoad`), and `passed` and `used` count those the data memory is done with.
  So a queue that is full holds as many requests under way as it has places, and the
  item that does not fit is of one more. There is no assumption about the number of
  requests or the capacity.
* `WaitersServed`: by `ServedInv`: while somebody who asked an initialized data
  memory waits in an entry, a request for that entry is on its way to the data
  memory or a response on its way back (`Asked`, `Answerable`). It is the safety
  part of `IncomingIsAnswered`.

**NodePolling** (`NodePollingProofs`), for any durations and bounds.

* `ResetsDoNotPostpone`: by `TimerInv`.
* `ProgramsAreConserved`: `ConservedInv` counts the programs in every place of the
  node; they add up to those scheduled. `TypeCorrect` follows from it: the bounds of
  the queues in `TypeOK` are consequences of that count.
* `SleepsOverNothing`: by `WatchInv`: a section that this poll has passed left its
  queue empty with the task registered, unless the task has been woken since.

**ErasureCode and ShardProcessor** (`ShardProcessorProofs`), for any data, any
programs and any number of peers that the field allows.

* The laws of the field come from `TableAssumption` alone: logarithms add modulo
  255, so products commute and associate and have inverses; that they distribute
  over sums (`MulDistributes`) is shown for one power of x after the other, since
  multiplying by x does (`TimesXAdds`). The induction is over a set of exponents
  (`SetInduction`), from the library's theorem that a nonempty set of numbers has a
  least one.
* `DecodeOfEncode`: any two different shards give the data back. The two equations
  have the determinant s + t, which is not zero for different peers
  (`DeterminantNotZero`), and `decode` is Cramer's rule (`Solution`). This is the
  MDS property by which `DataMemory` identifies a shard with its value.
* `TypeCorrect`: for all programs, with Nand and Nor.
* `ContextsDecode`, `RecollectionExpected`: for programs of Plus, Sub and Inv
  (`Linear`; with Nand they are false, as `sp_logic` shows). `ExecuteOn` shows that
  the recursive function `execute_on` exists and does one instruction after the
  other. `CalculateOnShards`: an operation on the shards of its operands gives the
  shard of its result, because `encode` is additive (`EncodeAdds`). `ExecutionInv`
  then says of every peer that had its operands in time that what it would read
  at an instruction - from its context, or else from its memory - are its shards of
  the mock's storage at that instruction, and that its memory has the data until it
  writes back and the result afterwards. The two properties are about pairs of
  peers; the invariant is about each alone, and the pair meets only in
  `DecodeOfEncode`.

Only model-checked:

* the liveness properties `PutEventuallyConfirmed`, `GetEventuallyAnswered`,
  `TrackedIsReported`, `IncomingIsAnswered`, `OutgoingIsResolved`, `GossipGoesOn`,
  `ScheduledIsAnnounced`: fairness is out of the prover's reach.

## 5. Not modelled

`behaviour/old.rs` (not compiled), the user interface and file I/O, codecs and
version negotiation, signatures, logging, metrics, dialing of discovered peers.
Of the hashgraph library: fame, rounds and the total order, whose output the node
only logs. Syncs that fail, which takes a peer that breaks the protocol. Of
Reed-Solomon: codes with other than two data shards (`DATA_SHARDS_COUNT` is a
constant). Queues are bounded in `RequestRouting` only.

## 6. What could come next

1. The safety part of liveness: for each liveness property, the invariant by which
   what waits is always in a place that some fair action serves.
2. A version of `SharedMemory` in which programs write cells too, so that the
   refinement covers `dm_program` and chains of programs.
3. Codes with more than two data shards: `decode` by Gaussian elimination, and the
   MDS property of a Vandermonde matrix of any size.
