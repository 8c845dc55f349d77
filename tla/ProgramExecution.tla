-------------------------- MODULE ProgramExecution --------------------------
(***************************************************************************)
(* How a program travels through the swarm: a user schedules it, the graph *)
(* wrapper (consensus/graph.rs) puts it into an event, gossip spreads the  *)
(* event, every peer recognizes it, its instruction memory                 *)
(* (instruction_storage/mod.rs) tracks it and hands it to the processor    *)
(* (processor/single_threaded.rs), whose completion is announced in an     *)
(* Executed transaction; the user is told ProgramExecuted when enough      *)
(* peers announced.                                                        *)
(*                                                                         *)
(* Simplifications:                                                        *)
(*  - instructions are model values, the hash of a list is the list, the   *)
(*    hash of an event is its author and number;                           *)
(*  - an event without transactions is passed over by next_tx, so it is    *)
(*    not recorded; what it does, carry knowledge, is in `known`;          *)
(*  - a peer creates an event whenever it learns something, so the         *)
(*    ancestors of its next event are all the events it knows;             *)
(*  - consensus output, behaviour and instruction memory pass everything   *)
(*    on in order, so recognizing a transaction and tracking it is one     *)
(*    step; the output of the instruction memory is a queue, because it is *)
(*    left alone while the processor is busy.                              *)
(***************************************************************************)
EXTENDS Integers, Sequences, FiniteSets

CONSTANTS
  Peers,        \* the nodes
  Programs,     \* instruction lists
  Links,        \* connected_peers: the pairs that gossip
  Commanders,   \* the peers whose users schedule programs
  Threshold,    \* accept_threshold: data_shards_sufficient
  ZeroHash,     \* the hash a transaction buffer is created with
  NoPeer,       \* the random author a transaction buffer is created with
  Idle,         \* the processor runs nothing
  NoSync,       \* no gossip message in flight
  MaxSchedules, \* bound: how often one program is scheduled
  MaxLost,      \* bound: lost gossip messages
  Unreliable    \* the nodes that may stop

EventHashes == (Peers \X Nat) \cup {ZeroHash}

(* ProgramIdentifier: hash of the instructions, and of the event. *)
Identifiers == [hash : Programs, event_hash : EventHashes]

Transactions == [type : {"Execute"}, instructions : Programs]
           \cup [type : {"Executed"}, program_id : Identifiers]

OutEvents == [type : {"NextProgram", "FinishedExecution"}, id : Identifiers]
        \cup [type : {"PeerShardsActualized"}, peer : Peers, id : Identifiers]

ASSUME ThresholdAssumption == Threshold \in Nat \ {0}
ASSUME PeerAssumption == /\ IsFiniteSet(Peers) /\ Commanders \subseteq Peers
                         /\ Unreliable \subseteq Peers
                         /\ Links \subseteq Peers \X Peers
ASSUME SentinelAssumption == /\ ZeroHash \notin Peers \X Nat /\ NoPeer \notin Peers
                             /\ Idle \notin Identifiers
                             /\ NoSync \notin [Peers -> Nat]
ASSUME BoundAssumption == MaxSchedules \in Nat /\ MaxLost \in Nat

VARIABLES
  stopped,           \* the nodes that crashed
  \* --- graph wrapper
  included_transaction_buffer,   \* peer -> scheduled transactions
  events,            \* author -> sequence of [txs, parents]
  known,             \* peer -> author -> events of the author in its graph
  recognized,        \* peer -> author -> events taken from its graph
  recognized_transaction_buffer, \* peer -> [author, txs, hash]
  sync,              \* from -> to -> NoSync, or what a gossip message carries
  \* --- instruction memory
  currently_executed,\* peer -> identifiers it tracks
  peers_finished,    \* peer -> <<peer, id>> pairs of programs not Finished
  finished,          \* peer -> identifiers in state Finished
  output,            \* peer -> queue of its events for the behaviour
  \* --- processor
  input,             \* peer -> queue of programs to execute
  executing,         \* peer -> Idle, or what it executes
  \* --- what happened
  executed,          \* peer -> sequence of identifiers executed
  reported,          \* peer -> sequence of ProgramExecuted shown to the user
  actualized,        \* peer -> <<peer, id>> passed to the data memory
  ignored,           \* peer -> <<peer, id>> dropped: the program is unknown
  spent              \* [schedules, lost]

graph == <<included_transaction_buffer, events, known, recognized,
           recognized_transaction_buffer, sync>>
instructions == <<currently_executed, peers_finished, finished>>
processor == <<input, executing, executed>>
vars == <<stopped, graph, instructions, output, processor, reported,
          actualized, ignored, spent>>

TypeOK ==
  /\ stopped \subseteq Peers
  /\ included_transaction_buffer \in [Peers -> Seq(Transactions)]
  /\ events \in [Peers -> Seq([txs : Seq(Transactions), parents : [Peers -> Nat]])]
  /\ known \in [Peers -> [Peers -> Nat]]
  /\ recognized \in [Peers -> [Peers -> Nat]]
  /\ recognized_transaction_buffer \in
       [Peers -> [author : Peers \cup {NoPeer}, txs : Seq(Transactions), hash : EventHashes]]
  /\ sync \in [Peers -> [Peers -> [Peers -> Nat] \cup {NoSync}]]
  /\ currently_executed \in [Peers -> SUBSET Identifiers]
  /\ peers_finished \in [Peers -> SUBSET (Peers \X Identifiers)]
  /\ finished \in [Peers -> SUBSET Identifiers]
  /\ output \in [Peers -> Seq(OutEvents)]
  /\ input \in [Peers -> Seq(Identifiers)]
  /\ executing \in [Peers -> Identifiers \cup {Idle}]
  /\ executed \in [Peers -> Seq(Identifiers)]
  /\ reported \in [Peers -> Seq(Identifiers)]
  /\ actualized \in [Peers -> SUBSET (Peers \X Identifiers)]
  /\ ignored \in [Peers -> SUBSET (Peers \X Identifiers)]
  /\ spent \in [schedules : [Programs -> Nat], lost : Nat]

Init ==
  /\ stopped = {}
  /\ included_transaction_buffer = [p \in Peers |-> <<>>]
  /\ events = [a \in Peers |-> <<>>]
  /\ known = [p \in Peers |-> [a \in Peers |-> 0]]
  /\ recognized = [p \in Peers |-> [a \in Peers |-> 0]]
  /\ recognized_transaction_buffer =
       [p \in Peers |-> [author |-> NoPeer, txs |-> <<>>, hash |-> ZeroHash]]
  /\ sync = [p \in Peers |-> [q \in Peers |-> NoSync]]
  /\ currently_executed = [p \in Peers |-> {}]
  /\ peers_finished = [p \in Peers |-> {}]
  /\ finished = [p \in Peers |-> {}]
  /\ output = [p \in Peers |-> <<>>]
  /\ input = [p \in Peers |-> <<>>]
  /\ executing = [p \in Peers |-> Idle]
  /\ executed = [p \in Peers |-> <<>>]
  /\ reported = [p \in Peers |-> <<>>]
  /\ actualized = [p \in Peers |-> {}]
  /\ ignored = [p \in Peers |-> {}]
  /\ spent = [schedules |-> [g \in Programs |-> 0], lost |-> 0]

-----------------------------------------------------------------------------
(* The graph wrapper.                                                      *)

(* GraphWrapper::push_tx: *)
push_tx(p, tx) ==
  included_transaction_buffer' = [included_transaction_buffer EXCEPT ![p] = Append(@, tx)]

(* Graph::create_event with the scheduled transactions; the event's        *)
(* ancestors are `parents`.                                                *)
create_event(p, parents) ==
  LET txs == included_transaction_buffer[p]
  IN  IF txs = <<>>
      THEN /\ known' = [known EXCEPT ![p] = parents]
           /\ UNCHANGED <<included_transaction_buffer, events>>
      ELSE /\ included_transaction_buffer' = [included_transaction_buffer EXCEPT ![p] = <<>>]
           /\ events' = [events EXCEPT ![p] = Append(@, [txs |-> txs, parents |-> parents])]
           /\ known' = [known EXCEPT ![p] = [parents EXCEPT ![p] = @ + 1]]

(* The next event of author `a` can be recognized by `p`: it is in the     *)
(* graph and all its ancestors were recognized before.                     *)
next_recognized_event_unordered(p, a) == recognized[p][a] < known[p][a]
next_recognized_event(p, a) ==
  /\ recognized[p][a] < known[p][a]
  /\ \A b \in Peers : events[a][recognized[p][a] + 1].parents[b] <= recognized[p][b]

-----------------------------------------------------------------------------
(* The instruction memory.                                                 *)

(* Those who, as far as `p` knows, finished a program, once `who` has.     *)
confirmations(p, who, id) == {q \in Peers : <<q, id>> \in peers_finished[p]} \cup {who}

(* The program is tracked, unless it is already known, and offered to the  *)
(* processor in any case.                                                  *)
FinalizedProgram(p, id) ==
  /\ currently_executed' = [currently_executed EXCEPT ![p] = @ \cup {id}]
  /\ output' = [output EXCEPT ![p] = Append(@, [type |-> "NextProgram", id |-> id])]
  /\ UNCHANGED <<peers_finished, finished, ignored>>

(* notify_executed: the notification makes the program Finished; one that  *)
(* already is stays so.                                                    *)
notify_executed_early(p, who, id) ==
  id \notin finished[p] /\ Cardinality(confirmations(p, who, id)) + 1 >= Threshold
notify_executed_again(p, who, id) ==
  id \in finished[p] \/ Cardinality(confirmations(p, who, id)) >= Threshold
notify_executed_more(p, who, id) ==
  id \notin finished[p] /\ Cardinality(confirmations(p, who, id)) > Threshold
notify_executed(p, who, id) ==
  id \notin finished[p] /\ Cardinality(confirmations(p, who, id)) >= Threshold

(* `who` executed a program. One that is unknown is ignored; else `who` is *)
(* noted until the program is Finished, and the data memory learns that    *)
(* the shards of `who` are up to date in any case.                         *)
ExecutedProgram(p, who, id) ==
  LET actualized_event == [type |-> "PeerShardsActualized", peer |-> who, id |-> id]
      finished_event == [type |-> "FinishedExecution", id |-> id]
  IN  /\ UNCHANGED currently_executed
      /\ \/ /\ id \notin currently_executed[p]
            /\ ignored' = [ignored EXCEPT ![p] = @ \cup {<<who, id>>}]
            /\ UNCHANGED <<peers_finished, finished, output>>
         \/ /\ id \in currently_executed[p] /\ notify_executed(p, who, id)
            /\ finished' = [finished EXCEPT ![p] = @ \cup {id}]
            /\ peers_finished' = [peers_finished EXCEPT ![p] = {f \in @ : f[2] # id}]
            /\ output' = [output EXCEPT ![p] = @ \o <<finished_event, actualized_event>>]
            /\ UNCHANGED ignored
         \/ /\ id \in currently_executed[p] /\ ~ notify_executed(p, who, id)
            /\ peers_finished' = IF id \in finished[p] THEN peers_finished
                                 ELSE [peers_finished EXCEPT ![p] = @ \cup {<<who, id>>}]
            /\ output' = [output EXCEPT ![p] = Append(@, actualized_event)]
            /\ UNCHANGED <<finished, ignored>>

-----------------------------------------------------------------------------
(* The steps of a node.                                                    *)

(* ScheduleProgram of the user. *)
ScheduleProgram(p, g) ==
  /\ p \notin stopped /\ spent.schedules[g] < MaxSchedules
  /\ spent' = [spent EXCEPT !.schedules[g] = @ + 1]
  /\ push_tx(p, [type |-> "Execute", instructions |-> g])
  /\ UNCHANGED <<stopped, events, known, recognized, recognized_transaction_buffer,
                 sync, instructions, output, processor, reported, actualized, ignored>>

(* The gossip timer fires: CreateStandalone, then GenerateSyncRequest to a *)
(* random peer. A message without news for `q` is left out: all it does is *)
(* make `q` create an event, and the timer of `q` does that too. A peer is *)
(* connected as long as it runs.                                           *)
Gossip(p, q) ==
  /\ {p, q} \cap stopped = {} /\ <<p, q>> \in Links /\ sync[p][q] = NoSync
  /\ create_event(p, known[p])
  /\ \E a \in Peers : known'[p][a] > known[q][a]
  /\ sync' = [sync EXCEPT ![p][q] = known'[p]]
  /\ UNCHANGED <<stopped, recognized, recognized_transaction_buffer, instructions,
                 output, processor, reported, actualized, ignored, spent>>

(* ApplySync: the events of the message join the graph, and the scheduled  *)
(* transactions go into a new event.                                       *)
ApplySync(p, q) ==
  /\ p \notin stopped /\ sync[q][p] # NoSync
  /\ create_event(p, [a \in Peers |-> IF sync[q][p][a] > known[p][a]
                                      THEN sync[q][p][a] ELSE known[p][a]])
  /\ sync' = [sync EXCEPT ![q][p] = NoSync]
  /\ UNCHANGED <<stopped, recognized, recognized_transaction_buffer, instructions,
                 output, processor, reported, actualized, ignored, spent>>

(* A gossip message is lost with its connection. *)
LoseSync(p, q) ==
  /\ sync[p][q] # NoSync /\ spent.lost < MaxLost
  /\ spent' = [spent EXCEPT !.lost = @ + 1]
  /\ sync' = [sync EXCEPT ![p][q] = NoSync]
  /\ UNCHANGED <<stopped, included_transaction_buffer, events, known, recognized,
                 recognized_transaction_buffer, instructions, output, processor,
                 reported, actualized, ignored>>

(* RecognizedTransaction: Behaviour::handle_tx and the instruction memory. *)
handle_tx(p, from, tx, event_hash) ==
  \/ /\ tx.type = "Execute"
     /\ FinalizedProgram(p, [hash |-> tx.instructions, event_hash |-> event_hash])
  \/ /\ tx.type = "Executed"
     /\ ExecutedProgram(p, from, tx.program_id)

(* next_tx: the transactions left of the event taken last come first. They *)
(* are given the hash in the buffer, which nobody ever sets.               *)
RecognizeBuffered(p) ==
  LET buffer == recognized_transaction_buffer[p]
  IN  /\ p \notin stopped /\ buffer.txs # <<>>
      /\ handle_tx(p, buffer.author, Head(buffer.txs), buffer.hash)
      /\ recognized_transaction_buffer' =
           [recognized_transaction_buffer EXCEPT ![p].txs = Tail(@)]
      /\ UNCHANGED <<stopped, included_transaction_buffer, events, known, recognized,
                     sync, processor, reported, actualized, spent>>

(* next_tx: no transaction is left, so an event is taken from the graph;   *)
(* its first transaction is handled and the others are kept.               *)
RecognizeNextEvent(p, a) ==
  LET n == recognized[p][a] + 1
  IN  /\ p \notin stopped /\ recognized_transaction_buffer[p].txs = <<>>
      /\ next_recognized_event(p, a)
      /\ handle_tx(p, a, Head(events[a][n].txs), <<a, n>>)
      /\ recognized_transaction_buffer' =
           [recognized_transaction_buffer EXCEPT ![p].author = a,
                                                 ![p].txs = Tail(events[a][n].txs)]
      /\ recognized' = [recognized EXCEPT ![p][a] = n]
      /\ UNCHANGED <<stopped, included_transaction_buffer, events, known, sync,
                     processor, reported, actualized, spent>>

(* The behaviour looks at the instruction memory only while the processor  *)
(* accepts input: the next program goes to the processor, the rest to the  *)
(* user and to the data memory.                                            *)
PollInstructionMemory(p) ==
  /\ p \notin stopped /\ executing[p] = Idle /\ output[p] # <<>>
  /\ output' = [output EXCEPT ![p] = Tail(@)]
  /\ LET event == Head(output[p])
     IN  /\ input' = IF event.type = "NextProgram"
                     THEN [input EXCEPT ![p] = Append(@, event.id)] ELSE input
         /\ reported' = IF event.type = "FinishedExecution"
                        THEN [reported EXCEPT ![p] = Append(@, event.id)] ELSE reported
         /\ actualized' = IF event.type = "PeerShardsActualized"
                          THEN [actualized EXCEPT ![p] = @ \cup {<<event.peer, event.id>>}]
                          ELSE actualized
  /\ UNCHANGED <<stopped, graph, instructions, executing, executed, ignored, spent>>

(* ShardProcessor::run: one program is taken from the queue ...            *)
StartExecution_last(p) ==
  /\ p \notin stopped /\ executing[p] = Idle /\ input[p] # <<>>
  /\ executing' = [executing EXCEPT ![p] = input[p][Len(input[p])]]
  /\ input' = [input EXCEPT ![p] = SubSeq(@, 1, Len(@) - 1)]
  /\ UNCHANGED <<stopped, graph, instructions, output, executed, reported,
                 actualized, ignored, spent>>
StartExecution(p) ==
  /\ p \notin stopped /\ executing[p] = Idle /\ input[p] # <<>>
  /\ executing' = [executing EXCEPT ![p] = Head(input[p])]
  /\ input' = [input EXCEPT ![p] = Tail(@)]
  /\ UNCHANGED <<stopped, graph, instructions, output, executed, reported,
                 actualized, ignored, spent>>

(* ... and when it is done, whatever its results are, the behaviour        *)
(* schedules an Executed.                                                  *)
FinishExecution_idle(p) ==
  /\ p \notin stopped
  /\ executing' = [executing EXCEPT ![p] = Idle]
  /\ executed' = [executed EXCEPT ![p] = Append(@, executing[p])]
  /\ push_tx(p, [type |-> "Executed", program_id |-> executing[p]])
  /\ UNCHANGED <<stopped, events, known, recognized, recognized_transaction_buffer,
                 sync, instructions, output, input, reported, actualized, ignored, spent>>
FinishExecution(p) ==
  /\ p \notin stopped /\ executing[p] # Idle
  /\ executing' = [executing EXCEPT ![p] = Idle]
  /\ executed' = [executed EXCEPT ![p] = Append(@, executing[p])]
  /\ push_tx(p, [type |-> "Executed", program_id |-> executing[p]])
  /\ UNCHANGED <<stopped, events, known, recognized, recognized_transaction_buffer,
                 sync, instructions, output, input, reported, actualized, ignored, spent>>

(* A node stops and, keeping nothing on disk, never comes back. Messages   *)
(* to it are lost.                                                         *)
Crash(p) ==
  /\ p \in Unreliable \ stopped
  /\ stopped' = stopped \cup {p}
  /\ sync' = [q \in Peers |-> [sync[q] EXCEPT ![p] = NoSync]]
  /\ UNCHANGED <<included_transaction_buffer, events, known, recognized,
                 recognized_transaction_buffer, instructions, output, processor,
                 reported, actualized, ignored, spent>>

-----------------------------------------------------------------------------
Recognize(p) == RecognizeBuffered(p) \/ \E a \in Peers : RecognizeNextEvent(p, a)

Next ==
  \/ \E p \in Commanders, g \in Programs : ScheduleProgram(p, g)
  \/ \E p, q \in Peers : Gossip(p, q) \/ ApplySync(p, q) \/ LoseSync(p, q)
  \/ \E p \in Peers : Recognize(p)
  \/ \E p \in Peers : PollInstructionMemory(p)
  \/ \E p \in Peers : StartExecution(p) \/ FinishExecution(p)
  \/ \E p \in Peers : Crash(p)

(* The gossip timer fires again and again and picks every peer; a message  *)
(* that is not lost is applied; every module handles its queue, and the    *)
(* timer makes the behaviour look at the instruction memory again after    *)
(* the processor was busy.                                                 *)
Fairness ==
  /\ \A p, q \in Peers : WF_vars(Gossip(p, q)) /\ WF_vars(ApplySync(p, q))
  /\ \A p \in Peers : /\ WF_vars(Recognize(p)) /\ WF_vars(PollInstructionMemory(p))
                      /\ WF_vars(StartExecution(p)) /\ WF_vars(FinishExecution(p))

Spec == Init /\ [][Next]_vars
FairSpec == Spec /\ Fairness

-----------------------------------------------------------------------------
(* Properties.                                                             *)

(* The peers that executed a program. *)
ExecutedBy(id) == {q \in Peers : \E i \in 1 .. Len(executed[q]) : executed[q][i] = id}

(* "Enough peers completed the program; we can safely consider it          *)
(* completed" (FinishedExecution): when a user is told ProgramExecuted, at *)
(* least Threshold different peers have executed the program.              *)
ReportedIsExecuted == \A p \in Peers : \A i \in 1 .. Len(reported[p]) :
  Cardinality(ExecutedBy(reported[p][i])) >= Threshold

(* Late confirmations of a Finished program do not report it again.        *)
ReportedOnce == \A p \in Peers : \A i, j \in 1 .. Len(reported[p]) :
  reported[p][i] = reported[p][j] => i = j

(* Who executed what, and the mapping to the abstract specification. *)
executions == UNION {{<<q, executed[q][i]>> : i \in 1 .. Len(executed[q])} : q \in Peers}
Reports == INSTANCE ProgramReports WITH executions <- executions, told <- reported

(* The whole of it implements what ProgramReports promises: a user is told *)
(* of a program in a step of its own, once, after Threshold peers executed *)
(* it, and neither executions nor reports are ever taken back.             *)
ImplementsReports == Reports!Spec

(* "If this is a legitimate tx, the execution request would've been        *)
(* received earlier and the program would be tracked": no Executed is ever *)
(* ignored, because the Execute is in an ancestor of its event.            *)
ExecutedIsKnown == \A p \in Peers : ignored[p] = {}

(* "Due to ancestry between all its events, all "command" txs are going to *)
(* be ordered properly": when one peer schedules the programs, every two   *)
(* processors execute them in the same order.                              *)
SameExecutionOrder == \A p, q \in Peers :
  \A i \in 1 .. Len(executed[p]) : i \in 1 .. Len(executed[q]) =>
    executed[p][i] = executed[q][i]

(* The identifier of a program names the event that scheduled it: the      *)
(* buffer it is taken from holds "transactions from latest recognized      *)
(* (seen in partial order) event" with the hash of that event.             *)
IdentifierNamesEvent == \A p \in Peers : \A id \in currently_executed[p] :
  \E a \in Peers : \E n \in 1 .. Len(events[a]) :
    /\ id.event_hash = <<a, n>>
    /\ \E i \in 1 .. Len(events[a][n].txs) :
         events[a][n].txs[i] = [type |-> "Execute", instructions |-> id.hash]

(* A program that one running peer tracks is eventually reported to the    *)
(* user of that peer, although gossip messages get lost and the output of  *)
(* the instruction memory waits for the processor.                         *)
TrackedIsReported == \A p, a \in Peers, g \in Programs, n \in 1 .. MaxSchedules :
  LET id == [hash |-> g, event_hash |-> <<a, n>>]
  IN  id \in currently_executed[p]
        ~> (p \in stopped \/ \E i \in 1 .. Len(reported[p]) : reported[p][i] = id)

=============================================================================
