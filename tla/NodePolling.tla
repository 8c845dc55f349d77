---------------------------- MODULE NodePolling ----------------------------
(***************************************************************************)
(* How one node keeps going. The main task polls the behaviour             *)
(* (behaviour/mod.rs); a poll drains channel after channel and registers   *)
(* the task to be woken by the ones it found empty. The instruction memory *)
(* is not looked at while the processor is busy, nor the gossip timer      *)
(* (behaviour/gossip_timer.rs) while the graph wrapper is, and nobody is   *)
(* woken when they get ready: what was passed over waits for the next wake *)
(* up, whatever causes it.                                                 *)
(*                                                                         *)
(* A program goes round: user, graph, instruction memory, processor, and   *)
(* its Executed once more through graph and instruction memory.            *)
(*                                                                         *)
(* Simplifications:                                                        *)
(*  - programs are told apart by their number only; what is scheduled is   *)
(*    recognized as soon as it is in an event; the transactions of others  *)
(*    and InitializeStorage change nothing here, except that they reset    *)
(*    the timer, so one of several that wait in a buffer is enough;        *)
(*  - the first connection is established once and for all;                *)
(*  - the data memory and request_response are left out, their sections    *)
(*    are in RequestRouting; no channel gets full;                         *)
(*  - time is counted in units; a poll takes none, and the graph wrapper   *)
(*    has done what it was told before time goes on: a slower one would    *)
(*    fall behind the timer.                                               *)
(***************************************************************************)
EXTENDS Integers, Sequences, Functions

CONSTANTS
  Min, Max,     \* consensus_gossip_min_timeout and _max_timeout
  Ramp,         \* how long after a reset the timeout stays at Min
  MaxPrograms,  \* bound: programs the user schedules
  MaxSyncs      \* bound: received gossip messages

ASSUME DurationAssumption == /\ Min \in Nat \ {0} /\ Max \in Nat /\ Min <= Max
                             /\ Ramp \in Nat \ {0}
ASSUME BoundAssumption == MaxPrograms \in Nat /\ MaxSyncs \in Nat

VARIABLES
  \* --- main task and behaviour
  section,          \* "parked", or which section of the poll comes next
  woken,            \* the task is to be polled (again)
  wakers,           \* what the task is registered with
  oneshot_messages, \* received gossip that waits
  user_input,       \* commands of the user
  connected,        \* connected_peers is not empty
  \* --- gossip timer
  left,             \* time until its deadline
  passed,           \* time since last_reset, counted up to Ramp
  \* --- graph wrapper
  graph,            \* its state and what it does
  consensus_input, consensus_output,
  included,         \* included_transaction_buffer
  \* --- instruction memory
  instruction_input, instruction_output,
  \* --- processor
  processor,        \* its state and what it does
  processor_input, processor_output,
  \* --- what happened
  waited,           \* time since the first reset that no gossip followed,
                    \* counted up to Min + 1; -1 if there is none
  scheduled, announced, received

task == <<section, woken, wakers>>
network == <<oneshot_messages, connected, received>>
timer == <<left, passed, waited>>
consensus == <<graph, consensus_input, consensus_output, included>>
instructions == <<instruction_input, instruction_output>>
execution == <<processor, processor_input, processor_output>>
user == <<user_input, scheduled>>
vars == <<task, network, timer, consensus, instructions, execution, user, announced>>

Channels == {"user", "processor", "instructions", "consensus", "timer"}
(* "Other" stands for InitializeStorage and all transactions of others. *)
Txs == {"Execute", "Executed", "Other"}

(* The order of Behaviour::poll. *)
PollOrder == <<"network", "user", "processor", "instructions", "consensus", "timer", "parked">>

TypeOK ==
  /\ section \in {PollOrder[i] : i \in 1 .. 7}
  /\ woken \in BOOLEAN /\ wakers \subseteq Channels
  /\ oneshot_messages \in 0 .. MaxSyncs
  /\ connected \in BOOLEAN /\ received \in 0 .. MaxSyncs
  /\ left \in 0 .. Max /\ passed \in 0 .. Ramp /\ waited \in -1 .. Min + 1
  /\ graph \in [state : {"Ready", "Busy"}, does : {"wait", "apply", "generate", "respond"}]
  /\ consensus_input \in Seq(Txs \cup {"ApplySync", "CreateStandalone",
                                   "GenerateSyncRequest", "KnownPeersRequest"})
  /\ consensus_output \in Seq(Txs \cup {"GenerateSyncResponse", "KnownPeersResponse"})
  /\ included \in Seq(Txs)
  /\ instruction_input \in Seq({"Execute", "Executed"})
  /\ instruction_output \in Seq({"NextProgram", "PeerShardsActualized"})
  /\ processor \in [state : {"Ready", "Executing"}, does : {"wait", "execute", "finish"}]
  /\ processor_input \in 0 .. MaxPrograms /\ processor_output \in 0 .. MaxPrograms
  /\ user_input \in Seq({"ScheduleProgram", "InitializeStorage"})
  /\ scheduled \in 0 .. MaxPrograms /\ announced \in 0 .. scheduled

Init ==
  /\ section = "parked" /\ woken = TRUE /\ wakers = {}
  /\ oneshot_messages = 0 /\ connected = FALSE /\ received = 0
  /\ left = Min /\ passed = 0 /\ waited = -1
  /\ graph = [state |-> "Ready", does |-> "wait"]
  /\ consensus_input = <<>> /\ consensus_output = <<>> /\ included = <<>>
  /\ instruction_input = <<>> /\ instruction_output = <<>>
  /\ processor = [state |-> "Ready", does |-> "wait"]
  /\ processor_input = 0 /\ processor_output = 0
  /\ user_input = <<>> /\ scheduled = 0 /\ announced = 0

-----------------------------------------------------------------------------
(* DynamicTimer.                                                           *)

(* "duration should be within [self.min_duration, self.max_duration]       *)
(* bounds": the sigmoid, reduced to a step.                                *)
next_duration_linear(time) == Min + time
next_duration(time) == IF time < Ramp THEN Min ELSE Max

(* reset_full: a new timer, not registered with anybody, only if it ends   *)
(* sooner than the one that runs. `registered` is who else is registered.  *)
reset_full_always(registered) ==
  /\ passed' = 0
  /\ waited' = IF waited < 0 THEN 0 ELSE waited
  /\ left' = next_duration(0) /\ wakers' = registered \ {"timer"}
reset_full(registered) ==
  /\ passed' = 0
  /\ waited' = IF waited < 0 THEN 0 ELSE waited
  /\ IF next_duration(0) < left
     THEN left' = next_duration(0) /\ wakers' = registered \ {"timer"}
     ELSE left' = left /\ wakers' = registered

-----------------------------------------------------------------------------
(* The poll of the behaviour.                                              *)

Following == PollOrder[1 + CHOOSE i \in 1 .. 6 : PollOrder[i] = section]

(* A channel that has nothing is registered with, and the next section     *)
(* begins.                                                                 *)
Pending(channel) ==
  /\ wakers' = wakers \cup {channel}
  /\ section' = Following

StartPoll ==
  /\ section = "parked" /\ woken
  /\ section' = PollOrder[1] /\ woken' = FALSE
  /\ UNCHANGED <<wakers, network, timer, consensus, instructions, execution, user, announced>>

(* oneshot_messages: each is a GossipGraph, to be applied. *)
PollNetwork ==
  /\ section = "network"
  /\ IF oneshot_messages = 0
     THEN section' = Following /\ UNCHANGED <<oneshot_messages, consensus_input>>
     ELSE /\ oneshot_messages' = oneshot_messages - 1
          /\ consensus_input' = Append(consensus_input, "ApplySync")
          /\ UNCHANGED section
  /\ UNCHANGED <<woken, wakers, connected, received, timer, graph, consensus_output, included,
                 instructions, execution, user, announced>>

(* Commands of the user. Only ScheduleProgram resets the timer: to         *)
(* initialize the storage the graph wrapper is asked for the peers first.  *)
PollUser ==
  /\ section = "user"
  /\ \/ /\ user_input = <<>>
        /\ Pending("user")
        /\ UNCHANGED <<timer, consensus_input, user_input>>
     \/ /\ user_input # <<>> /\ Head(user_input) = "ScheduleProgram"
        /\ user_input' = Tail(user_input)
        /\ consensus_input' = Append(consensus_input, "Execute")
        /\ reset_full(wakers)
        /\ UNCHANGED section
     \/ /\ user_input # <<>> /\ Head(user_input) = "InitializeStorage"
        /\ user_input' = Tail(user_input)
        /\ consensus_input' = Append(consensus_input, "KnownPeersRequest")
        /\ UNCHANGED <<section, wakers, timer>>
  /\ UNCHANGED <<woken, network, graph, consensus_output, included, instructions,
                 execution, scheduled, announced>>

(* FinishedExecution of the processor is announced. *)
PollProcessor ==
  /\ section = "processor"
  /\ IF processor_output = 0
     THEN Pending("processor") /\ UNCHANGED <<timer, consensus_input, processor_output>>
     ELSE /\ processor_output' = processor_output - 1
          /\ consensus_input' = Append(consensus_input, "Executed")
          /\ reset_full(wakers)
          /\ UNCHANGED section
  /\ UNCHANGED <<woken, network, graph, consensus_output, included, instructions,
                 processor, processor_input, user, announced>>

(* The instruction memory, passed over while the processor is busy. *)
PollInstructions ==
  /\ section = "instructions"
  /\ \/ /\ processor.state = "Executing"
        /\ section' = Following
        /\ UNCHANGED <<wakers, instruction_output, processor_input, announced>>
     \/ /\ processor.state = "Ready" /\ instruction_output = <<>>
        /\ Pending("instructions")
        /\ UNCHANGED <<instruction_output, processor_input, announced>>
     \/ /\ processor.state = "Ready" /\ instruction_output # <<>>
        /\ instruction_output' = Tail(instruction_output)
        /\ IF Head(instruction_output) = "NextProgram"
           THEN processor_input' = processor_input + 1 /\ UNCHANGED announced
           ELSE announced' = announced + 1 /\ UNCHANGED processor_input
        /\ UNCHANGED <<section, wakers>>
  /\ UNCHANGED <<woken, network, timer, consensus, instruction_input, processor,
                 processor_output, user>>

(* Output of the graph wrapper. A sync to send makes the poll return; it   *)
(* is called again.                                                        *)
PollConsensus_one ==
  /\ section = "consensus"
  /\ section' = Following
  /\ IF consensus_output = <<>>
     THEN wakers' = wakers \cup {"consensus"} /\ UNCHANGED consensus_output
     ELSE consensus_output' = Tail(consensus_output) /\ UNCHANGED wakers
  /\ UNCHANGED <<woken, network, timer, graph, consensus_input, included, instructions,
                 execution, user, announced>>
PollConsensus ==
  /\ section = "consensus"
  /\ \/ /\ consensus_output = <<>>
        /\ Pending("consensus")
        /\ UNCHANGED <<timer, consensus_input, consensus_output, instruction_input>>
     \/ /\ consensus_output # <<>> /\ Head(consensus_output) \in Txs
        /\ consensus_output' = Tail(consensus_output)
        /\ reset_full(wakers)
        /\ instruction_input' = IF Head(consensus_output) = "Other" THEN instruction_input
                                ELSE Append(instruction_input, Head(consensus_output))
        /\ UNCHANGED <<section, consensus_input>>
     \/ /\ consensus_output # <<>> /\ Head(consensus_output) = "KnownPeersResponse"
        /\ consensus_output' = Tail(consensus_output)
        /\ consensus_input' = Append(consensus_input, "Other")
        /\ reset_full(wakers)
        /\ UNCHANGED <<section, instruction_input>>
     \/ /\ consensus_output # <<>> /\ Head(consensus_output) = "GenerateSyncResponse"
        /\ consensus_output' = Tail(consensus_output)
        /\ section' = PollOrder[1]
        /\ UNCHANGED <<wakers, timer, consensus_input, instruction_input>>
  /\ UNCHANGED <<woken, network, graph, included, instruction_output, execution, user, announced>>

(* The gossip timer, passed over while the graph wrapper is busy. The next *)
(* timer is started before anything else, and not registered with.         *)
PollTimer ==
  /\ section = "timer"
  /\ section' = Following
  /\ \/ /\ graph.state = "Busy"
        /\ UNCHANGED <<wakers, timer, consensus_input>>
     \/ /\ graph.state = "Ready" /\ left > 0
        /\ wakers' = wakers \cup {"timer"}
        /\ UNCHANGED <<timer, consensus_input>>
     \/ /\ graph.state = "Ready" /\ left = 0
        /\ left' = next_duration(passed) /\ wakers' = wakers \ {"timer"}
        /\ waited' = -1
        /\ consensus_input' = IF connected
                              THEN consensus_input \o <<"CreateStandalone", "GenerateSyncRequest">>
                              ELSE consensus_input
        /\ UNCHANGED passed
  /\ UNCHANGED <<woken, network, graph, consensus_output, included, instructions,
                 execution, user, announced>>

-----------------------------------------------------------------------------
(* The modules, tasks of their own. What they send wakes the main task if  *)
(* it is registered.                                                       *)

Wake(channel) ==
  /\ woken' = (woken \/ channel \in wakers)
  /\ wakers' = wakers \ {channel}

GraphUnchanged == UNCHANGED <<section, network, timer, instructions, execution, user, announced>>

(* The new event has the scheduled transactions, recognized at once. *)
OutputIncluded(others) ==
  /\ included' = <<>>
  /\ consensus_output' = consensus_output \o others \o included
  /\ IF others \o included = <<>> THEN UNCHANGED <<woken, wakers>> ELSE Wake("consensus")

GraphReceive ==
  /\ graph.does = "wait" /\ consensus_input # <<>>
  /\ consensus_input' = Tail(consensus_input)
  /\ \/ /\ Head(consensus_input) \in Txs
        /\ included' = IF Head(consensus_input) = "Other" /\ "Other" \in Range(included)
                       THEN included ELSE Append(included, Head(consensus_input))
        /\ UNCHANGED <<woken, wakers, graph, consensus_output>>
     \/ /\ Head(consensus_input) = "CreateStandalone"
        /\ OutputIncluded(<<>>)
        /\ UNCHANGED graph
     \/ /\ Head(consensus_input) = "KnownPeersRequest"
        /\ consensus_output' = Append(consensus_output, "KnownPeersResponse")
        /\ Wake("consensus")
        /\ UNCHANGED <<graph, included>>
     \/ /\ Head(consensus_input) = "ApplySync"
        /\ graph' = [state |-> "Busy", does |-> "apply"]
        /\ UNCHANGED <<woken, wakers, included, consensus_output>>
     \/ /\ Head(consensus_input) = "GenerateSyncRequest"
        /\ graph' = [state |-> "Busy", does |-> "generate"]
        /\ UNCHANGED <<woken, wakers, included, consensus_output>>
  /\ GraphUnchanged

(* apply_sync, then Ready; it may bring a transaction of another peer. *)
GraphApply ==
  /\ graph.does = "apply"
  /\ graph' = [state |-> "Ready", does |-> "wait"]
  /\ \E others \in {<<>>, <<"Other">>} : OutputIncluded(others)
  /\ UNCHANGED consensus_input
  /\ GraphUnchanged

(* generate_sync_for, then Ready, and then the response. *)
GraphGenerate ==
  /\ graph.does = "generate"
  /\ graph' = [state |-> "Ready", does |-> "respond"]
  /\ UNCHANGED <<woken, wakers, consensus_input, consensus_output, included>>
  /\ GraphUnchanged

GraphRespond ==
  /\ graph.does = "respond"
  /\ graph' = [graph EXCEPT !.does = "wait"]
  /\ consensus_output' = Append(consensus_output, "GenerateSyncResponse")
  /\ Wake("consensus")
  /\ UNCHANGED <<consensus_input, included>>
  /\ GraphUnchanged

(* FinalizedProgram is offered to the processor, ExecutedProgram is told   *)
(* to the data memory.                                                     *)
InstructionMemoryStep ==
  /\ instruction_input # <<>>
  /\ instruction_input' = Tail(instruction_input)
  /\ instruction_output' = Append(instruction_output,
       IF Head(instruction_input) = "Execute" THEN "NextProgram" ELSE "PeerShardsActualized")
  /\ Wake("instructions")
  /\ UNCHANGED <<section, network, timer, consensus, execution, user, announced>>

ProcessorUnchanged == UNCHANGED <<section, network, timer, consensus, instructions, user, announced>>

ProcessorReceive ==
  /\ processor.does = "wait" /\ processor_input > 0
  /\ processor_input' = processor_input - 1
  /\ processor' = [state |-> "Executing", does |-> "execute"]
  /\ UNCHANGED <<woken, wakers, processor_output>>
  /\ ProcessorUnchanged

(* FinishedExecution is sent, *)
ProcessorSend ==
  /\ processor.does = "execute"
  /\ processor' = [processor EXCEPT !.does = "finish"]
  /\ processor_output' = processor_output + 1
  /\ Wake("processor")
  /\ UNCHANGED processor_input
  /\ ProcessorUnchanged

(* and then the state is set, which wakes nobody. *)
ProcessorReady_unset ==
  /\ processor.does = "finish"
  /\ processor' = [processor EXCEPT !.does = "wait"]
  /\ UNCHANGED <<woken, wakers, processor_input, processor_output>>
  /\ ProcessorUnchanged
ProcessorReady ==
  /\ processor.does = "finish"
  /\ processor' = [state |-> "Ready", does |-> "wait"]
  /\ UNCHANGED <<woken, wakers, processor_input, processor_output>>
  /\ ProcessorUnchanged

-----------------------------------------------------------------------------
(* User, network and time.                                                 *)

ScheduleProgram ==
  /\ scheduled < MaxPrograms
  /\ scheduled' = scheduled + 1 /\ user_input' = Append(user_input, "ScheduleProgram")
  /\ Wake("user")
  /\ UNCHANGED <<section, network, timer, consensus, instructions, execution, announced>>

(* Any number of times, but only once in a unit of time and when the graph *)
(* wrapper has done what it was told.                                      *)
InitializeStorage ==
  /\ user_input = <<>> /\ consensus_input = <<>> /\ graph.does = "wait"
  /\ consensus_output = <<>> /\ passed > 0
  /\ user_input' = <<"InitializeStorage">>
  /\ Wake("user")
  /\ UNCHANGED <<section, network, timer, consensus, instructions, execution, scheduled, announced>>

(* on_connection_handler_event and on_swarm_event are called between two   *)
(* polls of the main task, which goes on with a poll.                      *)
ReceiveSync ==
  /\ section = "parked" /\ connected
  /\ received < MaxSyncs
  /\ received' = received + 1 /\ oneshot_messages' = oneshot_messages + 1
  /\ woken' = TRUE
  /\ UNCHANGED <<section, wakers, connected, timer, consensus, instructions,
                 execution, user, announced>>

ConnectionEstablished ==
  /\ section = "parked" /\ ~ connected
  /\ connected' = TRUE /\ woken' = TRUE
  /\ UNCHANGED <<section, wakers, oneshot_messages, received, timer, consensus, instructions,
                 execution, user, announced>>

(* mDNS, polled in the same task, queries the network now and then. *)
MdnsQuery ==
  /\ section = "parked"
  /\ woken' = TRUE
  /\ UNCHANGED <<section, wakers, network, timer, consensus, instructions, execution,
                 user, announced>>

Tick ==
  /\ section = "parked" /\ consensus_input = <<>> /\ graph.does = "wait"
  /\ left' = IF left = 0 THEN 0 ELSE left - 1
  /\ passed' = IF passed < Ramp THEN passed + 1 ELSE passed
  /\ waited' = IF waited \in 0 .. Min /\ left > 0 THEN waited + 1 ELSE waited
  /\ IF left = 1 THEN Wake("timer") ELSE UNCHANGED <<woken, wakers>>
  /\ UNCHANGED <<section, network, consensus, instructions, execution, user, announced>>

-----------------------------------------------------------------------------
MainTask == StartPoll \/ PollNetwork \/ PollUser \/ PollProcessor
            \/ PollInstructions \/ PollConsensus \/ PollTimer
Graph == GraphReceive \/ GraphApply \/ GraphGenerate \/ GraphRespond
Processor == ProcessorReceive \/ ProcessorSend \/ ProcessorReady

Next ==
  \/ MainTask \/ Graph \/ InstructionMemoryStep \/ Processor
  \/ ScheduleProgram \/ InitializeStorage \/ ReceiveSync
  \/ ConnectionEstablished \/ MdnsQuery \/ Tick

(* The runtime runs every task that can go on, time passes, and mDNS has a *)
(* timer of its own.                                                       *)
Fairness ==
  /\ WF_vars(MainTask) /\ WF_vars(Graph) /\ WF_vars(InstructionMemoryStep)
  /\ WF_vars(Processor) /\ SF_vars(Tick) /\ WF_vars(MdnsQuery)

Spec == Init /\ [][Next]_vars
FairSpec == Spec /\ Fairness

-----------------------------------------------------------------------------
(* Properties.                                                             *)

(* "Reset the timeout increase and the timer, if the reset one will finish *)
(* sooner": however many resets follow one another, the timer ends at most *)
(* the minimal timeout after the first of them.                            *)
ResetNeverPostpones == waited >= 0 /\ left > 0 => waited + left <= Min

(* While the task sleeps, the channels it looks at in every poll are empty *)
(* and will wake it.                                                       *)
NothingIsMissed ==
  section = "parked" /\ ~ woken =>
    /\ {"user", "processor", "consensus"} \subseteq wakers
    /\ user_input = <<>> /\ processor_output = 0 /\ consensus_output = <<>>

(* Gossip goes on for as long as anybody is connected, although every      *)
(* event resets the timer, a busy graph wrapper makes the poll pass over   *)
(* it, and a new timer wakes nobody until it is polled.                    *)
GossipGoesOn == <>[]connected => []<><<GraphRespond>>_vars

(* Every program the user schedules is executed, and the execution is      *)
(* announced, although the processor gets ready after it told the          *)
(* behaviour, when that may have passed over the instruction memory.       *)
ScheduledIsAnnounced == <>[]connected =>
  \A n \in 1 .. MaxPrograms : scheduled = n ~> announced >= n

=============================================================================
