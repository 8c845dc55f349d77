------------------------- MODULE NodePollingProofs --------------------------
(* Theorems about a node's main task, its timer and the modules it polls,  *)
(* for any durations and any bounds.                                       *)
EXTENDS NodePolling, QueueLemmas

-----------------------------------------------------------------------------
(* The inductive invariants.                                               *)

(* A section that was passed in this poll left its channel empty and the   *)
(* task registered with it, unless the task was woken again since.         *)
AfterConsensus == {"timer", "parked"}
AfterProcessor == AfterConsensus \cup {"instructions", "consensus"}
AfterUser == AfterProcessor \cup {"processor"}

WatchInv ==
  /\ section \in AfterUser => woken \/ ("user" \in wakers /\ user_input = <<>>)
  /\ section \in AfterProcessor => woken \/ ("processor" \in wakers /\ processor_output = 0)
  /\ section \in AfterConsensus => woken \/ ("consensus" \in wakers /\ consensus_output = <<>>)

(* A reset that no gossip followed leaves at most the minimal timeout.     *)
TimerInv ==
  /\ left \in 0 .. Max /\ waited \in -1 .. Min + 1 /\ passed \in 0 .. Ramp
  /\ ResetNeverPostpones

(* Where the programs are: each in one place, on its way to be executed,   *)
(* or executed and on its way to be announced.                             *)
Programs == {"Execute", "Executed"}
Schedules == {"ScheduleProgram"}
Executing == IF processor.does = "execute" THEN 1 ELSE 0
OnTheWay ==
  Count(user_input, Schedules) + Count(consensus_input, Programs)
    + Count(included, Programs) + Count(consensus_output, Programs)
    + Len(instruction_input) + Len(instruction_output)
Taken == processor_input + Executing + processor_output

ConservedInv == OnTheWay + Taken + announced = scheduled

(* TypeOK, except that what is bounded by the programs is a number. *)
GraphInputs == Txs \cup {"ApplySync", "CreateStandalone", "GenerateSyncRequest", "KnownPeersRequest"}
GraphOutputs == Txs \cup {"GenerateSyncResponse", "KnownPeersResponse"}
InstructionOutputs == {"NextProgram", "PeerShardsActualized"}
Commands == {"ScheduleProgram", "InitializeStorage"}

TaskTyped ==
  /\ section \in {"network", "user", "processor", "instructions", "consensus", "timer", "parked"}
  /\ woken \in BOOLEAN /\ wakers \subseteq Channels
  /\ connected \in BOOLEAN /\ received \in 0 .. MaxSyncs /\ oneshot_messages \in 0 .. received
  /\ graph \in [state : {"Ready", "Busy"}, does : {"wait", "apply", "generate", "respond"}]
  /\ processor \in [state : {"Ready", "Executing"}, does : {"wait", "execute", "finish"}]

QueuesTyped ==
  /\ consensus_input \in Seq(GraphInputs) /\ consensus_output \in Seq(GraphOutputs)
  /\ included \in Seq(Txs)
  /\ instruction_input \in Seq(Programs) /\ instruction_output \in Seq(InstructionOutputs)
  /\ user_input \in Seq(Commands)
  /\ processor_input \in Nat /\ processor_output \in Nat /\ announced \in Nat
  /\ scheduled \in 0 .. MaxPrograms

TypeInv == TaskTyped /\ QueuesTyped /\ TimerInv /\ ConservedInv

-----------------------------------------------------------------------------
(* The poll.                                                               *)

(* The sections of the poll follow one another. *)
LEMMA Sections ==
  /\ PollOrder[1] = "network"
  /\ section = "network" => Following = "user"
  /\ section = "user" => Following = "processor"
  /\ section = "processor" => Following = "instructions"
  /\ section = "instructions" => Following = "consensus"
  /\ section = "consensus" => Following = "timer"
  /\ section = "timer" => Following = "parked"
<1>1. \A i \in 1 .. 6 : i = 1 \/ i = 2 \/ i = 3 \/ i = 4 \/ i = 5 \/ i = 6
  OBVIOUS
<1>2. /\ PollOrder[1] = "network" /\ PollOrder[2] = "user" /\ PollOrder[3] = "processor"
      /\ PollOrder[4] = "instructions" /\ PollOrder[5] = "consensus" /\ PollOrder[6] = "timer"
      /\ PollOrder[7] = "parked"
  BY DEF PollOrder
<1>3. ASSUME NEW i \in 1 .. 6, section = PollOrder[i] PROVE Following = PollOrder[1 + i]
  <2>1. \A j \in 1 .. 6 : PollOrder[j] = section => j = i
    BY <1>1, <1>2, <1>3
  <2>2. (CHOOSE j \in 1 .. 6 : PollOrder[j] = section) = i
    BY <1>3, <2>1
  <2> QED
    BY <2>2 DEF Following
<1>4. /\ PollOrder[1 + 1] = "user" /\ PollOrder[1 + 2] = "processor"
      /\ PollOrder[1 + 3] = "instructions" /\ PollOrder[1 + 4] = "consensus"
      /\ PollOrder[1 + 5] = "timer" /\ PollOrder[1 + 6] = "parked"
  BY <1>2
<1> QED
  BY <1>2, <1>3, <1>4

(* A reset leaves everybody but the timer registered. *)
LEMMA ResetWakers ==
  ASSUME reset_full(wakers)
  PROVE  /\ "user" \in wakers' <=> "user" \in wakers
         /\ "processor" \in wakers' <=> "processor" \in wakers
         /\ "consensus" \in wakers' <=> "consensus" \in wakers
BY DEF reset_full

-----------------------------------------------------------------------------
(* The gossip timer.                                                       *)

(* Initially there was no reset. *)
LEMMA TimerInit == Init => TimerInv
BY DurationAssumption DEF Init, TimerInv, ResetNeverPostpones

(* A reset never moves the deadline away. *)
LEMMA ResetKeeps ==
  ASSUME TimerInv, reset_full(wakers)
  PROVE  TimerInv'
<1>1. next_duration(0) = Min
  BY DurationAssumption DEF next_duration
<1>2. passed' = 0 /\ waited' = (IF waited < 0 THEN 0 ELSE waited)
      /\ left' = (IF Min < left THEN Min ELSE left)
  BY <1>1 DEF reset_full
<1> QED
  BY <1>2, DurationAssumption DEF TimerInv, ResetNeverPostpones

(* Time and gossip keep the bound, too. *)
LEMMA TimerNext == TimerInv /\ [Next]_vars => TimerInv'
<1> SUFFICES ASSUME TimerInv, [Next]_vars PROVE TimerInv'
  OBVIOUS
<1>1. CASE UNCHANGED timer
  BY <1>1 DEF timer, TimerInv, ResetNeverPostpones
<1>2. CASE \/ UNCHANGED vars \/ StartPoll \/ PollNetwork \/ PollInstructions
           \/ Graph \/ InstructionMemoryStep \/ Processor \/ ScheduleProgram \/ InitializeStorage
           \/ ReceiveSync \/ ConnectionEstablished \/ MdnsQuery
  <2>1. UNCHANGED timer
    BY <1>2 DEF vars, StartPoll, PollNetwork, PollInstructions, Graph, GraphReceive, GraphApply,
                GraphGenerate, GraphRespond, GraphUnchanged, InstructionMemoryStep, Processor,
                ProcessorReceive, ProcessorSend, ProcessorReady, ProcessorUnchanged,
                ScheduleProgram, InitializeStorage, ReceiveSync, ConnectionEstablished, MdnsQuery
  <2> QED
    BY <1>1, <2>1
<1>3. CASE PollUser
  BY <1>1, <1>3, ResetKeeps DEF PollUser
<1>4. CASE PollProcessor
  BY <1>1, <1>4, ResetKeeps DEF PollProcessor
<1>5. CASE PollConsensus
  BY <1>1, <1>5, ResetKeeps DEF PollConsensus
<1>6. CASE PollTimer
  <2>1. \/ UNCHANGED timer
        \/ left' = next_duration(passed) /\ waited' = -1 /\ passed' = passed
    BY <1>6 DEF PollTimer
  <2>2. next_duration(passed) \in {Min, Max}
    BY DEF next_duration
  <2>3. ASSUME left' = next_duration(passed), waited' = -1, passed' = passed PROVE TimerInv'
    BY <2>2, <2>3, DurationAssumption DEF TimerInv, ResetNeverPostpones
  <2> QED
    BY <1>1, <2>1, <2>3
<1>7. CASE Tick
  <2>1. /\ left' = (IF left = 0 THEN 0 ELSE left - 1)
        /\ passed' = (IF passed < Ramp THEN passed + 1 ELSE passed)
        /\ waited' = (IF waited \in 0 .. Min /\ left > 0 THEN waited + 1 ELSE waited)
    BY <1>7 DEF Tick
  <2> QED
    BY <2>1, DurationAssumption DEF TimerInv, ResetNeverPostpones
<1> QED
  BY <1>2, <1>3, <1>4, <1>5, <1>6, <1>7 DEF Next, MainTask

(* However many resets follow one another, and whatever timer runs when    *)
(* they come, the deadline is at most the minimal timeout after the first  *)
(* of them: gossip cannot be put off by events that keep arriving.         *)
THEOREM ResetsDoNotPostpone == Spec => []ResetNeverPostpones
<1>1. TimerInv => ResetNeverPostpones
  BY DEF TimerInv
<1> QED
  BY <1>1, TimerInit, TimerNext, PTL DEF Spec

-----------------------------------------------------------------------------
(* Types.                                                                  *)

(* Initially there is nothing to do. *)
LEMMA TypedInit == Init => TaskTyped /\ QueuesTyped
<1> SUFFICES ASSUME Init PROVE TaskTyped /\ QueuesTyped
  OBVIOUS
<1>1. TaskTyped
  <2>1. 0 \in 0 .. MaxSyncs /\ 0 \in 0 .. 0
    BY BoundAssumption
  <2>2. /\ graph \in [state : {"Ready", "Busy"}, does : {"wait", "apply", "generate", "respond"}]
        /\ processor \in [state : {"Ready", "Executing"}, does : {"wait", "execute", "finish"}]
    BY DEF Init
  <2> QED
    BY <2>1, <2>2 DEF Init, TaskTyped
<1>2. QueuesTyped
  <2>1. \A S : <<>> \in Seq(S)
    OBVIOUS
  <2> QED
    BY <2>1, BoundAssumption DEF Init, QueuesTyped
<1> QED
  BY <1>1, <1>2

(* Every step keeps the main task and the modules typed. *)
LEMMA TaskNext == TaskTyped /\ [Next]_vars => TaskTyped'
<1> SUFFICES ASSUME TaskTyped, [Next]_vars PROVE TaskTyped'
  OBVIOUS
<1> USE DEF TaskTyped
<1>1. CASE UNCHANGED vars
  BY <1>1 DEF vars, task, network, consensus, execution
<1>2. CASE StartPoll
  BY <1>2, Sections DEF StartPoll, network, consensus, execution
<1>3. CASE PollNetwork
  <2>1. /\ section' \in {"network", "user"}
        /\ oneshot_messages' \in {oneshot_messages, oneshot_messages - 1}
        /\ oneshot_messages' # oneshot_messages => oneshot_messages # 0
    BY <1>3, Sections DEF PollNetwork
  <2>2. UNCHANGED <<woken, wakers, connected, received, graph, processor>>
    BY <1>3 DEF PollNetwork, execution
  <2>3. oneshot_messages' \in 0 .. received
    BY <2>1, BoundAssumption
  <2> QED
    BY <2>1, <2>2, <2>3
<1>4. CASE PollUser
  <2>1. section' \in {"user", "processor"} /\ wakers' \subseteq Channels
    BY <1>4, Sections DEF PollUser, Pending, reset_full, Channels
  <2>2. UNCHANGED <<woken, connected, received, oneshot_messages, graph, processor>>
    BY <1>4 DEF PollUser, network, execution
  <2> QED
    BY <2>1, <2>2
<1>5. CASE PollProcessor
  <2>1. section' \in {"processor", "instructions"} /\ wakers' \subseteq Channels
    BY <1>5, Sections DEF PollProcessor, Pending, reset_full, Channels
  <2>2. UNCHANGED <<woken, connected, received, oneshot_messages, graph, processor>>
    BY <1>5 DEF PollProcessor, network
  <2> QED
    BY <2>1, <2>2
<1>6. CASE PollInstructions
  <2>1. section' \in {"instructions", "consensus"} /\ wakers' \subseteq Channels
    BY <1>6, Sections DEF PollInstructions, Pending, Channels
  <2>2. UNCHANGED <<woken, connected, received, oneshot_messages, graph, processor>>
    BY <1>6 DEF PollInstructions, network, consensus
  <2> QED
    BY <2>1, <2>2
<1>7. CASE PollConsensus
  <2>1. section' \in {"consensus", "timer", "network"} /\ wakers' \subseteq Channels
    BY <1>7, Sections DEF PollConsensus, Pending, reset_full, Channels
  <2>2. UNCHANGED <<woken, connected, received, oneshot_messages, graph, processor>>
    BY <1>7 DEF PollConsensus, network, execution
  <2> QED
    BY <2>1, <2>2
<1>8. CASE PollTimer
  <2>1. section' = "parked" /\ wakers' \subseteq Channels
    BY <1>8, Sections DEF PollTimer, Channels
  <2>2. UNCHANGED <<woken, connected, received, oneshot_messages, graph, processor>>
    BY <1>8 DEF PollTimer, network, execution
  <2> QED
    BY <2>1, <2>2
<1>9. CASE Graph
  <2>1. UNCHANGED <<section, connected, received, oneshot_messages, processor>>
    BY <1>9 DEF Graph, GraphReceive, GraphApply, GraphGenerate, GraphRespond, GraphUnchanged,
                network, execution
  <2>2. woken' \in BOOLEAN /\ wakers' \subseteq Channels
    BY <1>9 DEF Graph, GraphReceive, GraphApply, GraphGenerate, GraphRespond, OutputIncluded, Wake
  <2>3. graph' \in [state : {"Ready", "Busy"}, does : {"wait", "apply", "generate", "respond"}]
    BY <1>9 DEF Graph, GraphReceive, GraphApply, GraphGenerate, GraphRespond
  <2> QED
    BY <2>1, <2>2, <2>3
<1>10. CASE InstructionMemoryStep
  BY <1>10 DEF InstructionMemoryStep, Wake, network, consensus, execution
<1>11. CASE Processor
  <2>1. UNCHANGED <<section, connected, received, oneshot_messages, graph>>
    BY <1>11 DEF Processor, ProcessorReceive, ProcessorSend, ProcessorReady, ProcessorUnchanged,
                 network, consensus
  <2>2. woken' \in BOOLEAN /\ wakers' \subseteq Channels
    BY <1>11 DEF Processor, ProcessorReceive, ProcessorSend, ProcessorReady, Wake
  <2>3. processor' \in [state : {"Ready", "Executing"}, does : {"wait", "execute", "finish"}]
    BY <1>11 DEF Processor, ProcessorReceive, ProcessorSend, ProcessorReady
  <2> QED
    BY <2>1, <2>2, <2>3
<1>12. CASE ScheduleProgram \/ InitializeStorage
  BY <1>12 DEF ScheduleProgram, InitializeStorage, Wake, network, consensus, execution
<1>13. CASE ReceiveSync
  <2>1. received' \in 0 .. MaxSyncs /\ oneshot_messages' \in 0 .. received'
    BY <1>13, BoundAssumption DEF ReceiveSync
  <2>2. UNCHANGED <<section, wakers, connected, graph, processor>> /\ woken' = TRUE
    BY <1>13 DEF ReceiveSync, consensus, execution
  <2> QED
    BY <2>1, <2>2
<1>14. CASE ConnectionEstablished \/ MdnsQuery
  BY <1>14 DEF ConnectionEstablished, MdnsQuery, network, consensus, execution
<1>15. CASE Tick
  BY <1>15 DEF Tick, Wake, network, consensus, execution
<1> QED
  BY <1>1, <1>2, <1>3, <1>4, <1>5, <1>6, <1>7, <1>8, <1>9, <1>10, <1>11, <1>12, <1>13, <1>14,
     <1>15 DEF Next, MainTask

(* What was received from a channel leaves the rest typed. *)
LEMMA ReceiveTyped ==
  ASSUME NEW S, NEW q \in Seq(S), q # <<>>
  PROVE  Head(q) \in S /\ Tail(q) \in Seq(S)
BY TailPlaces

(* A channel may carry more. *)
LEMMA SeqLarger ==
  ASSUME NEW S, NEW T, S \subseteq T, NEW q \in Seq(S)
  PROVE  q \in Seq(T)
OBVIOUS

(* The channels keep their kinds. *)
LEMMA QueuesNext == TaskTyped /\ QueuesTyped /\ [Next]_vars => QueuesTyped'
<1> SUFFICES ASSUME TaskTyped, QueuesTyped, [Next]_vars PROVE QueuesTyped'
  OBVIOUS
<1>1. /\ Txs = {"Execute", "Executed", "Other"} /\ Programs = {"Execute", "Executed"}
      /\ Txs \subseteq GraphInputs /\ Txs \subseteq GraphOutputs
      /\ {"ApplySync", "CreateStandalone", "GenerateSyncRequest", "KnownPeersRequest"}
           \subseteq GraphInputs
      /\ {"GenerateSyncResponse", "KnownPeersResponse"} \subseteq GraphOutputs
  BY DEF Txs, Programs, GraphInputs, GraphOutputs
<1>2. /\ consensus_input \in Seq(GraphInputs) /\ consensus_output \in Seq(GraphOutputs)
      /\ included \in Seq(Txs)
      /\ instruction_input \in Seq(Programs) /\ instruction_output \in Seq(InstructionOutputs)
      /\ user_input \in Seq(Commands)
      /\ processor_input \in Nat /\ processor_output \in Nat /\ announced \in Nat
      /\ scheduled \in 0 .. MaxPrograms
  BY DEF QueuesTyped
<1>3. CASE \/ UNCHANGED vars \/ StartPoll \/ GraphGenerate \/ ProcessorReady
           \/ ReceiveSync \/ ConnectionEstablished \/ MdnsQuery \/ Tick
  BY <1>2, <1>3 DEF QueuesTyped, vars, consensus, instructions, execution, user, StartPoll,
                    GraphGenerate, GraphUnchanged, ProcessorReady, ProcessorUnchanged,
                    ReceiveSync, ConnectionEstablished, MdnsQuery, Tick
<1>4. \A e \in GraphInputs : Append(consensus_input, e) \in Seq(GraphInputs)
  BY <1>2
<1>5. CASE PollNetwork
  <2>1. consensus_input' \in Seq(GraphInputs)
    BY <1>1, <1>2, <1>4, <1>5 DEF PollNetwork
  <2> QED
    BY <1>2, <1>5, <2>1 DEF PollNetwork, QueuesTyped, instructions, execution, user
<1>6. CASE PollUser
  <2>1. consensus_input' \in Seq(GraphInputs)
    BY <1>1, <1>2, <1>4, <1>6 DEF PollUser
  <2>2. user_input' \in Seq(Commands)
    BY <1>2, <1>6, ReceiveTyped DEF PollUser
  <2> QED
    BY <1>2, <1>6, <2>1, <2>2 DEF PollUser, QueuesTyped, instructions, execution
<1>7. CASE PollProcessor
  <2>1. consensus_input' \in Seq(GraphInputs)
    BY <1>1, <1>2, <1>4, <1>7 DEF PollProcessor
  <2>2. processor_output' \in Nat
    BY <1>2, <1>7 DEF PollProcessor
  <2> QED
    BY <1>2, <1>7, <2>1, <2>2 DEF PollProcessor, QueuesTyped, instructions, user
<1>8. CASE PollInstructions
  <2>1. instruction_output' \in Seq(InstructionOutputs)
    BY <1>2, <1>8, ReceiveTyped DEF PollInstructions
  <2>2. processor_input' \in Nat /\ announced' \in Nat
    BY <1>2, <1>8 DEF PollInstructions
  <2> QED
    BY <1>2, <1>8, <2>1, <2>2 DEF PollInstructions, QueuesTyped, consensus, user
<1>9. CASE PollConsensus
  <2>1. consensus_input' \in Seq(GraphInputs)
    BY <1>1, <1>2, <1>4, <1>9 DEF PollConsensus
  <2>2. consensus_output' \in Seq(GraphOutputs)
    <3>1. consensus_output' = consensus_output
          \/ (consensus_output # <<>> /\ consensus_output' = Tail(consensus_output))
      BY <1>9 DEF PollConsensus
    <3> QED
      BY <1>2, <3>1, ReceiveTyped
  <2>3. instruction_input' \in Seq(Programs)
    <3>1. \A e \in Txs : e # "Other" => Append(instruction_input, e) \in Seq(Programs)
      BY <1>1, <1>2
    <3> QED
      BY <1>2, <1>9, <3>1 DEF PollConsensus
  <2> QED
    BY <1>2, <1>9, <2>1, <2>2, <2>3 DEF PollConsensus, QueuesTyped, execution, user
<1>10. CASE PollTimer
  <2>1. consensus_input' \in Seq(GraphInputs)
    <3>1. <<"CreateStandalone", "GenerateSyncRequest">> \in Seq(GraphInputs)
      BY <1>1
    <3>2. consensus_input \o <<"CreateStandalone", "GenerateSyncRequest">> \in Seq(GraphInputs)
      BY <1>2, <3>1, ConcatPlaces
    <3> QED
      BY <1>2, <1>10, <3>2 DEF PollTimer
  <2> QED
    BY <1>2, <1>10, <2>1 DEF PollTimer, QueuesTyped, instructions, execution, user
<1>11. ASSUME NEW others, others = <<>> \/ others = <<"Other">>, OutputIncluded(others)
       PROVE  included' \in Seq(Txs) /\ consensus_output' \in Seq(GraphOutputs)
  <2>1. <<>> \in Seq(Txs) /\ others \in Seq(GraphOutputs) /\ included \in Seq(GraphOutputs)
    <3>1. <<"Other">> \in Seq(GraphOutputs) /\ \A S : <<>> \in Seq(S)
      BY <1>1
    <3>2. included \in Seq(GraphOutputs)
      BY <1>1, <1>2, SeqLarger
    <3> QED
      BY <1>11, <3>1, <3>2
  <2>2. consensus_output \o others \in Seq(GraphOutputs)
    BY <1>2, <2>1, ConcatPlaces
  <2>3. (consensus_output \o others) \o included \in Seq(GraphOutputs)
    BY <2>1, <2>2, ConcatPlaces
  <2> QED
    BY <1>11, <2>1, <2>3 DEF OutputIncluded
<1>12. CASE GraphReceive
  <2>1. consensus_input' \in Seq(GraphInputs)
    BY <1>2, <1>12, ReceiveTyped DEF GraphReceive
  <2>2. included' \in Seq(Txs) /\ consensus_output' \in Seq(GraphOutputs)
    <3>1. \A e \in Txs : Append(included, e) \in Seq(Txs)
      BY <1>2
    <3>2. Append(consensus_output, "KnownPeersResponse") \in Seq(GraphOutputs)
      BY <1>1, <1>2
    <3> QED
      BY <1>2, <1>11, <1>12, <3>1, <3>2 DEF GraphReceive
  <2> QED
    BY <1>2, <1>12, <2>1, <2>2 DEF GraphReceive, GraphUnchanged, QueuesTyped, instructions,
                                   execution, user
<1>13. CASE GraphApply
  <2>1. included' \in Seq(Txs) /\ consensus_output' \in Seq(GraphOutputs)
    BY <1>11, <1>13 DEF GraphApply
  <2> QED
    BY <1>2, <1>13, <2>1 DEF GraphApply, GraphUnchanged, QueuesTyped, instructions, execution, user
<1>14. CASE GraphRespond
  <2>1. consensus_output' \in Seq(GraphOutputs)
    BY <1>1, <1>2, <1>14 DEF GraphRespond
  <2> QED
    BY <1>2, <1>14, <2>1 DEF GraphRespond, GraphUnchanged, QueuesTyped, instructions, execution,
                             user
<1>15. CASE InstructionMemoryStep
  <2>1. instruction_input' \in Seq(Programs)
    BY <1>2, <1>15, ReceiveTyped DEF InstructionMemoryStep
  <2>2. instruction_output' \in Seq(InstructionOutputs)
    BY <1>2, <1>15 DEF InstructionMemoryStep, InstructionOutputs
  <2> QED
    BY <1>2, <1>15, <2>1, <2>2 DEF InstructionMemoryStep, QueuesTyped, consensus, execution, user
<1>16. CASE ProcessorReceive \/ ProcessorSend
  <2>1. processor_input' \in Nat /\ processor_output' \in Nat
    BY <1>2, <1>16 DEF ProcessorReceive, ProcessorSend
  <2> QED
    BY <1>2, <1>16, <2>1 DEF ProcessorReceive, ProcessorSend, ProcessorUnchanged, QueuesTyped,
                             consensus, instructions, user
<1>17. CASE ScheduleProgram
  <2>1. scheduled' \in 0 .. MaxPrograms
    BY <1>2, <1>17, BoundAssumption DEF ScheduleProgram
  <2>2. user_input' \in Seq(Commands)
    BY <1>2, <1>17 DEF ScheduleProgram, Commands
  <2> QED
    BY <1>2, <1>17, <2>1, <2>2 DEF ScheduleProgram, QueuesTyped, consensus, instructions, execution
<1>18. CASE InitializeStorage
  <2>1. user_input' \in Seq(Commands)
    BY <1>18 DEF InitializeStorage, Commands
  <2> QED
    BY <1>2, <1>18, <2>1 DEF InitializeStorage, QueuesTyped, consensus, instructions, execution
<1> QED
  BY <1>3, <1>5, <1>6, <1>7, <1>8, <1>9, <1>10, <1>12, <1>13, <1>14, <1>15, <1>16, <1>17, <1>18
     DEF Next, MainTask, Graph, Processor

-----------------------------------------------------------------------------
(* No program is lost or doubled.                                          *)

(* Initially there is none. *)
LEMMA ConservedInit == Init => ConservedInv
<1> SUFFICES ASSUME Init PROVE ConservedInv
  OBVIOUS
<1>1. \A M : Count(<<>>, M) = 0
  BY CountEmpty
<1>2. Len(<<>>) = 0 /\ Executing = 0
  BY DEF Init, Executing
<1>3. OnTheWay = 0
  BY <1>1, <1>2 DEF Init, OnTheWay
<1>4. Taken = 0
  BY <1>2 DEF Init, Taken
<1> QED
  BY <1>3, <1>4 DEF Init, ConservedInv

(* Receiving a program from a channel takes one away, *)
LEMMA ReceiveCount ==
  ASSUME NEW S, NEW q \in Seq(S), q # <<>>, NEW M, NEW n \in Nat, n = Count(q, M)
  PROVE  /\ Head(q) \in M => n - 1 \in Nat /\ Count(Tail(q), M) = n - 1
         /\ Head(q) \notin M => Count(Tail(q), M) = n
<1>1. PICK m \in Nat : m = Count(Tail(q), M)
  BY CountTail
<1>2. n = m + (IF Head(q) \in M THEN 1 ELSE 0)
  BY <1>1, CountTail
<1> QED
  BY <1>1, <1>2

(* and sending one adds it. *)
LEMMA SendCount ==
  ASSUME NEW S, NEW q \in Seq(S), NEW t \in S, NEW M, NEW n \in Nat, n = Count(q, M)
  PROVE  /\ t \in M => n + 1 \in Nat /\ Count(Append(q, t), M) = n + 1
         /\ t \notin M => Count(Append(q, t), M) = n
<1>1. Count(Append(q, t), M) = n + (IF t \in M THEN 1 ELSE 0)
  BY CountAppend
<1> QED
  BY <1>1

(* Every step moves a program at most one place on. *)
LEMMA ConservedNext ==
  TaskTyped /\ QueuesTyped /\ ConservedInv /\ [Next]_vars => ConservedInv'
<1> SUFFICES ASSUME TaskTyped, QueuesTyped, ConservedInv, [Next]_vars PROVE ConservedInv'
  OBVIOUS
<1>1. /\ consensus_input \in Seq(GraphInputs) /\ consensus_output \in Seq(GraphOutputs)
      /\ included \in Seq(Txs)
      /\ instruction_input \in Seq(Programs) /\ instruction_output \in Seq(InstructionOutputs)
      /\ user_input \in Seq(Commands)
      /\ processor_input \in Nat /\ processor_output \in Nat /\ announced \in Nat
      /\ scheduled \in Nat
  BY BoundAssumption DEF QueuesTyped
<1>2. PICK u \in Nat : u = Count(user_input, Schedules)
  BY <1>1, CountType
<1>3. PICK c \in Nat : c = Count(consensus_input, Programs)
  BY <1>1, CountType
<1>4. PICK i \in Nat : i = Count(included, Programs)
  BY <1>1, CountType
<1>5. PICK o \in Nat : o = Count(consensus_output, Programs)
  BY <1>1, CountType
<1>6. PICK x \in Nat : x = Len(instruction_input)
  BY <1>1
<1>7. PICK y \in Nat : y = Len(instruction_output)
  BY <1>1
<1>8. PICK e \in Nat : e = Executing
  BY DEF Executing
<1>9. u + c + i + o + x + y + (processor_input + e + processor_output) + announced = scheduled
  BY <1>2, <1>3, <1>4, <1>5, <1>6, <1>7, <1>8 DEF ConservedInv, OnTheWay, Taken
<1> DEFINE Parts(u2, c2, i2, o2, x2, y2) ==
             /\ Count(user_input', Schedules) = u2 /\ Count(consensus_input', Programs) = c2
             /\ Count(included', Programs) = i2 /\ Count(consensus_output', Programs) = o2
             /\ Len(instruction_input') = x2 /\ Len(instruction_output') = y2
<1>10. ASSUME NEW u2 \in Nat, NEW c2 \in Nat, NEW i2 \in Nat, NEW o2 \in Nat, NEW x2 \in Nat,
              NEW y2 \in Nat, NEW e2 \in Nat, Parts(u2, c2, i2, o2, x2, y2), Executing' = e2,
              u2 + c2 + i2 + o2 + x2 + y2 + (processor_input' + e2 + processor_output') + announced'
                = scheduled'
       PROVE  ConservedInv'
  BY <1>10 DEF ConservedInv, OnTheWay, Taken
<1>11. ASSUME UNCHANGED <<user_input, consensus_input, included, consensus_output,
                          instruction_input, instruction_output>>
       PROVE  Parts(u, c, i, o, x, y)
  BY <1>2, <1>3, <1>4, <1>5, <1>6, <1>7, <1>11
<1>12. ASSUME UNCHANGED processor PROVE Executing' = e
  BY <1>8, <1>12 DEF Executing
<1> HIDE DEF Parts
<1>13. CASE \/ UNCHANGED vars \/ StartPoll \/ GraphGenerate
            \/ ReceiveSync \/ ConnectionEstablished \/ MdnsQuery \/ Tick
  <2>1. UNCHANGED <<user_input, consensus_input, included, consensus_output, instruction_input,
                    instruction_output, processor, processor_input, processor_output, announced,
                    scheduled>>
    BY <1>13 DEF vars, consensus, instructions, execution, user, StartPoll, GraphGenerate,
                 GraphUnchanged, ReceiveSync, ConnectionEstablished, MdnsQuery, Tick
  <2> QED
    BY <1>9, <1>10, <1>11, <1>12, <2>1
<1>14. CASE ProcessorReady
  <2>1. UNCHANGED <<user_input, consensus_input, included, consensus_output, instruction_input,
                    instruction_output, processor_input, processor_output, announced, scheduled>>
    BY <1>14 DEF ProcessorReady, ProcessorUnchanged, consensus, instructions, user
  <2>2. e = 0 /\ Executing' = e
    BY <1>8, <1>14 DEF ProcessorReady, Executing
  <2> QED
    BY <1>9, <1>10, <1>11, <2>1, <2>2
<1>15. CASE ProcessorReceive
  <2>1. UNCHANGED <<user_input, consensus_input, included, consensus_output, instruction_input,
                    instruction_output, processor_output, announced, scheduled>>
    BY <1>15 DEF ProcessorReceive, ProcessorUnchanged, consensus, instructions, user
  <2>2. processor_input > 0 /\ processor_input' = processor_input - 1
    BY <1>15 DEF ProcessorReceive
  <2>3. e = 0 /\ Executing' = 1
    BY <1>8, <1>15 DEF ProcessorReceive, Executing
  <2>4. u + c + i + o + x + y + (processor_input' + 1 + processor_output') + announced' = scheduled'
    BY <1>1, <1>9, <2>1, <2>2, <2>3
  <2> QED
    BY <1>10, <1>11, <2>1, <2>3, <2>4
<1>16. CASE ProcessorSend
  <2>1. UNCHANGED <<user_input, consensus_input, included, consensus_output, instruction_input,
                    instruction_output, processor_input, announced, scheduled>>
    BY <1>16 DEF ProcessorSend, ProcessorUnchanged, consensus, instructions, user
  <2>2. processor_output' = processor_output + 1
    BY <1>16 DEF ProcessorSend
  <2>3. e = 1 /\ Executing' = 0
    BY <1>8, <1>16 DEF ProcessorSend, Executing, TaskTyped
  <2>4. u + c + i + o + x + y + (processor_input' + 0 + processor_output') + announced' = scheduled'
    BY <1>1, <1>9, <2>1, <2>2, <2>3
  <2> QED
    BY <1>10, <1>11, <2>1, <2>3, <2>4
<1>17. /\ "Execute" \in Programs /\ "Executed" \in Programs /\ "Other" \notin Programs
       /\ "ApplySync" \notin Programs /\ "CreateStandalone" \notin Programs
       /\ "GenerateSyncRequest" \notin Programs /\ "KnownPeersRequest" \notin Programs
       /\ "GenerateSyncResponse" \notin Programs /\ "KnownPeersResponse" \notin Programs
       /\ \A t \in Txs : t # "Other" => t \in Programs
       /\ "Other" \in Txs /\ Txs \subseteq GraphOutputs
       /\ "GenerateSyncResponse" \in GraphOutputs /\ "KnownPeersResponse" \in GraphOutputs
       /\ "ScheduleProgram" \in Schedules /\ "InitializeStorage" \notin Schedules
       /\ "ScheduleProgram" \in Commands /\ "InitializeStorage" \in Commands
  BY DEF Programs, Txs, GraphOutputs, Schedules, Commands
<1>18. ASSUME NEW t \in GraphInputs
       PROVE  Count(Append(consensus_input, t), Programs) = c + (IF t \in Programs THEN 1 ELSE 0)
  BY <1>1, <1>3, CountAppend
<1>19. {"Execute", "Executed", "Other", "ApplySync", "CreateStandalone", "GenerateSyncRequest",
        "KnownPeersRequest"} \subseteq GraphInputs
  BY DEF GraphInputs, Txs
<1> DEFINE Total(u2, c2, i2, o2, x2, y2, e2) ==
             u2 + c2 + i2 + o2 + x2 + y2 + (processor_input' + e2 + processor_output') + announced'
               = scheduled'
<1>20. CASE PollNetwork
  <2>1. UNCHANGED <<user_input, included, consensus_output, instruction_input,
                    instruction_output, processor, processor_input,
                    processor_output, announced, scheduled>>
    BY <1>20 DEF PollNetwork, instructions, execution, user
  <2>2. Count(consensus_input', Programs) = c
    <3>1. consensus_input' = consensus_input \/ consensus_input' = Append(consensus_input, "ApplySync")
      BY <1>20 DEF PollNetwork
    <3>2. Count(Append(consensus_input, "ApplySync"), Programs) = c
      BY <1>17, <1>18, <1>19
    <3> QED
      BY <1>3, <3>1, <3>2
  <2>3. Parts(u, c, i, o, x, y)
    BY <1>2, <1>4, <1>5, <1>6, <1>7, <2>1, <2>2 DEF Parts
  <2> QED
    BY <1>9, <1>10, <1>12, <2>1, <2>3
<1>21. CASE PollUser
  <2>1. UNCHANGED <<included, consensus_output, instruction_input,
                    instruction_output, processor, processor_input,
                    processor_output, announced, scheduled>>
    BY <1>21 DEF PollUser, instructions, execution
  <2>2. CASE user_input = <<>> /\ UNCHANGED <<user_input, consensus_input>>
    BY <1>9, <1>10, <1>11, <1>12, <2>1, <2>2
  <2>3. CASE /\ user_input # <<>> /\ Head(user_input) = "ScheduleProgram"
             /\ user_input' = Tail(user_input)
             /\ consensus_input' = Append(consensus_input, "Execute")
    <3>1. u - 1 \in Nat /\ Count(user_input', Schedules) = u - 1
      BY <1>1, <1>2, <1>17, <2>3, ReceiveCount
    <3>2. Count(consensus_input', Programs) = c + 1
      BY <1>17, <1>18, <1>19, <2>3
    <3>3. Parts(u - 1, c + 1, i, o, x, y)
      BY <1>4, <1>5, <1>6, <1>7, <2>1, <3>1, <3>2 DEF Parts
    <3>4. Total(u - 1, c + 1, i, o, x, y, e)
      BY <1>1, <1>9, <2>1
    <3>5. u - 1 \in Nat /\ c + 1 \in Nat
      BY <3>1
    <3> QED
      BY <1>10, <1>12, <2>1, <3>3, <3>4, <3>5
  <2>4. CASE /\ user_input # <<>> /\ Head(user_input) = "InitializeStorage"
             /\ user_input' = Tail(user_input)
             /\ consensus_input' = Append(consensus_input, "KnownPeersRequest")
    <3>1. Count(user_input', Schedules) = u
      BY <1>1, <1>2, <1>17, <2>4, ReceiveCount
    <3>2. Count(consensus_input', Programs) = c
      BY <1>17, <1>18, <1>19, <2>4
    <3>3. Parts(u, c, i, o, x, y)
      BY <1>4, <1>5, <1>6, <1>7, <2>1, <3>1, <3>2 DEF Parts
    <3> QED
      BY <1>9, <1>10, <1>12, <2>1, <3>3
  <2> QED
    BY <1>21, <2>2, <2>3, <2>4 DEF PollUser
<1>22. CASE PollProcessor
  <2>1. UNCHANGED <<user_input, included, consensus_output, instruction_input,
                    instruction_output, processor, processor_input, announced,
                    scheduled>>
    BY <1>22 DEF PollProcessor, instructions, user
  <2>2. CASE UNCHANGED <<consensus_input, processor_output>>
    BY <1>9, <1>10, <1>11, <1>12, <2>1, <2>2
  <2>3. CASE /\ processor_output # 0 /\ processor_output' = processor_output - 1
             /\ consensus_input' = Append(consensus_input, "Executed")
    <3>1. Count(consensus_input', Programs) = c + 1
      BY <1>17, <1>18, <1>19, <2>3
    <3>2. Parts(u, c + 1, i, o, x, y)
      BY <1>2, <1>4, <1>5, <1>6, <1>7, <2>1, <3>1 DEF Parts
    <3>3. Total(u, c + 1, i, o, x, y, e)
      BY <1>1, <1>9, <2>1, <2>3
    <3>4. c + 1 \in Nat
      OBVIOUS
    <3> QED
      BY <1>10, <1>12, <2>1, <3>2, <3>3, <3>4
  <2> QED
    BY <1>22, <2>2, <2>3 DEF PollProcessor
<1>23. CASE PollInstructions
  <2>1. UNCHANGED <<user_input, consensus_input, included, consensus_output,
                    instruction_input, processor, processor_output, scheduled>>
    BY <1>23 DEF PollInstructions, consensus, user
  <2>2. CASE UNCHANGED <<instruction_output, processor_input, announced>>
    BY <1>9, <1>10, <1>11, <1>12, <2>1, <2>2
  <2>3. CASE /\ instruction_output # <<>> /\ instruction_output' = Tail(instruction_output)
             /\ \/ processor_input' = processor_input + 1 /\ announced' = announced
                \/ processor_input' = processor_input /\ announced' = announced + 1
    <3>1. Len(instruction_output') = y - 1 /\ y - 1 \in Nat
      BY <1>1, <1>7, <2>3, TailPlaces
    <3>2. Parts(u, c, i, o, x, y - 1)
      BY <1>2, <1>3, <1>4, <1>5, <1>6, <2>1, <3>1 DEF Parts
    <3>3. ASSUME processor_input' = processor_input + 1, announced' = announced
          PROVE  Total(u, c, i, o, x, y - 1, e)
      BY <1>1, <1>9, <2>1, <3>3
    <3>4. ASSUME processor_input' = processor_input, announced' = announced + 1
          PROVE  Total(u, c, i, o, x, y - 1, e)
      BY <1>1, <1>9, <2>1, <3>4
    <3>5. Total(u, c, i, o, x, y - 1, e)
      BY <2>3, <3>3, <3>4
    <3> QED
      BY <1>10, <1>12, <2>1, <3>1, <3>2, <3>5
  <2> QED
    BY <1>23, <2>2, <2>3 DEF PollInstructions
<1>24. CASE PollConsensus
  <2>1. UNCHANGED <<user_input, included, instruction_output, processor,
                    processor_input, processor_output, announced, scheduled>>
    BY <1>24 DEF PollConsensus, execution, user
  <2>2. CASE UNCHANGED <<consensus_input, consensus_output, instruction_input>>
    BY <1>9, <1>10, <1>11, <1>12, <2>1, <2>2
  <2>3. ASSUME consensus_output # <<>>, consensus_output' = Tail(consensus_output)
        PROVE  /\ Count(consensus_output', Programs)
                    = IF Head(consensus_output) \in Programs THEN o - 1 ELSE o
               /\ Head(consensus_output) \in Programs => o - 1 \in Nat
    BY <1>1, <1>5, <2>3, ReceiveCount
  <2>4. CASE /\ consensus_output # <<>> /\ Head(consensus_output) \in Txs
             /\ consensus_output' = Tail(consensus_output)
             /\ instruction_input' = (IF Head(consensus_output) = "Other" THEN instruction_input
                                      ELSE Append(instruction_input, Head(consensus_output)))
             /\ UNCHANGED consensus_input
    <3>1. CASE Head(consensus_output) = "Other"
      <4>1. Count(consensus_output', Programs) = o
        BY <1>17, <2>3, <2>4, <3>1
      <4>2. Parts(u, c, i, o, x, y)
        BY <1>2, <1>3, <1>4, <1>6, <1>7, <2>1, <2>4, <3>1, <4>1 DEF Parts
      <4> QED
        BY <1>9, <1>10, <1>12, <2>1, <4>2
    <3>2. CASE Head(consensus_output) # "Other"
      <4>1. Head(consensus_output) \in Programs
        BY <1>17, <2>4, <3>2
      <4>2. Count(consensus_output', Programs) = o - 1 /\ o - 1 \in Nat
        BY <2>3, <2>4, <4>1
      <4>3. Len(instruction_input') = x + 1 /\ x + 1 \in Nat
        BY <1>1, <1>6, <2>4, <3>2, <4>1, AppendPlaces
      <4>4. Parts(u, c, i, o - 1, x + 1, y)
        BY <1>2, <1>3, <1>4, <1>7, <2>1, <2>4, <4>2, <4>3 DEF Parts
      <4>5. Total(u, c, i, o - 1, x + 1, y, e)
        BY <1>1, <1>9, <2>1
      <4> QED
        BY <1>10, <1>12, <2>1, <4>2, <4>3, <4>4, <4>5
    <3> QED
      BY <3>1, <3>2
  <2>5. CASE /\ consensus_output # <<>> /\ Head(consensus_output) = "KnownPeersResponse"
             /\ consensus_output' = Tail(consensus_output)
             /\ consensus_input' = Append(consensus_input, "Other")
             /\ UNCHANGED instruction_input
    <3>1. Count(consensus_output', Programs) = o
      BY <1>17, <2>3, <2>5
    <3>2. Count(consensus_input', Programs) = c
      BY <1>17, <1>18, <1>19, <2>5
    <3>3. Parts(u, c, i, o, x, y)
      BY <1>2, <1>4, <1>6, <1>7, <2>1, <2>5, <3>1, <3>2 DEF Parts
    <3> QED
      BY <1>9, <1>10, <1>12, <2>1, <3>3
  <2>6. CASE /\ consensus_output # <<>> /\ Head(consensus_output) = "GenerateSyncResponse"
             /\ consensus_output' = Tail(consensus_output)
             /\ UNCHANGED <<consensus_input, instruction_input>>
    <3>1. Count(consensus_output', Programs) = o
      BY <1>17, <2>3, <2>6
    <3>2. Parts(u, c, i, o, x, y)
      BY <1>2, <1>3, <1>4, <1>6, <1>7, <2>1, <2>6, <3>1 DEF Parts
    <3> QED
      BY <1>9, <1>10, <1>12, <2>1, <3>2
  <2> QED
    BY <1>24, <2>2, <2>4, <2>5, <2>6 DEF PollConsensus
<1>25. CASE PollTimer
  <2>1. UNCHANGED <<user_input, included, consensus_output, instruction_input,
                    instruction_output, processor, processor_input,
                    processor_output, announced, scheduled>>
    BY <1>25 DEF PollTimer, instructions, execution, user
  <2>2. Count(consensus_input', Programs) = c
    <3>1. PICK both : both = <<"CreateStandalone", "GenerateSyncRequest">>
      OBVIOUS
    <3>2. both \in Seq(GraphInputs) /\ \A n \in 1 .. Len(both) : both[n] \notin Programs
      BY <1>17, <1>19, <3>1
    <3>3. Count(consensus_input \o both, Programs) = c
      BY <1>1, <1>3, <3>2, CountConcat
    <3> QED
      BY <1>3, <1>25, <3>1, <3>3 DEF PollTimer
  <2>3. Parts(u, c, i, o, x, y)
    BY <1>2, <1>4, <1>5, <1>6, <1>7, <2>1, <2>2 DEF Parts
  <2> QED
    BY <1>9, <1>10, <1>12, <2>1, <2>3
<1>26. ASSUME NEW others, others = <<>> \/ others = <<"Other">>, OutputIncluded(others)
       PROVE  Count(included', Programs) = 0 /\ Count(consensus_output', Programs) = o + i
  <2>1. included' = <<>> /\ consensus_output' = (consensus_output \o others) \o included
    BY <1>26 DEF OutputIncluded
  <2>2. Txs \subseteq GraphOutputs /\ "Other" \in GraphOutputs
    BY DEF GraphOutputs, Txs
  <2>3. included \in Seq(GraphOutputs)
    BY <1>1, <2>2, SeqLarger
  <2>4. others \in Seq(GraphOutputs) /\ \A n \in 1 .. Len(others) : others[n] \notin Programs
    <3>1. CASE others = <<>>
      BY <3>1
    <3>2. CASE others = <<"Other">>
      BY <1>17, <2>2, <3>2
    <3> QED
      BY <1>26, <3>1, <3>2
  <2>5. PICK q : q = consensus_output \o others
    OBVIOUS
  <2>6. q \in Seq(GraphOutputs)
    BY <1>1, <2>4, <2>5, ConcatPlaces
  <2>7. Count(q, Programs) = o
    BY <1>1, <1>5, <2>4, <2>5, CountConcat
  <2>8. Count(q \o included, Programs) = o + i
    BY <1>4, <2>3, <2>6, <2>7, CountJoin
  <2> QED
    BY <2>1, <2>5, <2>8, CountEmpty
<1>27. CASE GraphReceive
  <2>1. UNCHANGED <<user_input, instruction_input, instruction_output, processor,
                    processor_input, processor_output, announced, scheduled>>
    BY <1>27 DEF GraphReceive, GraphUnchanged, instructions, execution, user
  <2>2. consensus_input # <<>> /\ consensus_input' = Tail(consensus_input)
    BY <1>27 DEF GraphReceive
  <2>3. /\ Count(consensus_input', Programs)
             = IF Head(consensus_input) \in Programs THEN c - 1 ELSE c
        /\ Head(consensus_input) \in Programs => c - 1 \in Nat
    BY <1>1, <1>3, <2>2, ReceiveCount
  <2>4. CASE /\ Head(consensus_input) \in Txs /\ Head(consensus_input) # "Other"
             /\ included' = Append(included, Head(consensus_input)) /\ UNCHANGED consensus_output
    <3>1. Head(consensus_input) \in Programs
      BY <1>17, <2>4
    <3>2. Count(consensus_input', Programs) = c - 1 /\ c - 1 \in Nat
      BY <2>3, <3>1
    <3>3. Count(included', Programs) = i + 1 /\ i + 1 \in Nat
      BY <1>1, <1>4, <2>4, <3>1, CountAppend
    <3>4. Parts(u, c - 1, i + 1, o, x, y)
      BY <1>2, <1>5, <1>6, <1>7, <2>1, <2>4, <3>2, <3>3 DEF Parts
    <3>5. Total(u, c - 1, i + 1, o, x, y, e)
      BY <1>1, <1>9, <2>1
    <3> QED
      BY <1>10, <1>12, <2>1, <3>2, <3>3, <3>4, <3>5
  <2>5. CASE /\ Head(consensus_input) = "Other" /\ UNCHANGED consensus_output
             /\ included' = included \/ included' = Append(included, "Other")
    <3>1. Count(consensus_input', Programs) = c
      BY <1>17, <2>3, <2>5
    <3>2. Count(Append(included, "Other"), Programs) = i
      BY <1>1, <1>4, <1>17, SendCount
    <3>3. Count(included', Programs) = i
      BY <1>4, <2>5, <3>2
    <3>4. Parts(u, c, i, o, x, y)
      BY <1>2, <1>5, <1>6, <1>7, <2>1, <2>5, <3>1, <3>3 DEF Parts
    <3> QED
      BY <1>9, <1>10, <1>12, <2>1, <3>4
  <2>6. CASE Head(consensus_input) = "CreateStandalone" /\ OutputIncluded(<<>>)
    <3>1. Count(consensus_input', Programs) = c
      BY <1>17, <2>3, <2>6
    <3>2. Count(included', Programs) = 0 /\ Count(consensus_output', Programs) = o + i
      BY <1>26, <2>6
    <3>3. Parts(u, c, 0, o + i, x, y)
      BY <1>2, <1>6, <1>7, <2>1, <3>1, <3>2 DEF Parts
    <3>4. Total(u, c, 0, o + i, x, y, e)
      BY <1>1, <1>9, <2>1
    <3>5. o + i \in Nat /\ 0 \in Nat
      OBVIOUS
    <3> QED
      BY <1>10, <1>12, <2>1, <3>3, <3>4, <3>5
  <2>7. CASE /\ Head(consensus_input) = "KnownPeersRequest"
             /\ consensus_output' = Append(consensus_output, "KnownPeersResponse")
             /\ UNCHANGED included
    <3>1. Count(consensus_input', Programs) = c
      BY <1>17, <2>3, <2>7
    <3>2. Count(consensus_output', Programs) = o
      BY <1>1, <1>5, <1>17, <2>7, SendCount
    <3>3. Parts(u, c, i, o, x, y)
      BY <1>2, <1>4, <1>6, <1>7, <2>1, <2>7, <3>1, <3>2 DEF Parts
    <3> QED
      BY <1>9, <1>10, <1>12, <2>1, <3>3
  <2>8. CASE /\ Head(consensus_input) \in {"ApplySync", "GenerateSyncRequest"}
             /\ UNCHANGED <<included, consensus_output>>
    <3>1. Count(consensus_input', Programs) = c
      BY <1>17, <2>3, <2>8
    <3>2. Parts(u, c, i, o, x, y)
      BY <1>2, <1>4, <1>5, <1>6, <1>7, <2>1, <2>8, <3>1 DEF Parts
    <3> QED
      BY <1>9, <1>10, <1>12, <2>1, <3>2
  <2>9. \/ Head(consensus_input) \in Txs /\ UNCHANGED consensus_output
            /\ included' = (IF Head(consensus_input) = "Other" /\ "Other" \in Range(included)
                            THEN included ELSE Append(included, Head(consensus_input)))
        \/ Head(consensus_input) = "CreateStandalone" /\ OutputIncluded(<<>>)
        \/ Head(consensus_input) = "KnownPeersRequest" /\ UNCHANGED included
            /\ consensus_output' = Append(consensus_output, "KnownPeersResponse")
        \/ Head(consensus_input) \in {"ApplySync", "GenerateSyncRequest"}
            /\ UNCHANGED <<included, consensus_output>>
    BY <1>27 DEF GraphReceive
  <2> QED
    BY <2>4, <2>5, <2>6, <2>7, <2>8, <2>9
<1>28. CASE GraphApply
  <2>1. UNCHANGED <<user_input, consensus_input, instruction_input,
                    instruction_output, processor, processor_input,
                    processor_output, announced, scheduled>>
    BY <1>28 DEF GraphApply, GraphUnchanged, instructions, execution, user
  <2>2. Count(included', Programs) = 0 /\ Count(consensus_output', Programs) = o + i
    BY <1>26, <1>28 DEF GraphApply
  <2>3. Parts(u, c, 0, o + i, x, y)
    BY <1>2, <1>3, <1>6, <1>7, <2>1, <2>2 DEF Parts
  <2>4. Total(u, c, 0, o + i, x, y, e)
    BY <1>1, <1>9, <2>1
  <2>5. o + i \in Nat /\ 0 \in Nat
    BY <1>1
  <2> QED
    BY <1>10, <1>12, <2>1, <2>3, <2>4, <2>5
<1>29. CASE GraphRespond
  <2>1. UNCHANGED <<user_input, consensus_input, included, instruction_input,
                    instruction_output, processor, processor_input,
                    processor_output, announced, scheduled>>
    BY <1>29 DEF GraphRespond, GraphUnchanged, instructions, execution, user
  <2>2. Count(consensus_output', Programs) = o
    BY <1>1, <1>5, <1>17, <1>29, SendCount, SMTT(30) DEF GraphRespond
  <2>3. Parts(u, c, i, o, x, y)
    BY <1>2, <1>3, <1>4, <1>6, <1>7, <2>1, <2>2 DEF Parts
  <2> QED
    BY <1>9, <1>10, <1>12, <2>1, <2>3
<1>30. CASE InstructionMemoryStep
  <2>1. UNCHANGED <<user_input, consensus_input, included, consensus_output,
                    processor, processor_input, processor_output, announced,
                    scheduled>>
    BY <1>30 DEF InstructionMemoryStep, consensus, execution, user
  <2>2. Len(instruction_input') = x - 1 /\ x - 1 \in Nat
    BY <1>1, <1>6, <1>30, TailPlaces DEF InstructionMemoryStep
  <2>3. Len(instruction_output') = y + 1 /\ y + 1 \in Nat
    <3>1. PICK t \in InstructionOutputs : instruction_output' = Append(instruction_output, t)
      BY <1>30 DEF InstructionMemoryStep, InstructionOutputs
    <3> QED
      BY <1>1, <1>7, <3>1, AppendPlaces
  <2>4. Parts(u, c, i, o, x - 1, y + 1)
    BY <1>2, <1>3, <1>4, <1>5, <2>1, <2>2, <2>3 DEF Parts
  <2>5. Total(u, c, i, o, x - 1, y + 1, e)
    BY <1>1, <1>9, <2>1
  <2> QED
    BY <1>10, <1>12, <2>1, <2>2, <2>3, <2>4, <2>5
<1>31. CASE ScheduleProgram
  <2>1. UNCHANGED <<consensus_input, included, consensus_output, instruction_input,
                    instruction_output, processor, processor_input,
                    processor_output, announced>>
    BY <1>31 DEF ScheduleProgram, consensus, instructions, execution
  <2>2. Count(user_input', Schedules) = u + 1 /\ u + 1 \in Nat
    BY <1>1, <1>2, <1>17, <1>31, SendCount DEF ScheduleProgram
  <2>3. Parts(u + 1, c, i, o, x, y)
    BY <1>3, <1>4, <1>5, <1>6, <1>7, <2>1, <2>2 DEF Parts
  <2>4. scheduled' = scheduled + 1
    BY <1>31 DEF ScheduleProgram
  <2>5. Total(u + 1, c, i, o, x, y, e)
    BY <1>1, <1>9, <2>1, <2>4
  <2> QED
    BY <1>10, <1>12, <2>1, <2>2, <2>3, <2>5
<1>32. CASE InitializeStorage
  <2>1. UNCHANGED <<consensus_input, included, consensus_output, instruction_input,
                    instruction_output, processor, processor_input,
                    processor_output, announced, scheduled>>
    BY <1>32 DEF InitializeStorage, consensus, instructions, execution
  <2>2. Count(user_input', Schedules) = u
    <3>1. user_input' = Append(user_input, "InitializeStorage")
      <4>1. user_input = <<>> /\ user_input' = <<"InitializeStorage">>
        BY <1>32 DEF InitializeStorage
      <4> QED
        BY <4>1
    <3> QED
      BY <1>1, <1>2, <1>17, <3>1, SendCount
  <2>3. Parts(u, c, i, o, x, y)
    BY <1>3, <1>4, <1>5, <1>6, <1>7, <2>1, <2>2 DEF Parts
  <2> QED
    BY <1>9, <1>10, <1>12, <2>1, <2>3
<1> QED
  BY <1>13, <1>14, <1>15, <1>16, <1>20, <1>21, <1>22, <1>23, <1>24, <1>25, <1>27, <1>28, <1>29,
     <1>30, <1>31, <1>32 DEF Next, MainTask, Graph, Processor

(* The invariant bounds what depends on the programs. *)
LEMMA TypeInvIsTypeOK == TypeInv => TypeOK
<1> SUFFICES ASSUME TypeInv PROVE TypeOK
  OBVIOUS
<1>1. /\ consensus_input \in Seq(GraphInputs) /\ consensus_output \in Seq(GraphOutputs)
      /\ included \in Seq(Txs)
      /\ instruction_input \in Seq(Programs) /\ instruction_output \in Seq(InstructionOutputs)
      /\ user_input \in Seq(Commands)
      /\ processor_input \in Nat /\ processor_output \in Nat /\ announced \in Nat
      /\ scheduled \in 0 .. MaxPrograms
  BY DEF TypeInv, QueuesTyped
<1>2. PICK w \in Nat : w = OnTheWay
  <2>1. /\ Count(user_input, Schedules) \in Nat /\ Count(consensus_input, Programs) \in Nat
        /\ Count(included, Programs) \in Nat /\ Count(consensus_output, Programs) \in Nat
    BY <1>1, CountType
  <2>2. Len(instruction_input) \in Nat /\ Len(instruction_output) \in Nat
    BY <1>1
  <2> QED
    BY <2>1, <2>2 DEF OnTheWay
<1>3. PICK e \in Nat : e = Executing
  BY DEF Executing
<1>4. w + (processor_input + e + processor_output) + announced = scheduled
  BY <1>2, <1>3 DEF TypeInv, ConservedInv, Taken
<1>5. /\ processor_input \in 0 .. MaxPrograms /\ processor_output \in 0 .. MaxPrograms
      /\ announced \in 0 .. scheduled
  BY <1>1, <1>4, BoundAssumption
<1>6. /\ section \in {PollOrder[i] : i \in 1 .. 7}
      /\ woken \in BOOLEAN /\ wakers \subseteq Channels
      /\ oneshot_messages \in 0 .. MaxSyncs
      /\ connected \in BOOLEAN /\ received \in 0 .. MaxSyncs
  <2>1. TaskTyped
    BY DEF TypeInv
  <2>2. section \in {PollOrder[i] : i \in 1 .. 7}
    <3>1. /\ PollOrder[1] = "network" /\ PollOrder[2] = "user" /\ PollOrder[3] = "processor"
          /\ PollOrder[4] = "instructions" /\ PollOrder[5] = "consensus" /\ PollOrder[6] = "timer"
          /\ PollOrder[7] = "parked"
      BY DEF PollOrder
    <3>2. /\ 1 \in 1 .. 7 /\ 2 \in 1 .. 7 /\ 3 \in 1 .. 7 /\ 4 \in 1 .. 7 /\ 5 \in 1 .. 7
          /\ 6 \in 1 .. 7 /\ 7 \in 1 .. 7
      OBVIOUS
    <3> QED
      BY <2>1, <3>1, <3>2 DEF TaskTyped
  <2>3. oneshot_messages \in 0 .. MaxSyncs /\ received \in 0 .. MaxSyncs
    BY <2>1, BoundAssumption DEF TaskTyped
  <2> QED
    BY <2>1, <2>2, <2>3 DEF TaskTyped
<1>7. left \in 0 .. Max /\ passed \in 0 .. Ramp /\ waited \in -1 .. Min + 1
  BY DEF TypeInv, TimerInv
<1> QED
  BY <1>1, <1>5, <1>6, <1>7 DEF TypeOK, TypeInv, TaskTyped, GraphInputs, GraphOutputs, Programs,
                                InstructionOutputs, Commands

(* The invariant is inductive. *)
LEMMA TypeInvStep ==
  /\ Init => TypeInv
  /\ TypeInv /\ [Next]_vars => TypeInv'
<1>1. Init => TypeInv
  BY TypedInit, TimerInit, ConservedInit DEF TypeInv
<1>2. TypeInv /\ [Next]_vars => TypeInv'
  BY TaskNext, QueuesNext, TimerNext, ConservedNext DEF TypeInv
<1> QED
  BY <1>1, <1>2

(* The node's state has its type; in particular no more executions are     *)
(* announced than programs were scheduled.                                 *)
THEOREM TypeCorrect == Spec => []TypeOK
BY TypeInvStep, TypeInvIsTypeOK, PTL DEF Spec

(* A program the user scheduled is always in exactly one place: a channel, *)
(* the graph wrapper's buffer, the processor, or announced. None is lost   *)
(* or executed twice, in whatever order the tasks run.                     *)
THEOREM ProgramsAreConserved == Spec => []ConservedInv
<1>1. TypeInv => ConservedInv
  BY DEF TypeInv
<1> QED
  BY <1>1, TypeInvStep, PTL DEF Spec

-----------------------------------------------------------------------------
(* Nothing is missed.                                                      *)

(* Initially the task is woken. *)
LEMMA WatchInit == Init => WatchInv
BY DEF Init, WatchInv

(* Nothing is sent if there is nothing from anybody. *)
LEMMA EmptyJoin ==
  ASSUME NEW others, others = <<>> \/ others = <<"Other">>,
         NEW S, NEW q \in Seq(S), others \o q = <<>>
  PROVE  others = <<>> /\ q = <<>>
<1>1. PICK T : T = S \cup {"Other"}
  OBVIOUS
<1>2. q \in Seq(T) /\ <<>> \in Seq(T) /\ <<"Other">> \in Seq(T)
  BY <1>1, SeqLarger
<1>3. others \in Seq(T) /\ Len(<<>>) = 0 /\ Len(<<"Other">>) = 1
  BY <1>2
<1>4. Len(others \o q) = Len(others) + Len(q) /\ Len(others) \in Nat /\ Len(q) \in Nat
  BY <1>2, <1>3, ConcatPlaces
<1>5. Len(others) = 0 /\ Len(q) = 0
  BY <1>3, <1>4
<1> QED
  BY <1>2, <1>3, <1>5

(* Whoever sends wakes the task if it is registered. *)
LEMMA WatchNext == QueuesTyped /\ WatchInv /\ [Next]_vars => WatchInv'
<1> SUFFICES ASSUME QueuesTyped, WatchInv, [Next]_vars PROVE WatchInv'
  OBVIOUS
<1> USE DEF WatchInv, AfterUser, AfterProcessor, AfterConsensus
<1>1. CASE UNCHANGED vars
  BY <1>1 DEF vars, task, consensus, execution, user
<1>2. CASE StartPoll
  BY <1>2, Sections DEF StartPoll
<1>3. CASE PollNetwork
  BY <1>3, Sections DEF PollNetwork
<1>4. CASE PollUser
  <2>1. section = "user" /\ woken' = woken /\ UNCHANGED <<consensus_output, processor_output>>
    BY <1>4 DEF PollUser, execution
  <2>2. section' = "user" \/ (section' = "processor" /\ "user" \in wakers' /\ user_input' = <<>>)
    BY <1>4, Sections DEF PollUser, Pending
  <2> QED
    BY <2>1, <2>2
<1>5. CASE PollProcessor
  <2>1. section = "processor" /\ woken' = woken /\ UNCHANGED <<consensus_output, user_input>>
    BY <1>5 DEF PollProcessor, user
  <2>2. "user" \in wakers' <=> "user" \in wakers
    BY <1>5, ResetWakers DEF PollProcessor, Pending
  <2>3. \/ section' = "processor"
        \/ section' = "instructions" /\ "processor" \in wakers' /\ processor_output' = 0
    BY <1>5, Sections DEF PollProcessor, Pending
  <2> QED
    BY <2>1, <2>2, <2>3
<1>6. CASE PollInstructions
  BY <1>6, Sections DEF PollInstructions, Pending, consensus, user
<1>7. CASE PollConsensus
  <2>1. section = "consensus" /\ woken' = woken /\ UNCHANGED <<processor_output, user_input>>
    BY <1>7 DEF PollConsensus, execution, user
  <2>2. /\ "user" \in wakers' <=> "user" \in wakers
        /\ "processor" \in wakers' <=> "processor" \in wakers
    BY <1>7, ResetWakers DEF PollConsensus, Pending
  <2>3. \/ section' = "consensus" \/ section' = "network"
        \/ section' = "timer" /\ "consensus" \in wakers' /\ consensus_output' = <<>>
    BY <1>7, Sections DEF PollConsensus, Pending
  <2> QED
    BY <2>1, <2>2, <2>3
<1>8. CASE PollTimer
  BY <1>8, Sections DEF PollTimer, execution, user
<1>9. CASE Graph
  <2>1. UNCHANGED <<section, user_input, processor_output>>
    BY <1>9 DEF Graph, GraphReceive, GraphApply, GraphGenerate, GraphRespond, GraphUnchanged,
                execution, user
  <2>2. \/ UNCHANGED <<woken, wakers, consensus_output>>
        \/ Wake("consensus")
    <3>1. ASSUME NEW others, others = <<>> \/ others = <<"Other">>, OutputIncluded(others)
          PROVE  UNCHANGED <<woken, wakers, consensus_output>> \/ Wake("consensus")
      <4>1. consensus_output \in Seq(GraphOutputs) /\ included \in Seq(Txs)
        BY DEF QueuesTyped
      <4>2. CASE others \o included = <<>>
        <5>1. others = <<>> /\ included = <<>>
          BY <3>1, <4>1, <4>2, EmptyJoin
        <5>2. (consensus_output \o <<>>) \o <<>> = consensus_output
          BY <4>1
        <5> QED
          BY <3>1, <4>2, <5>1, <5>2 DEF OutputIncluded
      <4>3. CASE others \o included # <<>>
        BY <3>1, <4>3 DEF OutputIncluded
      <4> QED
        BY <4>2, <4>3
    <3>2. CASE GraphReceive
      BY <3>1, <3>2 DEF GraphReceive
    <3>3. CASE GraphApply
      BY <3>1, <3>3 DEF GraphApply
    <3>4. CASE GraphGenerate \/ GraphRespond
      BY <3>4 DEF GraphGenerate, GraphRespond
    <3> QED
      BY <1>9, <3>2, <3>3, <3>4 DEF Graph
  <2> QED
    BY <2>1, <2>2 DEF Wake
<1>10. CASE InstructionMemoryStep
  BY <1>10 DEF InstructionMemoryStep, Wake, consensus, execution, user
<1>11. CASE Processor
  BY <1>11 DEF Processor, ProcessorReceive, ProcessorSend, ProcessorReady, ProcessorUnchanged,
               Wake, consensus, user
<1>12. CASE ScheduleProgram \/ InitializeStorage
  BY <1>12 DEF ScheduleProgram, InitializeStorage, Wake, consensus, execution
<1>13. CASE ReceiveSync \/ ConnectionEstablished \/ MdnsQuery
  BY <1>13 DEF ReceiveSync, ConnectionEstablished, MdnsQuery
<1>14. CASE Tick
  BY <1>14 DEF Tick, Wake, consensus, execution, user
<1> QED
  BY <1>1, <1>2, <1>3, <1>4, <1>5, <1>6, <1>7, <1>8, <1>9, <1>10, <1>11, <1>12, <1>13, <1>14
     DEF Next, MainTask

(* The main task never sleeps over a command of the user, a finished       *)
(* program or output of the graph wrapper, although it registers with one  *)
(* channel after the other while the modules go on sending.                *)
THEOREM SleepsOverNothing == Spec => []NothingIsMissed
<1>1. WatchInv => NothingIsMissed
  BY DEF WatchInv, NothingIsMissed, AfterUser, AfterProcessor, AfterConsensus
<1> QED
  BY <1>1, TypedInit, TaskNext, QueuesNext, WatchInit, WatchNext, PTL DEF Spec

=============================================================================
