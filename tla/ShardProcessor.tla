--------------------------- MODULE ShardProcessor ---------------------------
(***************************************************************************)
(* What the processors compute. Every peer executes a program on its       *)
(* shards of the data alone (processor/single_threaded.rs). The reference  *)
(* is the processor that executes it on the data itself                    *)
(* (processor/mock.rs), which the user can ask for the expected output     *)
(* (ui.rs).                                                                *)
(*                                                                         *)
(* Simplification: memory-bus requests are answered at once, and nothing   *)
(* else writes meanwhile (see DataMemory for what may).                    *)
(***************************************************************************)
EXTENDS ErasureCode

CONSTANTS
  Vids,       \* data ids
  Programs,   \* Instructions: sequences of [operation, args, result]
  DataValues, \* bound: what the data may be
  None        \* no such entry

ASSUME DataAssumption == DataValues \subseteq [1 .. K -> Bytes]
ASSUME NoneAssumption ==
  /\ \A b \in Bytes : b # None
  /\ \A value \in [1 .. K -> Bytes] : value # None
  /\ None \notin Vids

(* Instruction: an operation on one or two data ids, and the id of its     *)
(* result. args_as_list gives the operands.                                *)
Instructions ==
  [operation : {"Plus", "Sub", "Nand", "Nor"}, args : Vids \X Vids, result : Vids]
    \cup [operation : {"Inv"}, args : [1 .. 1 -> Vids], result : Vids]

ASSUME ProgramAssumption == Programs \subseteq Seq(Instructions)

VARIABLES
  data,       \* vid -> what was put, or None
  program,    \* the program all peers execute
  late,       \* the shard that was not distributed in time, <<sid, vid>>, or None
  memory,     \* sid -> vid -> the shard stored by the peer
  context,    \* sid -> vid -> shard
  next        \* sid -> 0 before the program, the number of the instruction
              \* that comes next, Len(program) + 2 when results are saved

vars == <<data, program, late, memory, context, next>>

Done(s) == next[s] = Len(program) + 2

TypeOK ==
  /\ data \in [Vids -> DataValues \cup {None}]
  /\ program \in Programs
  /\ late \in (Sids \X Vids) \cup {None}
  /\ memory \in [Sids -> [Vids -> {None} \cup Bytes]]
  /\ context \in [Sids -> [Vids -> {None} \cup Bytes]]
  /\ next \in [Sids -> 0 .. Len(program) + 2]

-----------------------------------------------------------------------------
(* The mock processor.                                                     *)

mock_calculate(instruction, args) ==
  LET bytes(operation(_, _)) == [d \in 1 .. K |-> operation(args[1][d], args[2][d])]
  IN  CASE instruction.operation \in {"Plus", "Sub"} -> bytes(add)
        [] instruction.operation = "Inv" -> args[1]
        [] instruction.operation = "Nand" -> bytes(LAMBDA a, b : IF a = Zero \/ b = Zero THEN One ELSE Zero)
        [] instruction.operation = "Nor" -> bytes(LAMBDA a, b : IF a = Zero /\ b = Zero THEN One ELSE Zero)

Available(storage, instruction) ==
  \A i \in DOMAIN instruction.args : storage[instruction.args[i]] # None
Operands(storage, instruction) ==
  [i \in DOMAIN instruction.args |-> storage[instruction.args[i]]]

(* MockProcessor::execute_on: the storage after so many instructions, or   *)
(* None from the first one on that lacks an operand.                       *)
execute_on ==
  LET storage[i \in 0 .. Len(program)] ==
        IF i = 0 THEN data
        ELSE IF storage[i - 1] = None THEN None
        ELSE IF Available(storage[i - 1], program[i])
        THEN [storage[i - 1] EXCEPT ![program[i].result] =
                mock_calculate(program[i], Operands(storage[i - 1], program[i]))]
        ELSE None
  IN  storage

-----------------------------------------------------------------------------
(* The shard processor of one peer.                                        *)

calculate_integer(instruction, args) ==
  LET number(a) == MapThenSumSet(LAMBDA i : 2^i, a)
  IN  IF instruction.operation = "Plus"
      THEN {i \in 0 .. 8 : ((number(args[1]) + number(args[2])) \div 2^i) % 2 = 1}
      ELSE args[1]
calculate(instruction, args) ==
  CASE instruction.operation \in {"Plus", "Sub"} -> add(args[1], args[2])
    [] instruction.operation = "Inv" -> args[1]
    [] instruction.operation = "Nand" -> IF args[1] # Zero /\ args[2] # Zero THEN Zero ELSE One
    [] instruction.operation = "Nor" -> IF args[1] # Zero \/ args[2] # Zero THEN Zero ELSE One

(* retrieve_operand: the context goes before the memory. *)
retrieve_operand_memory_first(s, v) == IF memory[s][v] # None THEN memory[s][v] ELSE context[s][v]
retrieve_operand(s, v) == IF context[s][v] # None THEN context[s][v] ELSE memory[s][v]

(* prepare_context: what is missing is left out. *)
prepare_context(s) ==
  /\ next[s] = 0
  /\ LET needed_ids == UNION {Range(program[i].args) : i \in 1 .. Len(program)}
     IN  context' = [context EXCEPT ![s] =
                       [v \in Vids |-> IF v \in needed_ids THEN memory[s][v] ELSE None]]
  /\ next' = [next EXCEPT ![s] = 1]
  /\ UNCHANGED <<data, program, late, memory>>

(* An instruction without its operands is skipped; the others go on. *)
execute_instruction(s) ==
  /\ next[s] \in 1 .. Len(program)
  /\ LET instruction == program[next[s]]
         operands == [v \in Vids |-> retrieve_operand(s, v)]
     IN  IF Available(operands, instruction)
         THEN context' = [context EXCEPT ![s][instruction.result] =
                            calculate(instruction, Operands(operands, instruction))]
         ELSE UNCHANGED context
  /\ next' = [next EXCEPT ![s] = @ + 1]
  /\ UNCHANGED <<data, program, late, memory>>

(* All of the context is stored, prefetched operands too. *)
save_results_first(s) ==
  /\ next[s] = Len(program) + 1
  /\ memory' = [memory EXCEPT ![s] = [v \in Vids |-> IF @[v] = None THEN context[s][v] ELSE @[v]]]
  /\ next' = [next EXCEPT ![s] = @ + 1]
  /\ UNCHANGED <<data, program, late, context>>
save_results(s) ==
  /\ next[s] = Len(program) + 1
  /\ memory' = [memory EXCEPT ![s] = [v \in Vids |-> IF context[s][v] = None THEN @[v]
                                                     ELSE context[s][v]]]
  /\ next' = [next EXCEPT ![s] = @ + 1]
  /\ UNCHANGED <<data, program, late, context>>

-----------------------------------------------------------------------------
(* Some data was put and distributed; one peer may not have got one of its *)
(* shards yet.                                                             *)
Init ==
  /\ data \in [Vids -> DataValues \cup {None}]
  /\ program \in Programs
  /\ late \in (Sids \X Vids) \cup {None}
  /\ memory = [s \in Sids |-> [v \in Vids |->
                 IF data[v] = None \/ late = <<s, v>> THEN None ELSE encode(data[v])[s]]]
  /\ context = [s \in Sids |-> [v \in Vids |-> None]]
  /\ next = [s \in Sids |-> 0]

Next == \E s \in Sids : prepare_context(s) \/ execute_instruction(s) \/ save_results(s)

Spec == Init /\ [][Next]_vars

-----------------------------------------------------------------------------
(* Properties.                                                             *)

(* The peers whose shards were distributed in time. *)
Complete == {s \in Sids : \A v \in Vids : late # <<s, v>>}

(* The shards of these peers decode to what the mock processor has after n *)
(* instructions.                                                           *)
Expected(shard, peers, n) ==
  LET storage == execute_on[n]
  IN  storage # None =>
        \A v \in Vids : (\A s \in peers : shard[s][v] # None) =>
          decode([s \in peers |-> shard[s][v]]) = storage[v]

(* Executing on shards and executing on the data are the same: whenever    *)
(* two peers are at the same instruction, their contexts decode to what    *)
(* the mock processor has there, with the results of earlier instructions. *)
ContextsDecodeToExpected == \A peers \in kSubset(K, Sids) :
  (\E n \in 1 .. Len(program) + 1 : \A s \in peers : next[s] = n /\ s \in Complete) =>
    Expected(context, peers, next[Min(peers)] - 1)

(* The data any two peers return after the program is the expected output  *)
(* of the user interface, although each computed alone.                    *)
RecollectedIsExpected == \A peers \in kSubset(K, Sids) :
  (\A s \in peers : Done(s) /\ s \in Complete) =>
    /\ Expected(memory, peers, Len(program))
    /\ execute_on[Len(program)] # None =>
         \A s \in peers, v \in Vids :
           execute_on[Len(program)][v] # None => memory[s][v] # None

=============================================================================
