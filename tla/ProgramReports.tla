--------------------------- MODULE ProgramReports ---------------------------
(***************************************************************************)
(* What the swarm promises the users who schedule programs: peers execute  *)
(* programs at any time, and each user is told of a program once, after    *)
(* enough peers executed it. ProgramExecution implements this.             *)
(***************************************************************************)
EXTENDS Integers, Sequences, FiniteSets

CONSTANTS
  Peers,      \* the nodes, each with a user
  Threshold   \* how many executions are enough

VARIABLES
  executions, \* the pairs <<peer, program>> of what was executed
  told        \* peer -> the programs its user was told of, in order

vars == <<executions, told>>

Executors(id) == {p \in Peers : <<p, id>> \in executions}

Init ==
  /\ executions = {}
  /\ told = [p \in Peers |-> <<>>]

(* A peer executes some program. *)
Execute(p) ==
  /\ \E e \in executions' : e[1] = p /\ executions' = executions \cup {e}
  /\ UNCHANGED told

(* The user of a peer is told of one more program. *)
Tell(p) ==
  \E i \in 1 .. Len(told'[p]) :
    LET id == told'[p][i]
    IN  /\ told' = [told EXCEPT ![p] = Append(@, id)]
        /\ Cardinality(Executors(id)) >= Threshold
        /\ \A j \in 1 .. Len(told[p]) : told[p][j] # id
        /\ UNCHANGED executions

Next == \E p \in Peers : Execute(p) \/ Tell(p)

Spec == Init /\ [][Next]_vars

=============================================================================
