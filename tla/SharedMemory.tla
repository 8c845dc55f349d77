---------------------------- MODULE SharedMemory ----------------------------
(***************************************************************************)
(* What the swarm promises the users of its storage: a memory whose cells  *)
(* are written once and whose content is kept in N parts. Users are told   *)
(* that a cell is stored only when all N parts are (that each is told once *)
(* is ConfirmedOnce of DataMemory), and reads get its content as soon as   *)
(* K parts are stored. DataMemory implements this as long as every address *)
(* is put once and no program runs.                                        *)
(***************************************************************************)
EXTENDS Integers, FiniteSets

CONSTANTS
  Peers,     \* the nodes, each with a user
  Vids,      \* the cells
  Values,    \* what may be written
  K, N,      \* parts that are enough, and parts in all
  Empty      \* the content of a cell before it is written

VARIABLES
  content,   \* cell -> value
  stored,    \* cell -> the parts of it that are stored
  confirmed, \* the pairs <<peer, cell>> of what users were told is stored
  answers    \* the triples <<peer, cell, value>> of what users have read

vars == <<content, stored, confirmed, answers>>

Parts == 0 .. N - 1

Init ==
  /\ content = [v \in Vids |-> Empty]
  /\ stored = [v \in Vids |-> {}]
  /\ confirmed = {} /\ answers = {}

Write(v, d) ==
  /\ content[v] = Empty
  /\ content' = [content EXCEPT ![v] = d]
  /\ UNCHANGED <<stored, confirmed, answers>>

Store(v, s) ==
  /\ content[v] # Empty
  /\ stored' = [stored EXCEPT ![v] = @ \cup {s}]
  /\ UNCHANGED <<content, confirmed, answers>>

Confirm(p, v) ==
  /\ stored[v] = Parts
  /\ confirmed' = confirmed \cup {<<p, v>>}
  /\ UNCHANGED <<content, stored, answers>>

Answer(p, v) ==
  /\ Cardinality(stored[v]) >= K
  /\ answers' = answers \cup {<<p, v, content[v]>>}
  /\ UNCHANGED <<content, stored, confirmed>>

Next == \E v \in Vids :
  \/ \E d \in Values : Write(v, d)
  \/ \E s \in Parts : Store(v, s)
  \/ \E p \in Peers : Confirm(p, v) \/ Answer(p, v)

Spec == Init /\ [][Next]_vars

=============================================================================
