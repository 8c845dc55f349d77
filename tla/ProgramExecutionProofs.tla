----------------------- MODULE ProgramExecutionProofs -----------------------
(* Theorems about program execution, for any number of peers, programs,    *)
(* commanders, links and losses, and any threshold.                        *)
EXTENDS ProgramExecution, FiniteSetTheorems, TLAPS

-----------------------------------------------------------------------------
(* Type correctness.                                                       *)

Events == [txs : Seq(Transactions), parents : [Peers -> Nat]]
Buffers == [author : Peers \cup {NoPeer}, txs : Seq(Transactions), hash : EventHashes]

(* Graphs, and gossip messages, refer to events that exist. *)
KnownExist ==
  /\ \A p, a \in Peers : /\ known[p][a] <= Len(events[a])
                         /\ recognized[p][a] <= known[p][a]
  /\ \A p, q, a \in Peers : sync[p][q] # NoSync => sync[p][q][a] <= Len(events[a])

(* Recorded events carry transactions, and what is left of one has an author. *)
EventsCarry ==
  /\ \A a \in Peers : \A n \in 1 .. Len(events[a]) : events[a][n].txs # <<>>
  /\ \A p \in Peers : LET buffer == recognized_transaction_buffer[p]
                      IN  buffer.txs # <<>> => buffer.author \in Peers

TypeInv == TypeOK /\ KnownExist /\ EventsCarry

(* Updating a map. *)
LEMMA UpdateType ==
  ASSUME NEW A, NEW D, NEW f \in [A -> D], NEW x \in A, NEW d \in D
  PROVE  [f EXCEPT ![x] = d] \in [A -> D]
OBVIOUS

(* Putting a message into a channel. *)
LEMMA SyncUpdate ==
  ASSUME NEW A, NEW D, NEW f \in [A -> [A -> D]], NEW x \in A, NEW y \in A, NEW d \in D
  PROVE  [f EXCEPT ![x][y] = d] \in [A -> [A -> D]]
OBVIOUS

(* Adding to one of several queues. *)
LEMMA EnqueueCases ==
  ASSUME NEW A, NEW S, NEW f \in [A -> Seq(S)], NEW x \in A, NEW e,
         NEW y \in A, NEW i \in 1 .. Len([f EXCEPT ![x] = Append(f[x], e)][y])
  PROVE  \/ /\ i \in 1 .. Len(f[y])
            /\ [f EXCEPT ![x] = Append(f[x], e)][y][i] = f[y][i]
         \/ /\ y = x /\ i = Len(f[x]) + 1
            /\ [f EXCEPT ![x] = Append(f[x], e)][y][i] = e
<1>1. f[x] \in Seq(S) /\ f[y] \in Seq(S)
  OBVIOUS
<1>2. CASE y = x
  <2>1. [f EXCEPT ![x] = Append(f[x], e)][y] = Append(f[x], e)
    BY <1>2
  <2>2. i \in 1 .. Len(Append(f[x], e))
    BY <2>1
  <2>3. Len(Append(f[x], e)) = Len(f[x]) + 1 /\ Len(f[x]) \in Nat
    BY <1>1
  <2>4. i \in 1 .. Len(f[x]) \/ i = Len(f[x]) + 1
    BY <2>2, <2>3
  <2>5. /\ i \in 1 .. Len(f[x]) => Append(f[x], e)[i] = f[x][i]
        /\ Append(f[x], e)[Len(f[x]) + 1] = e
    BY <1>1
  <2> QED
    BY <1>2, <2>1, <2>4, <2>5
<1>3. CASE y # x
  BY <1>3
<1> QED
  BY <1>2, <1>3

(* Tail and head of a non-empty sequence. *)
LEMMA TailType ==
  ASSUME NEW S, NEW s \in Seq(S), s # <<>>
  PROVE  /\ Head(s) \in S /\ Tail(s) \in Seq(S) /\ Len(s) >= 1
         /\ Len(Tail(s)) = Len(s) - 1
         /\ Head(s) = s[1]
         /\ \A i \in 1 .. Len(Tail(s)) : i + 1 \in 1 .. Len(s) /\ Tail(s)[i] = s[i + 1]
OBVIOUS

(* The two kinds of transactions. *)
LEMMA TransactionTypes ==
  ASSUME NEW tx \in Transactions
  PROVE  /\ tx.type = "Execute" => tx.instructions \in Programs
         /\ tx.type = "Executed" => tx.program_id \in Identifiers
BY DEF Transactions

(* Tracking a transaction keeps the instruction memory typed. *)
LEMMA HandleType ==
  ASSUME TypeOK, NEW p \in Peers, NEW from \in Peers, NEW tx \in Transactions,
         NEW hash \in EventHashes, handle_tx(p, from, tx, hash)
  PROVE  /\ currently_executed' \in [Peers -> SUBSET Identifiers]
         /\ peers_finished' \in [Peers -> SUBSET (Peers \X Identifiers)]
         /\ finished' \in [Peers -> SUBSET Identifiers]
         /\ output' \in [Peers -> Seq(OutEvents)]
         /\ ignored' \in [Peers -> SUBSET (Peers \X Identifiers)]
<1>0. /\ currently_executed \in [Peers -> SUBSET Identifiers]
      /\ peers_finished \in [Peers -> SUBSET (Peers \X Identifiers)]
      /\ finished \in [Peers -> SUBSET Identifiers]
      /\ output \in [Peers -> Seq(OutEvents)]
      /\ ignored \in [Peers -> SUBSET (Peers \X Identifiers)]
  BY DEF TypeOK
<1>1. ASSUME NEW id \in Identifiers, FinalizedProgram(p, id)
      PROVE  /\ currently_executed' \in [Peers -> SUBSET Identifiers]
             /\ output' \in [Peers -> Seq(OutEvents)]
             /\ UNCHANGED <<peers_finished, finished, ignored>>
  <2>1. [type |-> "NextProgram", id |-> id] \in OutEvents
    BY DEF OutEvents
  <2>2. Append(output[p], [type |-> "NextProgram", id |-> id]) \in Seq(OutEvents)
    BY <1>0, <2>1
  <2>3. output' = [output EXCEPT ![p] = Append(output[p], [type |-> "NextProgram", id |-> id])]
    BY <1>1 DEF FinalizedProgram
  <2>4. output' \in [Peers -> Seq(OutEvents)]
    BY <1>0, <2>2, <2>3
  <2>5. currently_executed' = [currently_executed EXCEPT ![p] = currently_executed[p] \cup {id}]
    BY <1>1 DEF FinalizedProgram
  <2>6. currently_executed' \in [Peers -> SUBSET Identifiers]
    <3>1. currently_executed[p] \cup {id} \in SUBSET Identifiers
      BY <1>0
    <3> QED
      BY <1>0, <2>5, <3>1, UpdateType
  <2> QED
    BY <1>1, <2>4, <2>6 DEF FinalizedProgram
<1>2. ASSUME NEW id \in Identifiers, ExecutedProgram(p, from, id)
      PROVE  /\ UNCHANGED currently_executed
             /\ peers_finished' \in [Peers -> SUBSET (Peers \X Identifiers)]
             /\ finished' \in [Peers -> SUBSET Identifiers]
             /\ output' \in [Peers -> Seq(OutEvents)]
             /\ ignored' \in [Peers -> SUBSET (Peers \X Identifiers)]
  <2> DEFINE act == [type |-> "PeerShardsActualized", peer |-> from, id |-> id]
             fin == [type |-> "FinishedExecution", id |-> id]
  <2>1. act \in OutEvents /\ fin \in OutEvents
    BY DEF OutEvents
  <2>2. output[p] \o <<fin, act>> \in Seq(OutEvents) /\ Append(output[p], act) \in Seq(OutEvents)
    <3> HIDE DEF act, fin
    <3>1. output[p] \in Seq(OutEvents)
      BY <1>0
    <3>2. <<fin, act>> \in Seq(OutEvents)
      BY <2>1
    <3> QED
      BY <2>1, <3>1, <3>2
  <2>3. output' \in [Peers -> Seq(OutEvents)]
    <3>1. \/ output' = output
          \/ output' = [output EXCEPT ![p] = output[p] \o <<fin, act>>]
          \/ output' = [output EXCEPT ![p] = Append(output[p], act)]
      BY <1>2 DEF ExecutedProgram
    <3> HIDE DEF act, fin
    <3> QED
      BY <1>0, <2>2, <3>1
  <2>4. \/ finished' = finished
        \/ finished' = [finished EXCEPT ![p] = finished[p] \cup {id}]
    BY <1>2 DEF ExecutedProgram
  <2>5. \/ ignored' = ignored
        \/ ignored' = [ignored EXCEPT ![p] = ignored[p] \cup {<<from, id>>}]
    BY <1>2 DEF ExecutedProgram
  <2>6. \/ peers_finished' = peers_finished
        \/ peers_finished' = [peers_finished EXCEPT ![p] = peers_finished[p] \cup {<<from, id>>}]
        \/ peers_finished' = [peers_finished EXCEPT ![p] = {f \in peers_finished[p] : f[2] # id}]
    BY <1>2 DEF ExecutedProgram
  <2>7. finished' \in [Peers -> SUBSET Identifiers]
    <3>1. finished[p] \cup {id} \in SUBSET Identifiers
      BY <1>0
    <3> QED
      BY <1>0, <2>4, <3>1, UpdateType
  <2>8. ignored' \in [Peers -> SUBSET (Peers \X Identifiers)]
    <3>1. ignored[p] \cup {<<from, id>>} \in SUBSET (Peers \X Identifiers)
      BY <1>0
    <3> QED
      BY <1>0, <2>5, <3>1, UpdateType
  <2>9. peers_finished' \in [Peers -> SUBSET (Peers \X Identifiers)]
    <3>1. /\ peers_finished[p] \cup {<<from, id>>} \in SUBSET (Peers \X Identifiers)
          /\ {f \in peers_finished[p] : f[2] # id} \in SUBSET (Peers \X Identifiers)
      BY <1>0
    <3> QED
      <4>1. CASE peers_finished' = peers_finished
        BY <1>0, <4>1
      <4>2. CASE peers_finished' = [peers_finished EXCEPT ![p] = peers_finished[p] \cup {<<from, id>>}]
        BY <1>0, <3>1, <4>2, UpdateType
      <4>3. CASE peers_finished' = [peers_finished EXCEPT ![p] = {f \in peers_finished[p] : f[2] # id}]
        BY <1>0, <3>1, <4>3, UpdateType
      <4> QED
        BY <2>6, <4>1, <4>2, <4>3
  <2>10. UNCHANGED currently_executed
    BY <1>2 DEF ExecutedProgram
  <2> QED
    BY <2>3, <2>7, <2>8, <2>9, <2>10
<1>3. CASE tx.type = "Execute"
  <2>1. [hash |-> tx.instructions, event_hash |-> hash] \in Identifiers
    BY <1>3, TransactionTypes DEF Identifiers
  <2> QED
    BY <1>0, <1>1, <1>3, <2>1 DEF handle_tx
<1>4. CASE tx.type = "Executed"
  BY <1>0, <1>2, <1>4, TransactionTypes DEF handle_tx
<1> QED
  BY <1>3, <1>4 DEF handle_tx

(* A new event: graphs only grow, the events there are stay as they are,   *)
(* the new one holds what was scheduled, and nothing else is created.      *)
EventCreated(p, parents) ==
  /\ included_transaction_buffer' \in [Peers -> Seq(Transactions)]
  /\ \A q \in Peers : included_transaction_buffer'[q] \in {included_transaction_buffer[q], <<>>}
  /\ events' \in [Peers -> Seq(Events)]
  /\ known' \in [Peers -> [Peers -> Nat]]
  /\ \A a \in Peers : /\ Len(events[a]) <= Len(events'[a])
                      /\ known[p][a] <= known'[p][a]
                      /\ known'[p][a] <= Len(events'[a])
  /\ \A q \in Peers \ {p} : known'[q] = known[q]
  /\ \A a \in Peers : \A n \in 1 .. Len(events[a]) : events'[a][n] = events[a][n]
  /\ \A a \in Peers : \A n \in 1 .. Len(events'[a]) : n \notin 1 .. Len(events[a]) =>
       /\ a = p /\ events'[a][n].txs = included_transaction_buffer[p]
       /\ events'[a][n].parents = parents
       /\ included_transaction_buffer[p] # <<>>

(* What create_event does to the events and to who knows them. *)
LEMMA CreateEvent ==
  ASSUME TypeOK, NEW p \in Peers, NEW parents \in [Peers -> Nat], create_event(p, parents),
         \A a \in Peers : known[p][a] <= parents[a] /\ parents[a] <= Len(events[a])
  PROVE  EventCreated(p, parents)
<1> DEFINE txs == included_transaction_buffer[p]
           event == [txs |-> txs, parents |-> parents]
<1>1. /\ included_transaction_buffer \in [Peers -> Seq(Transactions)]
      /\ events \in [Peers -> Seq(Events)]
      /\ known \in [Peers -> [Peers -> Nat]]
  BY DEF TypeOK, Events
<1>2. CASE txs = <<>>
  <2>1. /\ known' = [known EXCEPT ![p] = parents]
        /\ UNCHANGED <<included_transaction_buffer, events>>
    BY <1>2 DEF create_event
  <2> QED
    BY <1>1, <2>1 DEF EventCreated
<1>3. CASE txs # <<>>
  <2>1. /\ included_transaction_buffer' = [included_transaction_buffer EXCEPT ![p] = <<>>]
        /\ events' = [events EXCEPT ![p] = Append(events[p], event)]
        /\ known' = [known EXCEPT ![p] = [parents EXCEPT ![p] = parents[p] + 1]]
    BY <1>3 DEF create_event
  <2>2. event \in Events /\ event.txs = txs /\ event.parents = parents
    BY <1>1 DEF Events
  <2> HIDE DEF event
  <2>3. /\ Append(events[p], event) \in Seq(Events)
        /\ Len(Append(events[p], event)) = Len(events[p]) + 1
        /\ \A n \in 1 .. Len(events[p]) : Append(events[p], event)[n] = events[p][n]
        /\ Append(events[p], event)[Len(events[p]) + 1] = event
    BY <1>1, <2>2
  <2>4. <<>> \in Seq(Transactions)
    OBVIOUS
  <2>5. [parents EXCEPT ![p] = parents[p] + 1] \in [Peers -> Nat]
    OBVIOUS
  <2>6. /\ included_transaction_buffer' \in [Peers -> Seq(Transactions)]
        /\ events' \in [Peers -> Seq(Events)]
        /\ known' \in [Peers -> [Peers -> Nat]]
    BY <1>1, <2>1, <2>3, <2>4, <2>5, UpdateType
  <2>7. \A a \in Peers : /\ Len(events[a]) <= Len(events'[a])
                         /\ known[p][a] <= known'[p][a]
                         /\ known'[p][a] <= Len(events'[a])
    <3> SUFFICES ASSUME NEW a \in Peers
                 PROVE  /\ Len(events[a]) <= Len(events'[a])
                        /\ known[p][a] <= known'[p][a]
                        /\ known'[p][a] <= Len(events'[a])
      OBVIOUS
    <3>1. Len(events[a]) \in Nat /\ known[p][a] \in Nat /\ parents[a] \in Nat
      BY <1>1
    <3>2. CASE a = p
      BY <1>1, <2>1, <2>3, <3>1, <3>2
    <3>3. CASE a # p
      BY <1>1, <2>1, <3>1, <3>3
    <3> QED
      BY <3>2, <3>3
  <2>8. \A a \in Peers : \A n \in 1 .. Len(events[a]) : events'[a][n] = events[a][n]
    BY <1>1, <2>1, <2>3
  <2>9. \A a \in Peers : \A n \in 1 .. Len(events'[a]) : n \notin 1 .. Len(events[a]) =>
              a = p /\ events'[a][n] = event
    <3> SUFFICES ASSUME NEW a \in Peers, NEW n \in 1 .. Len(events'[a]), n \notin 1 .. Len(events[a])
                 PROVE  a = p /\ events'[a][n] = event
      OBVIOUS
    <3>1. a = p
      BY <1>1, <2>1
    <3>2. Len(events[p]) \in Nat /\ events'[p] = Append(events[p], event)
      BY <1>1, <2>1
    <3>3. n = Len(events[p]) + 1
      BY <2>3, <3>1, <3>2
    <3> QED
      BY <2>3, <3>1, <3>2, <3>3
  <2>10. /\ \A q \in Peers \ {p} : known'[q] = known[q]
         /\ \A q \in Peers : included_transaction_buffer'[q] \in
              {included_transaction_buffer[q], <<>>}
    BY <1>1, <2>1
  <2> QED
    BY <1>3, <2>2, <2>6, <2>7, <2>8, <2>9, <2>10 DEF EventCreated
<1> QED
  BY <1>2, <1>3

(* Creating an event keeps the graph typed, and makes no reference dangle. *)
LEMMA CreateEventType ==
  ASSUME TypeInv, NEW p \in Peers, NEW parents \in [Peers -> Nat], create_event(p, parents),
         \A a \in Peers : known[p][a] <= parents[a] /\ parents[a] <= Len(events[a]),
         UNCHANGED <<recognized, recognized_transaction_buffer>>
  PROVE  /\ included_transaction_buffer' \in [Peers -> Seq(Transactions)]
         /\ events' \in [Peers -> Seq(Events)]
         /\ known' \in [Peers -> [Peers -> Nat]]
         /\ \A q, a \in Peers : /\ known'[q][a] <= Len(events'[a])
                                /\ recognized'[q][a] <= known'[q][a]
         /\ \A a \in Peers : Len(events[a]) \in Nat /\ Len(events'[a]) \in Nat
         /\ \A a \in Peers : Len(events[a]) <= Len(events'[a])
         /\ EventsCarry'
<1>1. TypeOK /\ KnownExist /\ EventsCarry
  BY DEF TypeInv
<1>2. /\ known \in [Peers -> [Peers -> Nat]] /\ recognized \in [Peers -> [Peers -> Nat]]
      /\ events \in [Peers -> Seq(Events)]
  BY <1>1 DEF TypeOK, Events
<1>3. /\ included_transaction_buffer' \in [Peers -> Seq(Transactions)]
      /\ events' \in [Peers -> Seq(Events)]
      /\ known' \in [Peers -> [Peers -> Nat]]
      /\ \A a \in Peers : /\ Len(events[a]) <= Len(events'[a])
                          /\ known[p][a] <= known'[p][a]
                          /\ known'[p][a] <= Len(events'[a])
      /\ \A q \in Peers \ {p} : known'[q] = known[q]
      /\ \A a \in Peers : \A n \in 1 .. Len(events[a]) : events'[a][n] = events[a][n]
      /\ \A a \in Peers : \A n \in 1 .. Len(events'[a]) : n \notin 1 .. Len(events[a]) =>
           events'[a][n].txs = included_transaction_buffer[p] /\ included_transaction_buffer[p] # <<>>
  <2>1. EventCreated(p, parents)
    BY <1>1, CreateEvent
  <2> QED
    BY <2>1 DEF EventCreated
<1>4. events \in [Peers -> Seq(Events)] /\ events' \in [Peers -> Seq(Events)]
  BY <1>2, <1>3
<1>5. \A a \in Peers : Len(events[a]) \in Nat /\ Len(events'[a]) \in Nat
  BY <1>4
<1>6. \A q, a \in Peers : /\ known'[q][a] <= Len(events'[a])
                          /\ recognized'[q][a] <= known'[q][a]
  <2> SUFFICES ASSUME NEW q \in Peers, NEW a \in Peers
               PROVE  /\ known'[q][a] <= Len(events'[a])
                      /\ recognized'[q][a] <= known'[q][a]
    OBVIOUS
  <2>1. known \in [Peers -> [Peers -> Nat]] /\ known' \in [Peers -> [Peers -> Nat]]
    BY <1>2, <1>3
  <2>2. /\ known[q][a] \in Nat /\ known'[q][a] \in Nat /\ recognized[q][a] \in Nat
        /\ Len(events[a]) \in Nat /\ Len(events'[a]) \in Nat
    BY <1>2, <1>5, <2>1
  <2>3. known[q][a] <= Len(events[a]) /\ recognized[q][a] <= known[q][a]
    BY <1>1 DEF KnownExist
  <2>4. Len(events[a]) <= Len(events'[a])
    BY <1>3
  <2>5. CASE q = p
    <3>1. known[q][a] <= known'[q][a] /\ known'[q][a] <= Len(events'[a])
      BY <1>3, <2>5
    <3> QED
      BY <2>2, <2>3, <3>1
  <2>6. CASE q # p
    <3>1. known'[q] = known[q]
      BY <1>3, <2>6
    <3> QED
      BY <2>2, <2>3, <2>4, <3>1
  <2> QED
    BY <2>5, <2>6
<1>7. EventsCarry'
  <2>1. \A a \in Peers : \A n \in 1 .. Len(events'[a]) : events'[a][n].txs # <<>>
    <3> SUFFICES ASSUME NEW a \in Peers, NEW n \in 1 .. Len(events'[a])
                 PROVE  events'[a][n].txs # <<>>
      OBVIOUS
    <3>1. CASE n \in 1 .. Len(events[a])
      <4>1. events'[a][n] = events[a][n] /\ events[a][n].txs # <<>>
        BY <1>1, <1>3, <3>1 DEF EventsCarry
      <4> QED
        BY <4>1
    <3>2. CASE n \notin 1 .. Len(events[a])
      <4>1. events'[a][n].txs = included_transaction_buffer[p] /\ included_transaction_buffer[p] # <<>>
        BY <1>3, <3>2
      <4> QED
        BY <4>1
    <3> QED
      BY <3>1, <3>2
  <2> QED
    BY <1>1, <2>1 DEF EventsCarry
<1> QED
  BY <1>3, <1>5, <1>6, <1>7

(* The initial state is typed, and refers to no event. *)
LEMMA TypeInit == Init => TypeInv
<1> SUFFICES ASSUME Init PROVE TypeInv
  OBVIOUS
<1>1. TypeOK
  BY DEF Init, TypeOK, EventHashes
<1>2. KnownExist /\ EventsCarry
  BY DEF Init, KnownExist, EventsCarry
<1> QED
  BY <1>1, <1>2 DEF TypeInv

(* Recognizing: the transaction taken is one, and its author is a peer.    *)
LEMMA NextEventType ==
  ASSUME TypeInv, NEW p \in Peers, NEW a \in Peers, next_recognized_event(p, a)
  PROVE  LET n == recognized[p][a] + 1
         IN  /\ n \in 1 .. Len(events[a]) /\ n <= known[p][a] /\ n \in Nat
             /\ events[a][n] \in Events
             /\ events[a][n].txs \in Seq(Transactions) /\ events[a][n].txs # <<>>
             /\ <<a, n>> \in EventHashes
<1>0. /\ recognized \in [Peers -> [Peers -> Nat]] /\ known \in [Peers -> [Peers -> Nat]]
      /\ events \in [Peers -> Seq(Events)]
  BY DEF TypeInv, TypeOK, Events
<1>1. recognized[p][a] \in Nat /\ known[p][a] \in Nat /\ events[a] \in Seq(Events)
  BY <1>0
<1>2. known[p][a] <= Len(events[a]) /\ recognized[p][a] < known[p][a]
  BY DEF TypeInv, KnownExist, next_recognized_event
<1> DEFINE n == recognized[p][a] + 1
<1>3. n \in 1 .. Len(events[a]) /\ n <= known[p][a] /\ n \in Nat
  BY <1>1, <1>2
<1>4. events[a][n] \in Events
  BY <1>1, <1>3
<1>5. events[a][n].txs \in Seq(Transactions) /\ events[a][n].txs # <<>>
  BY <1>3, <1>4 DEF Events, TypeInv, EventsCarry
<1>6. <<a, n>> \in EventHashes
  BY <1>3 DEF EventHashes
<1> QED
  BY <1>3, <1>4, <1>5, <1>6

(* Every action keeps the types and the references; one step per action.   *)
LEMMA TypeNext == TypeInv /\ [Next]_vars => TypeInv'
<1> SUFFICES ASSUME TypeInv, [Next]_vars PROVE TypeInv'
  OBVIOUS
<1>0. TypeOK /\ KnownExist /\ EventsCarry
  BY DEF TypeInv
<1>1. ASSUME UNCHANGED vars PROVE TypeInv'
  <2>1. TypeOK'
    BY <1>0, <1>1 DEF vars, graph, instructions, processor, TypeOK
  <2> QED
    BY <1>0, <1>1, <2>1 DEF vars, graph, TypeInv, KnownExist, EventsCarry
<1>2. ASSUME NEW p \in Commanders, NEW g \in Programs, ScheduleProgram(p, g) PROVE TypeInv'
  <2> USE <1>2 DEF ScheduleProgram
  <2>1. p \in Peers
    BY PeerAssumption
  <2>2. [type |-> "Execute", instructions |-> g] \in Transactions
    BY DEF Transactions
  <2>3. included_transaction_buffer \in [Peers -> Seq(Transactions)]
    BY <1>0 DEF TypeOK
  <2>4. Append(included_transaction_buffer[p], [type |-> "Execute", instructions |-> g])
          \in Seq(Transactions)
    BY <2>1, <2>2, <2>3
  <2>5. included_transaction_buffer' \in [Peers -> Seq(Transactions)]
    BY <2>1, <2>3, <2>4, UpdateType DEF push_tx
  <2>6. spent' \in [schedules : [Programs -> Nat], lost : Nat]
    <3>1. spent \in [schedules : [Programs -> Nat], lost : Nat]
      BY <1>0 DEF TypeOK
    <3>2. spent' = [spent EXCEPT !.schedules = [spent.schedules EXCEPT ![g] = spent.schedules[g] + 1]]
      OBVIOUS
    <3>3. [spent.schedules EXCEPT ![g] = spent.schedules[g] + 1] \in [Programs -> Nat]
      BY <3>1
    <3> QED
      BY ONLY <3>1, <3>2, <3>3
  <2>7. TypeOK'
    BY <1>0, <2>5, <2>6 DEF TypeOK, instructions, processor
  <2> QED
    BY <1>0, <2>7 DEF TypeInv, KnownExist, EventsCarry
<1>3. ASSUME NEW p \in Peers, NEW q \in Peers, Gossip(p, q) PROVE TypeInv'
  <2> USE <1>3 DEF Gossip
  <2>1. known \in [Peers -> [Peers -> Nat]] /\ sync \in [Peers -> [Peers -> [Peers -> Nat] \cup {NoSync}]]
    BY <1>0 DEF TypeOK
  <2>2. \A a \in Peers : known[p][a] <= known[p][a] /\ known[p][a] <= Len(events[a])
    BY <1>0, <2>1 DEF KnownExist
  <2>3. /\ included_transaction_buffer' \in [Peers -> Seq(Transactions)]
        /\ events' \in [Peers -> Seq(Events)]
        /\ known' \in [Peers -> [Peers -> Nat]]
        /\ \A r, a \in Peers : /\ known'[r][a] <= Len(events'[a])
                               /\ recognized'[r][a] <= known'[r][a]
        /\ \A a \in Peers : Len(events[a]) \in Nat /\ Len(events'[a]) \in Nat
        /\ \A a \in Peers : Len(events[a]) <= Len(events'[a])
        /\ EventsCarry'
    BY <2>1, <2>2, CreateEventType
  <2>4. sync' = [sync EXCEPT ![p][q] = known'[p]]
    OBVIOUS
  <2>5. sync' \in [Peers -> [Peers -> [Peers -> Nat] \cup {NoSync}]]
    <3>1. known'[p] \in [Peers -> Nat]
      BY <2>3
    <3> QED
      BY <2>1, <2>4, <3>1, SyncUpdate, SMTT(30)
  <2>6. TypeOK'
    BY <1>0, <2>3, <2>5 DEF TypeOK, Events, instructions, processor
  <2>7. \A r, t, a \in Peers : sync'[r][t] # NoSync => sync'[r][t][a] <= Len(events'[a])
    <3> SUFFICES ASSUME NEW r \in Peers, NEW t \in Peers, NEW a \in Peers, sync'[r][t] # NoSync
                 PROVE  sync'[r][t][a] <= Len(events'[a])
      OBVIOUS
    <3>1. CASE r = p /\ t = q
      BY <2>1, <2>3, <2>4, <3>1
    <3>2. CASE ~(r = p /\ t = q)
      <4>1. sync'[r][t] = sync[r][t]
        BY <2>1, <2>4, <3>2
      <4>2. sync[r][t][a] <= Len(events[a]) /\ sync[r][t][a] \in Nat
        <5>1. sync[r][t] \in [Peers -> Nat]
          BY <2>1, <4>1
        <5> QED
          BY <1>0, <4>1, <5>1 DEF KnownExist
      <4>3. Len(events[a]) <= Len(events'[a]) /\ Len(events[a]) \in Nat /\ Len(events'[a]) \in Nat
        BY <2>3
      <4> QED
        BY <4>1, <4>2, <4>3
    <3> QED
      BY <3>1, <3>2
  <2> QED
    BY <2>3, <2>6, <2>7 DEF TypeInv, KnownExist
<1>4. ASSUME NEW p \in Peers, NEW q \in Peers, ApplySync(p, q) PROVE TypeInv'
  <2> USE <1>4 DEF ApplySync
  <2> DEFINE parents == [a \in Peers |-> IF sync[q][p][a] > known[p][a]
                                         THEN sync[q][p][a] ELSE known[p][a]]
  <2>1. known \in [Peers -> [Peers -> Nat]] /\ sync \in [Peers -> [Peers -> [Peers -> Nat] \cup {NoSync}]]
    BY <1>0 DEF TypeOK
  <2>2. sync[q][p] \in [Peers -> Nat]
    BY <2>1
  <2>3. parents \in [Peers -> Nat]
    BY <2>1, <2>2
  <2>4. \A a \in Peers : known[p][a] <= parents[a] /\ parents[a] <= Len(events[a])
    BY <1>0, <2>1, <2>2 DEF KnownExist
  <2>5. create_event(p, parents) /\ UNCHANGED <<recognized, recognized_transaction_buffer>>
    OBVIOUS
  <2> HIDE DEF parents
  <2>6. /\ included_transaction_buffer' \in [Peers -> Seq(Transactions)]
        /\ events' \in [Peers -> Seq(Events)]
        /\ known' \in [Peers -> [Peers -> Nat]]
        /\ \A r, a \in Peers : /\ known'[r][a] <= Len(events'[a])
                               /\ recognized'[r][a] <= known'[r][a]
        /\ \A a \in Peers : Len(events[a]) \in Nat /\ Len(events'[a]) \in Nat
        /\ \A a \in Peers : Len(events[a]) <= Len(events'[a])
        /\ EventsCarry'
    BY <2>3, <2>4, <2>5, CreateEventType
  <2>7. sync' = [sync EXCEPT ![q][p] = NoSync]
    OBVIOUS
  <2>8. sync' \in [Peers -> [Peers -> [Peers -> Nat] \cup {NoSync}]]
    BY <2>1, <2>7
  <2>9. TypeOK'
    BY <1>0, <2>6, <2>8 DEF TypeOK, Events, instructions, processor
  <2>10. \A r, t, a \in Peers : sync'[r][t] # NoSync => sync'[r][t][a] <= Len(events'[a])
    <3> SUFFICES ASSUME NEW r \in Peers, NEW t \in Peers, NEW a \in Peers, sync'[r][t] # NoSync
                 PROVE  sync'[r][t][a] <= Len(events'[a])
      OBVIOUS
    <3>1. sync'[r][t] = sync[r][t]
      BY <2>1, <2>7
    <3>2. sync[r][t][a] <= Len(events[a]) /\ sync[r][t][a] \in Nat
      <4>1. sync[r][t] \in [Peers -> Nat]
        BY <2>1, <3>1
      <4> QED
        BY <1>0, <3>1, <4>1 DEF KnownExist
    <3>3. Len(events[a]) <= Len(events'[a]) /\ Len(events[a]) \in Nat /\ Len(events'[a]) \in Nat
      BY <2>6
    <3> QED
      BY <3>1, <3>2, <3>3
  <2> QED
    BY <2>6, <2>9, <2>10 DEF TypeInv, KnownExist
<1>5. ASSUME NEW p \in Peers, NEW q \in Peers, LoseSync(p, q) PROVE TypeInv'
  <2> USE <1>5 DEF LoseSync
  <2>1. sync \in [Peers -> [Peers -> [Peers -> Nat] \cup {NoSync}]]
    BY <1>0 DEF TypeOK
  <2>2. sync' \in [Peers -> [Peers -> [Peers -> Nat] \cup {NoSync}]]
    BY <2>1
  <2>3. spent' \in [schedules : [Programs -> Nat], lost : Nat]
    <3>1. spent \in [schedules : [Programs -> Nat], lost : Nat]
      BY <1>0 DEF TypeOK
    <3>2. spent' = [spent EXCEPT !.lost = spent.lost + 1]
      OBVIOUS
    <3> QED
      BY ONLY <3>1, <3>2
  <2>4. TypeOK'
    BY <1>0, <2>2, <2>3 DEF TypeOK, instructions, processor
  <2>5. KnownExist'
    BY <1>0, <2>1 DEF KnownExist
  <2> QED
    BY <1>0, <2>4, <2>5 DEF TypeInv, EventsCarry
<1>6. ASSUME NEW p \in Peers, RecognizeBuffered(p) PROVE TypeInv'
  <2> DEFINE buffer == recognized_transaction_buffer[p]
  <2>1. /\ buffer.txs # <<>>
        /\ handle_tx(p, buffer.author, Head(buffer.txs), buffer.hash)
        /\ recognized_transaction_buffer' =
             [recognized_transaction_buffer EXCEPT ![p].txs = Tail(buffer.txs)]
        /\ UNCHANGED <<stopped, included_transaction_buffer, events, known, recognized,
                       sync, processor, reported, actualized, spent>>
    BY <1>6 DEF RecognizeBuffered
  <2>2. recognized_transaction_buffer \in [Peers -> Buffers]
    BY <1>0 DEF TypeOK, Buffers
  <2>3. buffer \in Buffers /\ buffer.txs \in Seq(Transactions) /\ buffer.hash \in EventHashes
    BY <2>2 DEF Buffers
  <2>4. buffer.author \in Peers
    BY <1>0, <2>1 DEF EventsCarry
  <2>5. Head(buffer.txs) \in Transactions /\ Tail(buffer.txs) \in Seq(Transactions)
    BY <2>1, <2>3, TailType
  <2>6. /\ currently_executed' \in [Peers -> SUBSET Identifiers]
        /\ peers_finished' \in [Peers -> SUBSET (Peers \X Identifiers)]
        /\ finished' \in [Peers -> SUBSET Identifiers]
        /\ output' \in [Peers -> Seq(OutEvents)]
        /\ ignored' \in [Peers -> SUBSET (Peers \X Identifiers)]
    BY <1>0, <2>1, <2>3, <2>4, <2>5, HandleType
  <2>7. /\ recognized_transaction_buffer' \in [Peers -> Buffers]
        /\ \A r \in Peers : recognized_transaction_buffer'[r].author
                              = recognized_transaction_buffer[r].author
        /\ \A r \in Peers : r # p => recognized_transaction_buffer'[r]
                              = recognized_transaction_buffer[r]
    BY <2>1, <2>2, <2>5 DEF Buffers
  <2>8. TypeOK'
    BY <1>0, <2>1, <2>6, <2>7 DEF TypeOK, Buffers, processor
  <2>9. KnownExist'
    BY <1>0, <2>1 DEF KnownExist
  <2>10. EventsCarry'
    BY <1>0, <2>1, <2>4, <2>7 DEF EventsCarry
  <2> QED
    BY <2>8, <2>9, <2>10 DEF TypeInv
<1>7. ASSUME NEW p \in Peers, NEW a \in Peers, RecognizeNextEvent(p, a) PROVE TypeInv'
  <2> DEFINE n == recognized[p][a] + 1
             txs == events[a][n].txs
  <2>1. /\ next_recognized_event(p, a)
        /\ handle_tx(p, a, Head(txs), <<a, n>>)
        /\ recognized_transaction_buffer' =
             [recognized_transaction_buffer EXCEPT ![p].author = a, ![p].txs = Tail(txs)]
        /\ recognized' = [recognized EXCEPT ![p][a] = n]
        /\ UNCHANGED <<stopped, included_transaction_buffer, events, known,
                       sync, processor, reported, actualized, spent>>
    BY <1>7 DEF RecognizeNextEvent
  <2>2. /\ n <= known[p][a] /\ n \in Nat
        /\ txs \in Seq(Transactions) /\ txs # <<>>
        /\ <<a, n>> \in EventHashes
    BY <2>1, NextEventType
  <2>3. /\ recognized_transaction_buffer \in [Peers -> Buffers]
        /\ recognized \in [Peers -> [Peers -> Nat]]
    BY <1>0 DEF TypeOK, Buffers
  <2>4. Head(txs) \in Transactions /\ Tail(txs) \in Seq(Transactions)
    BY <2>2, TailType
  <2>5. /\ currently_executed' \in [Peers -> SUBSET Identifiers]
        /\ peers_finished' \in [Peers -> SUBSET (Peers \X Identifiers)]
        /\ finished' \in [Peers -> SUBSET Identifiers]
        /\ output' \in [Peers -> Seq(OutEvents)]
        /\ ignored' \in [Peers -> SUBSET (Peers \X Identifiers)]
    BY <1>0, <2>1, <2>2, <2>4, HandleType
  <2> HIDE DEF n, txs
  <2>6. /\ recognized_transaction_buffer' \in [Peers -> Buffers]
        /\ recognized_transaction_buffer'[p].author = a
        /\ \A r \in Peers : r # p => recognized_transaction_buffer'[r]
                              = recognized_transaction_buffer[r]
    BY <2>1, <2>3, <2>4 DEF Buffers
  <2>7. recognized' \in [Peers -> [Peers -> Nat]]
    BY <2>1, <2>2, <2>3
  <2>8. TypeOK'
    BY <1>0, <2>1, <2>5, <2>6, <2>7 DEF TypeOK, Buffers, processor
  <2>9. KnownExist'
    <3>1. \A r, b \in Peers : recognized'[r][b] <= known'[r][b]
      BY <1>0, <2>1, <2>2, <2>3 DEF KnownExist
    <3> QED
      BY <1>0, <2>1, <3>1 DEF KnownExist
  <2>10. EventsCarry'
    BY <1>0, <2>1, <2>6 DEF EventsCarry
  <2> QED
    BY <2>8, <2>9, <2>10 DEF TypeInv
<1>8. ASSUME NEW p \in Peers, PollInstructionMemory(p) PROVE TypeInv'
  <2> DEFINE event == Head(output[p])
  <2>1. /\ output[p] # <<>> /\ output' = [output EXCEPT ![p] = Tail(output[p])]
        /\ input' = IF event.type = "NextProgram"
                    THEN [input EXCEPT ![p] = Append(input[p], event.id)] ELSE input
        /\ reported' = IF event.type = "FinishedExecution"
                       THEN [reported EXCEPT ![p] = Append(reported[p], event.id)] ELSE reported
        /\ actualized' = IF event.type = "PeerShardsActualized"
                         THEN [actualized EXCEPT ![p] = actualized[p] \cup {<<event.peer, event.id>>}]
                         ELSE actualized
        /\ UNCHANGED <<stopped, graph, instructions, executing, executed, ignored, spent>>
    BY <1>8 DEF PollInstructionMemory
  <2>2. /\ output \in [Peers -> Seq(OutEvents)] /\ input \in [Peers -> Seq(Identifiers)]
        /\ reported \in [Peers -> Seq(Identifiers)]
        /\ actualized \in [Peers -> SUBSET (Peers \X Identifiers)]
    BY <1>0 DEF TypeOK
  <2>3. event \in OutEvents /\ Tail(output[p]) \in Seq(OutEvents)
    BY <2>1, <2>2, TailType
  <2>4. /\ event.id \in Identifiers
        /\ event.type = "PeerShardsActualized" => event.peer \in Peers
    BY <2>3 DEF OutEvents
  <2> HIDE DEF event
  <2>5. /\ Append(input[p], event.id) \in Seq(Identifiers)
        /\ Append(reported[p], event.id) \in Seq(Identifiers)
    BY <2>2, <2>4
  <2>6. output' \in [Peers -> Seq(OutEvents)]
    BY <2>1, <2>2, <2>3, UpdateType
  <2>7. input' \in [Peers -> Seq(Identifiers)] /\ reported' \in [Peers -> Seq(Identifiers)]
    BY <2>1, <2>2, <2>5, UpdateType
  <2>8. actualized' \in [Peers -> SUBSET (Peers \X Identifiers)]
    BY <2>1, <2>2, <2>4
  <2>9. TypeOK'
    BY <1>0, <2>1, <2>6, <2>7, <2>8 DEF TypeOK, graph, instructions
  <2> QED
    BY <1>0, <2>1, <2>9 DEF TypeInv, KnownExist, EventsCarry, graph
<1>9. ASSUME NEW p \in Peers, StartExecution(p) PROVE TypeInv'
  <2> USE <1>9 DEF StartExecution
  <2>1. input \in [Peers -> Seq(Identifiers)] /\ executing \in [Peers -> Identifiers \cup {Idle}]
    BY <1>0 DEF TypeOK
  <2>2. Head(input[p]) \in Identifiers /\ Tail(input[p]) \in Seq(Identifiers)
    BY <2>1, TailType
  <2>3. input' \in [Peers -> Seq(Identifiers)] /\ executing' \in [Peers -> Identifiers \cup {Idle}]
    BY <2>1, <2>2, UpdateType
  <2>4. TypeOK'
    BY <1>0, <2>3 DEF TypeOK, graph, instructions
  <2> QED
    BY <1>0, <2>4 DEF TypeInv, KnownExist, EventsCarry, graph
<1>10. ASSUME NEW p \in Peers, FinishExecution(p) PROVE TypeInv'
  <2> USE <1>10 DEF FinishExecution
  <2> DEFINE tx == [type |-> "Executed", program_id |-> executing[p]]
  <2>1. /\ executing \in [Peers -> Identifiers \cup {Idle}]
        /\ executed \in [Peers -> Seq(Identifiers)]
        /\ included_transaction_buffer \in [Peers -> Seq(Transactions)]
    BY <1>0 DEF TypeOK
  <2>2. executing[p] \in Identifiers
    BY <2>1
  <2>3. tx \in Transactions
    BY <2>2 DEF Transactions
  <2>4. included_transaction_buffer' = [included_transaction_buffer EXCEPT
          ![p] = Append(included_transaction_buffer[p], tx)]
    BY DEF push_tx
  <2> HIDE DEF tx
  <2>5. /\ Append(included_transaction_buffer[p], tx) \in Seq(Transactions)
        /\ Append(executed[p], executing[p]) \in Seq(Identifiers)
    BY <2>1, <2>2, <2>3
  <2>6. /\ executing' \in [Peers -> Identifiers \cup {Idle}]
        /\ executed' \in [Peers -> Seq(Identifiers)]
        /\ included_transaction_buffer' \in [Peers -> Seq(Transactions)]
    BY <2>1, <2>4, <2>5, UpdateType
  <2>7. TypeOK'
    BY <1>0, <2>6 DEF TypeOK, instructions
  <2> QED
    BY <1>0, <2>7 DEF TypeInv, KnownExist, EventsCarry
<1>11. ASSUME NEW p \in Peers, Crash(p) PROVE TypeInv'
  <2> USE <1>11 DEF Crash
  <2>1. sync \in [Peers -> [Peers -> [Peers -> Nat] \cup {NoSync}]] /\ stopped \subseteq Peers
    BY <1>0 DEF TypeOK
  <2>2. sync' \in [Peers -> [Peers -> [Peers -> Nat] \cup {NoSync}]] /\ stopped' \subseteq Peers
    BY <2>1
  <2>3. TypeOK'
    BY <1>0, <2>2 DEF TypeOK, instructions, processor
  <2>4. \A q, r \in Peers : sync'[q][r] # NoSync => sync'[q][r] = sync[q][r]
    BY <2>1
  <2>5. KnownExist'
    BY <1>0, <2>4 DEF KnownExist
  <2> QED
    BY <1>0, <2>3, <2>5 DEF TypeInv, EventsCarry
<1> QED
  BY <1>1, <1>2, <1>3, <1>4, <1>5, <1>6, <1>7, <1>8, <1>9, <1>10, <1>11 DEF Next, Recognize

(* Every variable keeps its type: in particular programs are known by      *)
(* identifiers only, the processor executes nothing but programs, and what *)
(* next_tx takes from the graph are transactions of peers.                 *)
THEOREM TypeCorrect == Spec => []TypeOK
<1>1. Spec => []TypeInv
  BY TypeInit, TypeNext, PTL DEF Spec
<1>2. TypeInv => TypeOK
  BY DEF TypeInv
<1> QED
  BY <1>1, <1>2, PTL


-----------------------------------------------------------------------------
(* What is reported was executed.                                          *)

(* The programs a list of transactions announces as executed. *)
AnnouncedIn(txs) ==
  {txs[i].program_id : i \in {j \in 1 .. Len(txs) : txs[j].type = "Executed"}}

(* Whoever announces a program has executed it: in what is scheduled, in   *)
(* events, in what is left of an event, and in what peers took note of.    *)
AnnouncedIsExecuted ==
  /\ \A p \in Peers : \A id \in AnnouncedIn(included_transaction_buffer[p]) : p \in ExecutedBy(id)
  /\ \A a \in Peers : \A n \in 1 .. Len(events[a]) :
       \A id \in AnnouncedIn(events[a][n].txs) : a \in ExecutedBy(id)
  /\ \A p \in Peers : \A id \in AnnouncedIn(recognized_transaction_buffer[p].txs) :
       recognized_transaction_buffer[p].author \in ExecutedBy(id)
  /\ \A p \in Peers : \A f \in peers_finished[p] : f[1] \in ExecutedBy(f[2])

(* A program is Finished when enough peers executed it ... *)
FinishedIsExecuted == \A p \in Peers : \A id \in finished[p] :
  Cardinality(ExecutedBy(id)) >= Threshold

(* ... and nothing else is reported. *)
ReportedIsFinished ==
  /\ \A p \in Peers : \A i \in 1 .. Len(output[p]) :
       output[p][i].type = "FinishedExecution" => output[p][i].id \in finished[p]
  /\ \A p \in Peers : \A i \in 1 .. Len(reported[p]) : reported[p][i] \in finished[p]

ReportInv == AnnouncedIsExecuted /\ FinishedIsExecuted /\ ReportedIsFinished

(* What a list announces, when transactions are added and taken. *)
LEMMA AnnouncedLists ==
  /\ AnnouncedIn(<<>>) = {}
  /\ \A txs \in Seq(Transactions), tx \in Transactions :
       \A id \in AnnouncedIn(Append(txs, tx)) :
         id \in AnnouncedIn(txs) \/ (tx.type = "Executed" /\ id = tx.program_id)
  /\ \A txs \in Seq(Transactions) : txs # <<>> =>
       /\ AnnouncedIn(Tail(txs)) \subseteq AnnouncedIn(txs)
       /\ Head(txs).type = "Executed" => Head(txs).program_id \in AnnouncedIn(txs)
<1>1. AnnouncedIn(<<>>) = {}
  BY DEF AnnouncedIn
<1>2. ASSUME NEW txs \in Seq(Transactions), NEW tx \in Transactions
      PROVE  \A id \in AnnouncedIn(Append(txs, tx)) :
              id \in AnnouncedIn(txs) \/ (tx.type = "Executed" /\ id = tx.program_id)
  BY DEF AnnouncedIn
<1>3. ASSUME NEW txs \in Seq(Transactions), txs # <<>>
      PROVE  /\ AnnouncedIn(Tail(txs)) \subseteq AnnouncedIn(txs)
             /\ Head(txs).type = "Executed" => Head(txs).program_id \in AnnouncedIn(txs)
  <2>1. /\ Len(txs) >= 1 /\ Head(txs) = txs[1]
        /\ \A i \in 1 .. Len(Tail(txs)) : i + 1 \in 1 .. Len(txs) /\ Tail(txs)[i] = txs[i + 1]
    BY <1>3, TailType
  <2>2. 1 \in 1 .. Len(txs)
    BY <2>1
  <2> QED
    BY <2>1, <2>2 DEF AnnouncedIn
<1> QED
  BY <1>1, <1>2, <1>3

(* What was executed stays executed. *)
LEMMA ExecutedGrows ==
  ASSUME TypeInv, [Next]_vars
  PROVE  \A id : /\ ExecutedBy(id) \subseteq ExecutedBy(id)'
                 /\ Cardinality(ExecutedBy(id)) \in Nat /\ Cardinality(ExecutedBy(id)') \in Nat
                 /\ Cardinality(ExecutedBy(id)) <= Cardinality(ExecutedBy(id)')
<1>0. executed \in [Peers -> Seq(Identifiers)]
  BY DEF TypeInv, TypeOK
<1>1. \/ executed' = executed
      \/ \E p \in Peers : executed' = [executed EXCEPT ![p] = Append(executed[p], executing[p])]
  BY DEF Next, vars, processor, ScheduleProgram, Gossip, ApplySync, LoseSync, Recognize,
         RecognizeBuffered, RecognizeNextEvent, PollInstructionMemory, StartExecution,
         FinishExecution, Crash
<1>2. ASSUME NEW q \in Peers, NEW i \in 1 .. Len(executed[q])
      PROVE  i \in 1 .. Len(executed'[q]) /\ executed'[q][i] = executed[q][i]
  <2>1. CASE executed' = executed
    BY <2>1
  <2>2. ASSUME NEW p \in Peers, executed' = [executed EXCEPT ![p] = Append(executed[p], executing[p])]
        PROVE  i \in 1 .. Len(executed'[q]) /\ executed'[q][i] = executed[q][i]
    <3>1. executed[q] \in Seq(Identifiers)
      BY <1>0
    <3>2. CASE q = p
      <4>1. executed'[q] = Append(executed[q], executing[p])
        BY <1>0, <2>2, <3>2
      <4> QED
        BY <3>1, <4>1
    <3>3. CASE q # p
      BY <1>0, <2>2, <3>3
    <3> QED
      BY <3>2, <3>3
  <2> QED
    BY <1>1, <2>1, <2>2
<1> SUFFICES ASSUME NEW id
             PROVE  /\ ExecutedBy(id) \subseteq ExecutedBy(id)'
                    /\ Cardinality(ExecutedBy(id)) \in Nat /\ Cardinality(ExecutedBy(id)') \in Nat
                    /\ Cardinality(ExecutedBy(id)) <= Cardinality(ExecutedBy(id)')
  OBVIOUS
<1>3. ExecutedBy(id) \subseteq ExecutedBy(id)'
  BY <1>2 DEF ExecutedBy
<1>4. ExecutedBy(id) \subseteq Peers /\ ExecutedBy(id)' \subseteq Peers
  BY DEF ExecutedBy
<1>5. IsFiniteSet(ExecutedBy(id)) /\ IsFiniteSet(ExecutedBy(id)')
  BY <1>4, PeerAssumption, FS_Subset
<1> QED
  BY <1>3, <1>5, FS_Subset, FS_CardinalityType

(* Nothing is reported, announced or finished at the start. *)
LEMMA ReportInit == Init => ReportInv
<1> SUFFICES ASSUME Init PROVE ReportInv
  OBVIOUS
<1>1. AnnouncedIsExecuted
  BY AnnouncedLists DEF Init, AnnouncedIsExecuted
<1>2. FinishedIsExecuted /\ ReportedIsFinished
  BY DEF Init, FinishedIsExecuted, ReportedIsFinished
<1> QED
  BY <1>1, <1>2 DEF ReportInv

(* The instruction memory, when it is told what a peer really did, notes   *)
(* only that, and finishes a program only if enough peers executed it.     *)
LEMMA HandleReport ==
  ASSUME TypeOK, ReportInv, NEW p \in Peers, NEW from \in Peers, NEW tx \in Transactions,
         NEW hash \in EventHashes, handle_tx(p, from, tx, hash),
         tx.type = "Executed" => from \in ExecutedBy(tx.program_id)
  PROVE  /\ \A q \in Peers : \A f \in peers_finished'[q] : f[1] \in ExecutedBy(f[2])
         /\ \A q \in Peers : \A id \in finished'[q] : Cardinality(ExecutedBy(id)) >= Threshold
         /\ \A q \in Peers : finished[q] \subseteq finished'[q]
         /\ \A q \in Peers : \A i \in 1 .. Len(output'[q]) :
              output'[q][i].type = "FinishedExecution" => output'[q][i].id \in finished'[q]
<1>0. /\ peers_finished \in [Peers -> SUBSET (Peers \X Identifiers)]
      /\ finished \in [Peers -> SUBSET Identifiers]
      /\ output \in [Peers -> Seq(OutEvents)]
  BY DEF TypeOK
<1>1. /\ \A q \in Peers : \A f \in peers_finished[q] : f[1] \in ExecutedBy(f[2])
      /\ \A q \in Peers : \A id \in finished[q] : Cardinality(ExecutedBy(id)) >= Threshold
      /\ \A q \in Peers : \A i \in 1 .. Len(output[q]) :
           output[q][i].type = "FinishedExecution" => output[q][i].id \in finished[q]
  BY DEF ReportInv, AnnouncedIsExecuted, FinishedIsExecuted, ReportedIsFinished
<1>2. CASE tx.type = "Execute"
  <2> DEFINE e == [type |-> "NextProgram", id |-> [hash |-> tx.instructions, event_hash |-> hash]]
  <2>1. /\ output' = [output EXCEPT ![p] = Append(output[p], e)]
        /\ UNCHANGED <<peers_finished, finished>>
    BY <1>2 DEF handle_tx, FinalizedProgram
  <2>2. e.type # "FinishedExecution"
    OBVIOUS
  <2> HIDE DEF e
  <2>3. \A q \in Peers : \A i \in 1 .. Len(output'[q]) :
           output'[q][i].type = "FinishedExecution" => output'[q][i].id \in finished[q]
    BY <1>0, <1>1, <2>1, <2>2, EnqueueCases
  <2> QED
    BY <1>1, <2>1, <2>3
<1>3. CASE tx.type = "Executed"
  <2> DEFINE id == tx.program_id
             act == [type |-> "PeerShardsActualized", peer |-> from, id |-> id]
             fin == [type |-> "FinishedExecution", id |-> id]
  <2>1. from \in ExecutedBy(id)
    BY <1>3
  <2>2. ExecutedProgram(p, from, id)
    BY <1>3 DEF handle_tx
  <2>3. act.type # "FinishedExecution" /\ fin.id = id
    OBVIOUS
  <2>4. CASE id \in currently_executed[p] /\ notify_executed(p, from, id)
    <3>1. /\ finished' = [finished EXCEPT ![p] = finished[p] \cup {id}]
          /\ peers_finished' = [peers_finished EXCEPT ![p] = {f \in peers_finished[p] : f[2] # id}]
          /\ output' = [output EXCEPT ![p] = output[p] \o <<fin, act>>]
      BY <2>2, <2>4 DEF ExecutedProgram
    <3>2. Cardinality(ExecutedBy(id)) >= Threshold
      <4>1. confirmations(p, from, id) \subseteq ExecutedBy(id)
        BY <1>1, <2>1 DEF confirmations
      <4>2. IsFiniteSet(ExecutedBy(id))
        BY PeerAssumption, FS_Subset DEF ExecutedBy
      <4>3. /\ Cardinality(confirmations(p, from, id)) <= Cardinality(ExecutedBy(id))
            /\ Cardinality(confirmations(p, from, id)) \in Nat
            /\ Cardinality(ExecutedBy(id)) \in Nat
        BY <4>1, <4>2, FS_Subset, FS_CardinalityType
      <4>4. Cardinality(confirmations(p, from, id)) >= Threshold
        BY <2>4 DEF notify_executed
      <4> QED
        BY <4>3, <4>4, ThresholdAssumption
    <3> HIDE DEF id, act, fin
    <3>3. \A q \in Peers : \A x \in finished'[q] : x = id \/ x \in finished[q]
      BY <1>0, <3>1
    <3>4. \A q \in Peers : finished[q] \subseteq finished'[q] /\ peers_finished'[q] \subseteq peers_finished[q]
      BY <1>0, <3>1
    <3>5. \A q \in Peers : \A i \in 1 .. Len(output'[q]) :
            output'[q][i].type = "FinishedExecution" => output'[q][i].id \in finished'[q]
      <4> SUFFICES ASSUME NEW q \in Peers, NEW i \in 1 .. Len(output'[q]),
                          output'[q][i].type = "FinishedExecution"
                   PROVE  output'[q][i].id \in finished'[q]
        OBVIOUS
      <4>1. CASE q # p
        <5>1. output'[q] = output[q] /\ finished'[q] = finished[q]
          BY <1>0, <3>1, <4>1
        <5> QED
          BY <1>1, <5>1
      <4>2. CASE q = p
        <5>1. output'[q] = output[p] \o <<fin, act>> /\ output[p] \in Seq(OutEvents)
          BY <1>0, <3>1, <4>2
        <5>2. \/ i \in 1 .. Len(output[p]) /\ output'[q][i] = output[p][i]
              \/ output'[q][i] \in {fin, act}
          BY <5>1
        <5>3. id \in finished'[q]
          BY <1>0, <3>1, <4>2
        <5> QED
          BY <1>1, <2>3, <3>4, <4>2, <5>2, <5>3
      <4> QED
        BY <4>1, <4>2
    <3> QED
      BY <1>1, <3>2, <3>3, <3>4, <3>5
  <2>5. CASE ~ (id \in currently_executed[p] /\ notify_executed(p, from, id))
    <3>1. /\ finished' = finished
          /\ \/ peers_finished' = peers_finished
             \/ peers_finished' = [peers_finished EXCEPT ![p] = peers_finished[p] \cup {<<from, id>>}]
          /\ \/ output' = output
             \/ output' = [output EXCEPT ![p] = Append(output[p], act)]
      BY <2>2, <2>5 DEF ExecutedProgram
    <3> HIDE DEF id, act, fin
    <3>2. \A q \in Peers : \A f \in peers_finished'[q] : f \in peers_finished[q] \/ f = <<from, id>>
      BY <1>0, <3>1, ZenonT(30)
    <3>3. \A q \in Peers : \A f \in peers_finished'[q] : f[1] \in ExecutedBy(f[2])
      BY <1>1, <2>1, <3>2
    <3>4. \A q \in Peers : \A i \in 1 .. Len(output'[q]) :
            output'[q][i].type = "FinishedExecution" => output'[q][i].id \in finished'[q]
      <4>1. CASE output' = output
        BY <1>1, <3>1, <4>1
      <4>2. CASE output' = [output EXCEPT ![p] = Append(output[p], act)]
        <5>1. finished' = finished /\ output \in [Peers -> Seq(OutEvents)]
          BY <1>0, <3>1
        <5>2. act.type # "FinishedExecution"
          BY <2>3
        <5>3. \A q \in Peers : \A i \in 1 .. Len(output'[q]) :
                \/ i \in 1 .. Len(output[q]) /\ output'[q][i] = output[q][i]
                \/ output'[q][i] = act
          BY <4>2, <5>1, EnqueueCases
        <5> QED
          BY <1>1, <5>1, <5>2, <5>3
      <4> QED
        BY <3>1, <4>1, <4>2
    <3> QED
      BY <1>1, <3>1, <3>3, <3>4
  <2> QED
    BY <2>4, <2>5
<1> QED
  BY <1>2, <1>3 DEF handle_tx

(* A new event announces what was scheduled to be announced. *)
LEMMA CreateReport ==
  ASSUME TypeOK, AnnouncedIsExecuted, NEW p \in Peers, NEW parents \in [Peers -> Nat],
         create_event(p, parents),
         \A a \in Peers : known[p][a] <= parents[a] /\ parents[a] <= Len(events[a])
  PROVE  /\ \A q \in Peers : \A id \in AnnouncedIn(included_transaction_buffer'[q]) :
              q \in ExecutedBy(id)
         /\ \A a \in Peers : \A n \in 1 .. Len(events'[a]) :
              \A id \in AnnouncedIn(events'[a][n].txs) : a \in ExecutedBy(id)
<1>1. /\ \A q \in Peers : included_transaction_buffer'[q] \in
           {included_transaction_buffer[q], <<>>}
      /\ \A a \in Peers : \A n \in 1 .. Len(events[a]) : events'[a][n] = events[a][n]
      /\ \A a \in Peers : \A n \in 1 .. Len(events'[a]) : n \notin 1 .. Len(events[a]) =>
           a = p /\ events'[a][n].txs = included_transaction_buffer[p]
  <2>1. EventCreated(p, parents)
    BY CreateEvent
  <2> QED
    BY <2>1 DEF EventCreated
<1>2. /\ \A q \in Peers : \A id \in AnnouncedIn(included_transaction_buffer[q]) :
           q \in ExecutedBy(id)
      /\ \A a \in Peers : \A n \in 1 .. Len(events[a]) :
           \A id \in AnnouncedIn(events[a][n].txs) : a \in ExecutedBy(id)
  BY DEF AnnouncedIsExecuted
<1>3. AnnouncedIn(<<>>) = {}
  BY AnnouncedLists
<1>4. ASSUME NEW a \in Peers, NEW n \in 1 .. Len(events'[a]),
             NEW id \in AnnouncedIn(events'[a][n].txs)
      PROVE  a \in ExecutedBy(id)
  <2>1. CASE n \in 1 .. Len(events[a])
    BY <1>1, <1>2, <1>4, <2>1
  <2>2. CASE n \notin 1 .. Len(events[a])
    BY <1>1, <1>2, <1>4, <2>2
  <2> QED
    BY <2>1, <2>2
<1> QED
  BY <1>1, <1>2, <1>3, <1>4

(* Every action keeps the link from report to execution. *)
LEMMA ReportNext == TypeInv /\ ReportInv /\ [Next]_vars => ReportInv'
<1> SUFFICES ASSUME TypeInv, ReportInv, [Next]_vars PROVE ReportInv'
  OBVIOUS
<1>0. TypeOK /\ AnnouncedIsExecuted /\ FinishedIsExecuted /\ ReportedIsFinished
  BY DEF TypeInv, ReportInv
<1>1. \A id : /\ ExecutedBy(id) \subseteq ExecutedBy(id)'
              /\ Cardinality(ExecutedBy(id)) \in Nat /\ Cardinality(ExecutedBy(id)') \in Nat
              /\ Cardinality(ExecutedBy(id)) <= Cardinality(ExecutedBy(id)')
  BY ExecutedGrows
<1>2. Threshold \in Nat
  BY ThresholdAssumption
<1>scheduled. (\A p \in Peers : \A id \in AnnouncedIn(included_transaction_buffer[p]) : p \in ExecutedBy(id))
  BY <1>0 DEF AnnouncedIsExecuted
<1>events. \A a \in Peers : \A n \in 1 .. Len(events[a]) :
             \A id \in AnnouncedIn(events[a][n].txs) : a \in ExecutedBy(id)
  BY <1>0 DEF AnnouncedIsExecuted
<1>buffer. \A p \in Peers : \A id \in AnnouncedIn(recognized_transaction_buffer[p].txs) :
             recognized_transaction_buffer[p].author \in ExecutedBy(id)
  BY <1>0 DEF AnnouncedIsExecuted
<1>3. ASSUME UNCHANGED <<peers_finished, finished, output>>
      PROVE  /\ \A p \in Peers : \A f \in peers_finished'[p] : f[1] \in ExecutedBy(f[2])
             /\ FinishedIsExecuted'
             /\ \A p \in Peers : \A i \in 1 .. Len(output'[p]) :
                  output'[p][i].type = "FinishedExecution" => output'[p][i].id \in finished'[p]
  <2>1. FinishedIsExecuted'
    BY <1>0, <1>1, <1>2, <1>3 DEF FinishedIsExecuted
  <2> QED
    BY <1>0, <1>3, <2>1 DEF AnnouncedIsExecuted, ReportedIsFinished
<1>4. ASSUME UNCHANGED <<peers_finished, finished, output, reported>>
      PROVE  FinishedIsExecuted' /\ ReportedIsFinished'
  <2>1. FinishedIsExecuted'
    BY <1>3, <1>4
  <2> QED
    BY <1>0, <1>4, <2>1 DEF ReportedIsFinished
<1>5. ASSUME \A p \in Peers : \A id \in AnnouncedIn(included_transaction_buffer'[p]) :
               p \in ExecutedBy(id)',
             UNCHANGED <<events, recognized_transaction_buffer, peers_finished>>
      PROVE  AnnouncedIsExecuted'
  BY <1>0, <1>1, <1>5 DEF AnnouncedIsExecuted
<1>6. ASSUME UNCHANGED <<included_transaction_buffer, events, recognized_transaction_buffer,
                         peers_finished, finished, output, reported>>
      PROVE  ReportInv'
  BY <1>1, <1>4, <1>5, <1>6, <1>scheduled DEF ReportInv
<1>7. ASSUME NEW p \in Commanders, NEW g \in Programs, ScheduleProgram(p, g) PROVE ReportInv'
  <2> DEFINE tx == [type |-> "Execute", instructions |-> g]
  <2>1. /\ included_transaction_buffer' =
             [included_transaction_buffer EXCEPT ![p] = Append(included_transaction_buffer[p], tx)]
        /\ UNCHANGED <<events, recognized_transaction_buffer, peers_finished, finished,
                       output, reported>>
    BY <1>7 DEF ScheduleProgram, push_tx, instructions
  <2>2. tx \in Transactions /\ tx.type # "Executed"
    BY DEF Transactions
  <2> HIDE DEF tx
  <2>3. \A q \in Peers : \A id \in AnnouncedIn(included_transaction_buffer'[q]) :
          q \in ExecutedBy(id)
    <3>1. included_transaction_buffer \in [Peers -> Seq(Transactions)] /\ p \in Peers
      BY <1>0, PeerAssumption DEF TypeOK
    <3>2. ASSUME NEW q \in Peers, NEW id \in AnnouncedIn(included_transaction_buffer'[q])
          PROVE  q \in ExecutedBy(id)
      <4>1. CASE q = p
        <5>1. included_transaction_buffer'[q] = Append(included_transaction_buffer[q], tx)
          BY <2>1, <3>1, <4>1
        <5>2. id \in AnnouncedIn(included_transaction_buffer[q])
          BY <2>2, <3>1, <3>2, <5>1, AnnouncedLists
        <5> QED
          BY <5>2, <1>scheduled
      <4>2. CASE q # p
        BY <2>1, <3>1, <3>2, <4>2, <1>scheduled
      <4> QED
        BY <4>1, <4>2
    <3> QED
      BY <3>2
  <2>4. AnnouncedIsExecuted'
    BY <1>1, <1>5, <2>1, <2>3
  <2> QED
    BY <1>4, <2>1, <2>4 DEF ReportInv
<1>8. ASSUME NEW p \in Peers, NEW parents \in [Peers -> Nat], create_event(p, parents),
             \A a \in Peers : known[p][a] <= parents[a] /\ parents[a] <= Len(events[a]),
             UNCHANGED <<recognized_transaction_buffer, peers_finished, finished, output, reported>>
      PROVE  ReportInv'
  <2>1. /\ \A q \in Peers : \A id \in AnnouncedIn(included_transaction_buffer'[q]) :
              q \in ExecutedBy(id)
        /\ \A a \in Peers : \A n \in 1 .. Len(events'[a]) :
              \A id \in AnnouncedIn(events'[a][n].txs) : a \in ExecutedBy(id)
    BY <1>0, <1>8, CreateReport
  <2>2. AnnouncedIsExecuted'
    BY <1>0, <1>1, <1>8, <2>1 DEF AnnouncedIsExecuted
  <2> QED
    BY <1>4, <1>8, <2>2 DEF ReportInv
<1>9. ASSUME NEW p \in Peers, NEW q \in Peers, Gossip(p, q) PROVE ReportInv'
  <2>1. known[p] \in [Peers -> Nat] /\ \A a \in Peers : known[p][a] \in Nat
    <3>1. known \in [Peers -> [Peers -> Nat]]
      BY <1>0 DEF TypeOK
    <3> QED
      BY <3>1
  <2>2. \A a \in Peers : known[p][a] <= known[p][a] /\ known[p][a] <= Len(events[a])
    BY <2>1 DEF TypeInv, KnownExist
  <2> QED
    BY <1>8, <1>9, <2>1, <2>2 DEF Gossip, instructions
<1>10. ASSUME NEW p \in Peers, NEW q \in Peers, ApplySync(p, q) PROVE ReportInv'
  <2> DEFINE parents == [a \in Peers |-> IF sync[q][p][a] > known[p][a]
                                         THEN sync[q][p][a] ELSE known[p][a]]
  <2>1. /\ sync[q][p] # NoSync /\ create_event(p, parents)
        /\ UNCHANGED <<recognized_transaction_buffer, peers_finished, finished, output, reported>>
    BY <1>10 DEF ApplySync, instructions
  <2>2. /\ known \in [Peers -> [Peers -> Nat]]
        /\ sync \in [Peers -> [Peers -> [Peers -> Nat] \cup {NoSync}]]
    BY <1>0 DEF TypeOK
  <2>3. sync[q][p] \in [Peers -> Nat]
    BY <2>1, <2>2
  <2>4. parents \in [Peers -> Nat]
    BY <2>2, <2>3
  <2>5. \A a \in Peers : known[p][a] <= parents[a] /\ parents[a] <= Len(events[a])
    BY <2>1, <2>2, <2>3 DEF TypeInv, KnownExist
  <2> HIDE DEF parents
  <2> QED
    BY <1>8, <2>1, <2>4, <2>5
<1>recognize. ASSUME UNCHANGED <<included_transaction_buffer, events, reported>>,
              \A q \in Peers : \A id \in AnnouncedIn(recognized_transaction_buffer'[q].txs) :
                recognized_transaction_buffer'[q].author \in ExecutedBy(id)',
              \A q \in Peers : \A f \in peers_finished'[q] : f[1] \in ExecutedBy(f[2]),
              \A q \in Peers : \A id \in finished'[q] : Cardinality(ExecutedBy(id)) >= Threshold,
              \A q \in Peers : finished[q] \subseteq finished'[q],
              \A q \in Peers : \A i \in 1 .. Len(output'[q]) :
                output'[q][i].type = "FinishedExecution" => output'[q][i].id \in finished'[q]
       PROVE  ReportInv'
  <2>1. AnnouncedIsExecuted'
    BY <1>0, <1>1, <1>recognize DEF AnnouncedIsExecuted
  <2>2. FinishedIsExecuted'
    BY <1>1, <1>2, <1>recognize DEF FinishedIsExecuted
  <2>3. ReportedIsFinished'
    BY <1>0, <1>recognize DEF ReportedIsFinished
  <2> QED
    BY <2>1, <2>2, <2>3 DEF ReportInv
<1>by. \A id : ExecutedBy(id)' = {q \in Peers : \E i \in 1 .. Len(executed'[q]) : executed'[q][i] = id}
  BY DEF ExecutedBy
<1>11. ASSUME NEW p \in Peers, RecognizeBuffered(p) PROVE ReportInv'
  <2> DEFINE buffer == recognized_transaction_buffer[p]
  <2>1. /\ buffer.txs # <<>>
        /\ handle_tx(p, buffer.author, Head(buffer.txs), buffer.hash)
        /\ recognized_transaction_buffer' =
             [recognized_transaction_buffer EXCEPT ![p].txs = Tail(buffer.txs)]
        /\ UNCHANGED <<included_transaction_buffer, events, reported>>
    BY <1>11 DEF RecognizeBuffered
  <2>2. recognized_transaction_buffer \in [Peers -> Buffers]
    BY <1>0 DEF TypeOK, Buffers
  <2>3. buffer.txs \in Seq(Transactions) /\ buffer.hash \in EventHashes
    BY <2>2 DEF Buffers
  <2>4. buffer.author \in Peers
    BY <2>1 DEF TypeInv, EventsCarry
  <2>5. Head(buffer.txs) \in Transactions
    BY <2>1, <2>3, TailType
  <2>6. /\ AnnouncedIn(Tail(buffer.txs)) \subseteq AnnouncedIn(buffer.txs)
        /\ Head(buffer.txs).type = "Executed" =>
             Head(buffer.txs).program_id \in AnnouncedIn(buffer.txs)
    BY <2>1, <2>3, AnnouncedLists
  <2>7. \A id \in AnnouncedIn(buffer.txs) : buffer.author \in ExecutedBy(id)
    BY <1>buffer
  <2>8. \A q \in Peers : /\ recognized_transaction_buffer'[q].author = recognized_transaction_buffer[q].author
                         /\ AnnouncedIn(recognized_transaction_buffer'[q].txs)
                              \subseteq AnnouncedIn(recognized_transaction_buffer[q].txs)
    <3> SUFFICES ASSUME NEW q \in Peers
                 PROVE  /\ recognized_transaction_buffer'[q].author = recognized_transaction_buffer[q].author
                        /\ AnnouncedIn(recognized_transaction_buffer'[q].txs)
                             \subseteq AnnouncedIn(recognized_transaction_buffer[q].txs)
      OBVIOUS
    <3>1. CASE q = p
      <4>1. /\ recognized_transaction_buffer'[q].author = buffer.author
            /\ recognized_transaction_buffer'[q].txs = Tail(buffer.txs)
        BY <2>1, <2>2, <3>1 DEF Buffers
      <4> QED
        BY <2>6, <3>1, <4>1
    <3>2. CASE q # p
      BY <2>1, <2>2, <3>2
    <3> QED
      BY <3>1, <3>2
  <2>9. \A q \in Peers : \A id \in AnnouncedIn(recognized_transaction_buffer'[q].txs) :
          recognized_transaction_buffer'[q].author \in ExecutedBy(id)'
    BY <1>1, <1>buffer, <2>8
  <2> HIDE DEF buffer
  <2>10. /\ \A q \in Peers : \A f \in peers_finished'[q] : f[1] \in ExecutedBy(f[2])
         /\ \A q \in Peers : \A id \in finished'[q] : Cardinality(ExecutedBy(id)) >= Threshold
         /\ \A q \in Peers : finished[q] \subseteq finished'[q]
         /\ \A q \in Peers : \A i \in 1 .. Len(output'[q]) :
              output'[q][i].type = "FinishedExecution" => output'[q][i].id \in finished'[q]
    BY <1>0, <2>1, <2>3, <2>4, <2>5, <2>6, <2>7, HandleReport
  <2> QED
    BY <1>recognize, <2>1, <2>9, <2>10
<1>12. ASSUME NEW p \in Peers, NEW a \in Peers, RecognizeNextEvent(p, a) PROVE ReportInv'
  <2> DEFINE n == recognized[p][a] + 1
             txs == events[a][n].txs
  <2>1. /\ next_recognized_event(p, a)
        /\ handle_tx(p, a, Head(txs), <<a, n>>)
        /\ recognized_transaction_buffer' =
             [recognized_transaction_buffer EXCEPT ![p].author = a, ![p].txs = Tail(txs)]
        /\ UNCHANGED <<included_transaction_buffer, events, reported>>
    BY <1>12 DEF RecognizeNextEvent
  <2>2. /\ n \in 1 .. Len(events[a])
        /\ txs \in Seq(Transactions) /\ txs # <<>>
        /\ <<a, n>> \in EventHashes
    BY <2>1, NextEventType
  <2>3. recognized_transaction_buffer \in [Peers -> Buffers]
    BY <1>0 DEF TypeOK, Buffers
  <2>4. Head(txs) \in Transactions
    BY <2>2, TailType
  <2>5. \A id \in AnnouncedIn(txs) : a \in ExecutedBy(id)
    BY <1>events, <2>2
  <2> HIDE DEF n, txs
  <2>6. /\ AnnouncedIn(Tail(txs)) \subseteq AnnouncedIn(txs)
        /\ Head(txs).type = "Executed" => Head(txs).program_id \in AnnouncedIn(txs)
    BY <2>2, AnnouncedLists
  <2>7. \A q \in Peers : \A id \in AnnouncedIn(recognized_transaction_buffer'[q].txs) :
          recognized_transaction_buffer'[q].author \in ExecutedBy(id)'
    <3> SUFFICES ASSUME NEW q \in Peers, NEW id \in AnnouncedIn(recognized_transaction_buffer'[q].txs)
                 PROVE  recognized_transaction_buffer'[q].author \in ExecutedBy(id)
      BY <1>1
    <3>1. CASE q = p
      <4>1. /\ recognized_transaction_buffer'[q].author = a
            /\ recognized_transaction_buffer'[q].txs = Tail(txs)
        BY <2>1, <2>3, <3>1 DEF Buffers
      <4> QED
        BY <2>5, <2>6, <4>1
    <3>2. CASE q # p
      BY <1>buffer, <2>1, <2>3, <3>2
    <3> QED
      BY <3>1, <3>2
  <2>8. /\ \A q \in Peers : \A f \in peers_finished'[q] : f[1] \in ExecutedBy(f[2])
        /\ \A q \in Peers : \A id \in finished'[q] : Cardinality(ExecutedBy(id)) >= Threshold
        /\ \A q \in Peers : finished[q] \subseteq finished'[q]
        /\ \A q \in Peers : \A i \in 1 .. Len(output'[q]) :
              output'[q][i].type = "FinishedExecution" => output'[q][i].id \in finished'[q]
    BY <1>0, <2>1, <2>2, <2>4, <2>5, <2>6, HandleReport
  <2> QED
    BY <1>recognize, <2>1, <2>7, <2>8
<1>13. ASSUME NEW p \in Peers, PollInstructionMemory(p) PROVE ReportInv'
  <2> DEFINE event == Head(output[p])
  <2>1. /\ output[p] # <<>> /\ output' = [output EXCEPT ![p] = Tail(output[p])]
        /\ reported' = IF event.type = "FinishedExecution"
                       THEN [reported EXCEPT ![p] = Append(reported[p], event.id)] ELSE reported
        /\ UNCHANGED <<included_transaction_buffer, events, recognized_transaction_buffer,
                       peers_finished, finished>>
    BY <1>13 DEF PollInstructionMemory, graph, instructions
  <2>2. output \in [Peers -> Seq(OutEvents)] /\ reported \in [Peers -> Seq(Identifiers)]
    BY <1>0 DEF TypeOK
  <2>3. /\ output[p] \in Seq(OutEvents) /\ 1 \in 1 .. Len(output[p]) /\ event = output[p][1]
        /\ \A i \in 1 .. Len(Tail(output[p])) :
             i + 1 \in 1 .. Len(output[p]) /\ Tail(output[p])[i] = output[p][i + 1]
    BY <2>1, <2>2, TailType
  <2>4. event.type = "FinishedExecution" => event.id \in finished[p]
    BY <1>0, <2>3 DEF ReportedIsFinished
  <2> HIDE DEF event
  <2>5. \A q \in Peers : \A i \in 1 .. Len(output'[q]) :
          output'[q][i].type = "FinishedExecution" => output'[q][i].id \in finished[q]
    BY <1>0, <2>1, <2>2, <2>3 DEF ReportedIsFinished
  <2>6. \A q \in Peers : \A i \in 1 .. Len(reported'[q]) : reported'[q][i] \in finished[q]
    <3>1. CASE event.type = "FinishedExecution"
      <4>1. reported' = [reported EXCEPT ![p] = Append(reported[p], event.id)]
        BY <2>1, <3>1
      <4>2. \A q \in Peers : \A i \in 1 .. Len(reported'[q]) :
              \/ i \in 1 .. Len(reported[q]) /\ reported'[q][i] = reported[q][i]
              \/ q = p /\ reported'[q][i] = event.id
        BY <2>2, <4>1, EnqueueCases
      <4> QED
        BY <1>0, <2>4, <3>1, <4>2 DEF ReportedIsFinished
    <3>2. CASE event.type # "FinishedExecution"
      BY <1>0, <2>1, <3>2 DEF ReportedIsFinished
    <3> QED
      BY <3>1, <3>2
  <2>7. AnnouncedIsExecuted'
    BY <1>1, <1>5, <1>scheduled, <2>1
  <2>8. FinishedIsExecuted'
    BY <1>0, <1>1, <1>2, <2>1 DEF FinishedIsExecuted
  <2> QED
    BY <2>1, <2>5, <2>6, <2>7, <2>8 DEF ReportInv, ReportedIsFinished
<1>14. ASSUME NEW p \in Peers, FinishExecution(p) PROVE ReportInv'
  <2> DEFINE tx == [type |-> "Executed", program_id |-> executing[p]]
  <2>1. /\ executing[p] # Idle
        /\ included_transaction_buffer' =
             [included_transaction_buffer EXCEPT ![p] = Append(included_transaction_buffer[p], tx)]
        /\ executed' = [executed EXCEPT ![p] = Append(executed[p], executing[p])]
        /\ UNCHANGED <<events, recognized_transaction_buffer, peers_finished, finished,
                       output, reported>>
    BY <1>14 DEF FinishExecution, push_tx, instructions
  <2>2. /\ included_transaction_buffer \in [Peers -> Seq(Transactions)]
        /\ executed \in [Peers -> Seq(Identifiers)] /\ executing[p] \in Identifiers
    BY <1>0, <2>1 DEF TypeOK
  <2>3. tx \in Transactions /\ tx.program_id = executing[p]
    BY <2>2 DEF Transactions
  <2> HIDE DEF tx
  <2>4. \A id : id = executing[p] => p \in ExecutedBy(id)'
    <3>1. executed'[p] = Append(executed[p], executing[p]) /\ executed[p] \in Seq(Identifiers)
      BY <2>1, <2>2
    <3>2. /\ Len(executed[p]) + 1 \in 1 .. Len(executed'[p])
          /\ executed'[p][Len(executed[p]) + 1] = executing[p]
      BY <3>1
    <3>3. p \in {q \in Peers : \E i \in 1 .. Len(executed'[q]) : executed'[q][i] = executing[p]}
      BY <3>2
    <3> QED
      BY <3>3, <1>by
  <2>5. \A q \in Peers : \A id \in AnnouncedIn(included_transaction_buffer'[q]) :
          q \in ExecutedBy(id)'
    <3> SUFFICES ASSUME NEW q \in Peers, NEW id \in AnnouncedIn(included_transaction_buffer'[q])
                 PROVE  q \in ExecutedBy(id)'
      OBVIOUS
    <3>1. CASE q = p
      <4>1. included_transaction_buffer'[q] = Append(included_transaction_buffer[q], tx)
        BY <2>1, <2>2, <3>1
      <4>2. id \in AnnouncedIn(included_transaction_buffer[q]) \/ id = executing[p]
        BY <2>2, <2>3, <4>1, AnnouncedLists
      <4> QED
        BY <1>1, <1>scheduled, <2>4, <3>1, <4>2
    <3>2. CASE q # p
      BY <1>1, <1>scheduled, <2>1, <2>2, <3>2
    <3> QED
      BY <3>1, <3>2
  <2>6. AnnouncedIsExecuted'
    BY <1>5, <2>1, <2>5
  <2> QED
    BY <1>4, <2>1, <2>6 DEF ReportInv
<1>15. ASSUME UNCHANGED vars PROVE ReportInv'
  BY <1>6, <1>15 DEF vars, graph, instructions
<1>16. ASSUME NEW p \in Peers, NEW q \in Peers, LoseSync(p, q) PROVE ReportInv'
  BY <1>6, <1>16 DEF LoseSync, instructions
<1>17. ASSUME NEW p \in Peers, StartExecution(p) PROVE ReportInv'
  BY <1>6, <1>17 DEF StartExecution, graph, instructions
<1>18. ASSUME NEW p \in Peers, Crash(p) PROVE ReportInv'
  BY <1>6, <1>18 DEF Crash, instructions
<1> QED
  BY <1>7, <1>9, <1>10, <1>11, <1>12, <1>13, <1>14, <1>15, <1>16, <1>17, <1>18 DEF Next, Recognize

(* "Enough peers completed the program" is true whenever a user is told    *)
(* ProgramExecuted, for any number of peers, programs, schedules, crashes  *)
(* and lost messages.                                                      *)
THEOREM ReportSafe == Spec => []ReportedIsExecuted
<1>1. Spec => []TypeInv
  BY TypeInit, TypeNext, PTL DEF Spec
<1>2. Spec => []ReportInv
  BY <1>1, ReportInit, ReportNext, PTL DEF Spec
<1>3. ReportInv => ReportedIsExecuted
  BY DEF ReportInv, FinishedIsExecuted, ReportedIsFinished, ReportedIsExecuted
<1> QED
  BY <1>2, <1>3, PTL


-----------------------------------------------------------------------------
(* Nothing is reported twice.                                              *)

(* A FinishedExecution is on its way to the user once, and not any more    *)
(* when the user has seen it.                                              *)
OnceInv ==
  /\ \A p \in Peers : \A i, j \in 1 .. Len(output[p]) :
       /\ output[p][i].type = "FinishedExecution" /\ output[p][j].type = "FinishedExecution"
       /\ output[p][i].id = output[p][j].id
       => i = j
  /\ \A p \in Peers : \A i \in 1 .. Len(output[p]), j \in 1 .. Len(reported[p]) :
       output[p][i].type = "FinishedExecution" => output[p][i].id # reported[p][j]
  /\ ReportedOnce

(* The instruction memory emits a FinishedExecution only for a program     *)
(* that was not Finished.                                                  *)
LEMMA HandleOnce ==
  ASSUME TypeOK, NEW p \in Peers, NEW from \in Peers, NEW tx \in Transactions,
         NEW hash \in EventHashes, handle_tx(p, from, tx, hash)
  PROVE  \A q \in Peers : \A i \in 1 .. Len(output'[q]) :
           output'[q][i].type = "FinishedExecution" =>
             \/ i \in 1 .. Len(output[q]) /\ output'[q][i] = output[q][i]
             \/ q = p /\ i = Len(output[p]) + 1 /\ output'[q][i].id \notin finished[p]
<1>0. output \in [Peers -> Seq(OutEvents)]
  BY DEF TypeOK
<1>1. ASSUME NEW e, e.type # "FinishedExecution",
             output' = output \/ output' = [output EXCEPT ![p] = Append(output[p], e)]
      PROVE  \A q \in Peers : \A i \in 1 .. Len(output'[q]) :
               output'[q][i].type = "FinishedExecution" =>
                 i \in 1 .. Len(output[q]) /\ output'[q][i] = output[q][i]
  <2>1. CASE output' = output
    BY <2>1
  <2>2. CASE output' = [output EXCEPT ![p] = Append(output[p], e)]
    <3>1. \A q \in Peers : \A i \in 1 .. Len(output'[q]) :
            \/ i \in 1 .. Len(output[q]) /\ output'[q][i] = output[q][i]
            \/ output'[q][i] = e
      BY <1>0, <2>2, EnqueueCases
    <3> QED
      BY <1>1, <3>1
  <2> QED
    BY <1>1, <2>1, <2>2
<1>2. CASE tx.type = "Execute"
  <2> DEFINE e == [type |-> "NextProgram", id |-> [hash |-> tx.instructions, event_hash |-> hash]]
  <2>1. output' = [output EXCEPT ![p] = Append(output[p], e)]
    BY <1>2 DEF handle_tx, FinalizedProgram
  <2>2. e.type # "FinishedExecution"
    OBVIOUS
  <2> HIDE DEF e
  <2> QED
    BY <1>1, <2>1, <2>2
<1>3. CASE tx.type = "Executed"
  <2> DEFINE id == tx.program_id
             act == [type |-> "PeerShardsActualized", peer |-> from, id |-> id]
             fin == [type |-> "FinishedExecution", id |-> id]
  <2>1. ExecutedProgram(p, from, id)
    BY <1>3 DEF handle_tx
  <2>2. act.type # "FinishedExecution" /\ fin.id = id
    OBVIOUS
  <2>3. CASE id \in currently_executed[p] /\ notify_executed(p, from, id)
    <3>1. output' = [output EXCEPT ![p] = output[p] \o <<fin, act>>]
      BY <2>1, <2>3 DEF ExecutedProgram
    <3>2. id \notin finished[p]
      BY <2>3 DEF notify_executed
    <3> HIDE DEF id, act, fin
    <3> SUFFICES ASSUME NEW q \in Peers, NEW i \in 1 .. Len(output'[q]),
                        output'[q][i].type = "FinishedExecution"
                 PROVE  \/ i \in 1 .. Len(output[q]) /\ output'[q][i] = output[q][i]
                        \/ q = p /\ i = Len(output[p]) + 1 /\ output'[q][i].id \notin finished[p]
      OBVIOUS
    <3>3. CASE q # p
      BY <1>0, <3>1, <3>3
    <3>4. CASE q = p
      <4>1. output'[q] = output[p] \o <<fin, act>> /\ output[p] \in Seq(OutEvents)
        BY <1>0, <3>1, <3>4
      <4>2. \/ i \in 1 .. Len(output[p]) /\ output'[q][i] = output[p][i]
            \/ i = Len(output[p]) + 1 /\ output'[q][i] = fin
            \/ i = Len(output[p]) + 2 /\ output'[q][i] = act
        BY <4>1
      <4> QED
        BY <2>2, <3>2, <3>4, <4>2
    <3> QED
      BY <3>3, <3>4
  <2>4. CASE ~ (id \in currently_executed[p] /\ notify_executed(p, from, id))
    <3>1. output' = output \/ output' = [output EXCEPT ![p] = Append(output[p], act)]
      BY <2>1, <2>4 DEF ExecutedProgram
    <3> HIDE DEF act
    <3> QED
      BY <1>1, <2>2, <3>1
  <2> QED
    BY <2>3, <2>4
<1> QED
  BY <1>2, <1>3 DEF handle_tx

(* Handling a transaction keeps reports single. *)
LEMMA HandleOnceInv ==
  ASSUME TypeOK, ReportedIsFinished, OnceInv, NEW p \in Peers, NEW from \in Peers,
         NEW tx \in Transactions, NEW hash \in EventHashes, handle_tx(p, from, tx, hash),
         UNCHANGED reported
  PROVE  OnceInv'
<1>1. \A q \in Peers : \A i \in 1 .. Len(output'[q]) :
        output'[q][i].type = "FinishedExecution" =>
          \/ i \in 1 .. Len(output[q]) /\ output'[q][i] = output[q][i]
          \/ q = p /\ i = Len(output[p]) + 1 /\ output'[q][i].id \notin finished[p]
  BY HandleOnce
<1>2. /\ \A q \in Peers : \A i \in 1 .. Len(output[q]) :
           output[q][i].type = "FinishedExecution" => output[q][i].id \in finished[q]
      /\ \A q \in Peers : \A i \in 1 .. Len(reported[q]) : reported[q][i] \in finished[q]
  BY DEF ReportedIsFinished
<1>3. ASSUME NEW q \in Peers, NEW i \in 1 .. Len(output'[q]), NEW j \in 1 .. Len(output'[q]),
             output'[q][i].type = "FinishedExecution", output'[q][j].type = "FinishedExecution",
             output'[q][i].id = output'[q][j].id
      PROVE  i = j
  <2>1. CASE output'[q][i].id \in finished[q]
    <3>1. /\ i \in 1 .. Len(output[q]) /\ output'[q][i] = output[q][i]
          /\ j \in 1 .. Len(output[q]) /\ output'[q][j] = output[q][j]
      BY <1>1, <1>3, <2>1
    <3> QED
      BY <1>3, <3>1 DEF OnceInv
  <2>2. CASE output'[q][i].id \notin finished[q]
    <3>1. i = Len(output[p]) + 1 /\ j = Len(output[p]) + 1
      BY <1>1, <1>2, <1>3, <2>2, SMTT(30)
    <3> QED
      BY <3>1
  <2> QED
    BY <2>1, <2>2
<1>4. ASSUME NEW q \in Peers, NEW i \in 1 .. Len(output'[q]), NEW j \in 1 .. Len(reported'[q]),
             output'[q][i].type = "FinishedExecution"
      PROVE  output'[q][i].id # reported'[q][j]
  <2>1. reported'[q][j] = reported[q][j] /\ j \in 1 .. Len(reported[q])
    OBVIOUS
  <2>2. CASE i \in 1 .. Len(output[q]) /\ output'[q][i] = output[q][i]
    BY <1>4, <2>1, <2>2 DEF OnceInv
  <2>3. CASE q = p /\ output'[q][i].id \notin finished[p]
    BY <1>2, <2>1, <2>3
  <2> QED
    BY <1>1, <1>4, <2>2, <2>3
<1> QED
  BY <1>3, <1>4 DEF OnceInv, ReportedOnce

(* The user reads the output in order, so a report moves from the output   *)
(* to the reports and is in one of them.                                   *)
LEMMA PollOnce ==
  ASSUME TypeOK, OnceInv, NEW p \in Peers, PollInstructionMemory(p)
  PROVE  OnceInv'
<1> DEFINE event == Head(output[p])
<1>1. /\ output[p] # <<>> /\ output' = [output EXCEPT ![p] = Tail(output[p])]
      /\ reported' = IF event.type = "FinishedExecution"
                     THEN [reported EXCEPT ![p] = Append(reported[p], event.id)] ELSE reported
  BY DEF PollInstructionMemory
<1>2. output \in [Peers -> Seq(OutEvents)] /\ reported \in [Peers -> Seq(Identifiers)]
  BY DEF TypeOK
<1>3. /\ output[p] \in Seq(OutEvents) /\ 1 \in 1 .. Len(output[p]) /\ event = output[p][1]
      /\ \A i \in 1 .. Len(Tail(output[p])) :
           i + 1 \in 1 .. Len(output[p]) /\ Tail(output[p])[i] = output[p][i + 1]
  BY <1>1, <1>2, TailType
<1> HIDE DEF event
<1>4. /\ output'[p] = Tail(output[p])
      /\ \A q \in Peers : q # p => output'[q] = output[q] /\ reported'[q] = reported[q]
  BY <1>1, <1>2
<1>5. \A i \in 1 .. Len(output'[p]) : /\ i + 1 \in 1 .. Len(output[p]) /\ i + 1 # 1
                                      /\ output'[p][i] = output[p][i + 1]
  BY <1>3, <1>4
<1>6. \A i \in 1 .. Len(reported'[p]) :
        \/ i \in 1 .. Len(reported[p]) /\ reported'[p][i] = reported[p][i]
        \/ /\ event.type = "FinishedExecution" /\ reported'[p][i] = event.id
           /\ i = Len(reported[p]) + 1
  <2>1. CASE event.type = "FinishedExecution"
    <3>1. reported' = [reported EXCEPT ![p] = Append(reported[p], event.id)]
      BY <1>1, <2>1
    <3> QED
      BY <1>2, <2>1, <3>1, EnqueueCases
  <2>2. CASE event.type # "FinishedExecution"
    BY <1>1, <2>2
  <2> QED
    BY <2>1, <2>2
<1>7. ASSUME NEW q \in Peers, NEW i \in 1 .. Len(output'[q]), NEW j \in 1 .. Len(output'[q]),
             output'[q][i].type = "FinishedExecution", output'[q][j].type = "FinishedExecution",
             output'[q][i].id = output'[q][j].id
      PROVE  i = j
  <2>1. CASE q = p
    <3>1. /\ i + 1 \in 1 .. Len(output[p]) /\ output'[p][i] = output[p][i + 1]
          /\ j + 1 \in 1 .. Len(output[p]) /\ output'[p][j] = output[p][j + 1]
      BY <1>5, <2>1
    <3>2. ASSUME NEW k \in 1 .. Len(output[p]), NEW l \in 1 .. Len(output[p]),
                 output[p][k].type = "FinishedExecution", output[p][l].type = "FinishedExecution",
                 output[p][k].id = output[p][l].id
          PROVE  k = l
      BY <3>2 DEF OnceInv
    <3>3. i + 1 = j + 1
      BY <1>7, <2>1, <3>1, <3>2
    <3> QED
      BY <3>3
  <2>2. CASE q # p
    BY <1>4, <1>7, <2>2 DEF OnceInv
  <2> QED
    BY <2>1, <2>2
<1>8. ASSUME NEW q \in Peers, NEW i \in 1 .. Len(output'[q]), NEW j \in 1 .. Len(reported'[q]),
             output'[q][i].type = "FinishedExecution"
      PROVE  output'[q][i].id # reported'[q][j]
  <2>1. CASE q = p
    <3>1. CASE j \in 1 .. Len(reported[p]) /\ reported'[p][j] = reported[p][j]
      BY <1>5, <1>8, <2>1, <3>1, SMTT(30) DEF OnceInv
    <3>2. CASE event.type = "FinishedExecution" /\ reported'[p][j] = event.id
      BY <1>3, <1>5, <1>8, <2>1, <3>2 DEF OnceInv
    <3> QED
      BY <1>6, <2>1, <3>1, <3>2
  <2>2. CASE q # p
    BY <1>4, <1>8, <2>2 DEF OnceInv
  <2> QED
    BY <2>1, <2>2
<1>9. ASSUME NEW q \in Peers, NEW i \in 1 .. Len(reported'[q]), NEW j \in 1 .. Len(reported'[q]),
             reported'[q][i] = reported'[q][j]
      PROVE  i = j
  <2>1. CASE q = p
    BY <1>3, <1>6, <1>9, <2>1 DEF OnceInv, ReportedOnce
  <2>2. CASE q # p
    BY <1>4, <1>9, <2>2 DEF OnceInv, ReportedOnce
  <2> QED
    BY <2>1, <2>2
<1> QED
  BY <1>7, <1>8, <1>9 DEF OnceInv, ReportedOnce

(* Late confirmations never make a node report a program twice, for any    *)
(* number of peers, programs, schedules, crashes and lost messages.        *)
THEOREM ReportOnce == Spec => []ReportedOnce
<1>1. Init => OnceInv
  BY DEF Init, OnceInv, ReportedOnce
<1>2. TypeInv /\ ReportInv /\ OnceInv /\ [Next]_vars => OnceInv'
  <2> SUFFICES ASSUME TypeInv, ReportInv, OnceInv, [Next]_vars PROVE OnceInv'
    OBVIOUS
  <2>0. TypeOK /\ ReportedIsFinished
    BY DEF TypeInv, ReportInv
  <2>1. ASSUME UNCHANGED <<output, reported>> PROVE OnceInv'
    BY <2>1 DEF OnceInv, ReportedOnce
  <2>2. ASSUME NEW p \in Peers, RecognizeBuffered(p) PROVE OnceInv'
    <3> DEFINE buffer == recognized_transaction_buffer[p]
    <3>1. /\ buffer.txs # <<>> /\ UNCHANGED reported
          /\ handle_tx(p, buffer.author, Head(buffer.txs), buffer.hash)
      BY <2>2 DEF RecognizeBuffered
    <3>2. recognized_transaction_buffer \in [Peers -> Buffers]
      BY <2>0 DEF TypeOK, Buffers
    <3>3. buffer.txs \in Seq(Transactions) /\ buffer.hash \in EventHashes
      BY <3>2 DEF Buffers
    <3>4. buffer.author \in Peers
      BY <3>1 DEF TypeInv, EventsCarry
    <3>5. Head(buffer.txs) \in Transactions
      BY <3>1, <3>3, TailType
    <3> HIDE DEF buffer
    <3> QED
      BY <2>0, <3>1, <3>3, <3>4, <3>5, HandleOnceInv
  <2>3. ASSUME NEW p \in Peers, NEW a \in Peers, RecognizeNextEvent(p, a) PROVE OnceInv'
    <3> DEFINE n == recognized[p][a] + 1
               txs == events[a][n].txs
    <3>1. /\ next_recognized_event(p, a) /\ UNCHANGED reported
          /\ handle_tx(p, a, Head(txs), <<a, n>>)
      BY <2>3 DEF RecognizeNextEvent
    <3>2. /\ txs \in Seq(Transactions) /\ txs # <<>>
          /\ <<a, n>> \in EventHashes
      BY <3>1, NextEventType
    <3>3. Head(txs) \in Transactions
      BY <3>2, TailType
    <3> HIDE DEF n, txs
    <3> QED
      BY <2>0, <3>1, <3>2, <3>3, HandleOnceInv
  <2>4. ASSUME NEW p \in Peers, PollInstructionMemory(p) PROVE OnceInv'
    BY <2>0, <2>4, PollOnce
  <2>5. \/ UNCHANGED <<output, reported>>
        \/ \E p \in Peers : Recognize(p) \/ PollInstructionMemory(p)
    BY DEF Next, vars, ScheduleProgram, Gossip, ApplySync, LoseSync, StartExecution,
           FinishExecution, Crash
  <2> QED
    BY <2>1, <2>2, <2>3, <2>4, <2>5 DEF Recognize
<1>3. Spec => []TypeInv
  BY TypeInit, TypeNext, PTL DEF Spec
<1>4. Spec => []ReportInv
  BY <1>3, ReportInit, ReportNext, PTL DEF Spec
<1>5. Spec => []OnceInv
  BY <1>1, <1>2, <1>3, <1>4, PTL DEF Spec
<1>6. OnceInv => ReportedOnce
  BY DEF OnceInv
<1> QED
  BY <1>5, <1>6, PTL

-----------------------------------------------------------------------------
(* The abstract specification.                                             *)

(* The refinement mapping: who executed what. *)
LEMMA ExecutionsSet ==
  /\ \A q, id : <<q, id>> \in executions <=> q \in ExecutedBy(id)
  /\ \A e \in executions : e = <<e[1], e[2]>> /\ e[1] \in ExecutedBy(e[2])
BY DEF executions, ExecutedBy

(* An execution adds one pair. *)
LEMMA ExecuteStep ==
  ASSUME TypeOK, NEW p \in Peers, FinishExecution(p)
  PROVE  /\ executions' = executions \cup {<<p, executing[p]>>}
         /\ UNCHANGED reported
<1> DEFINE id == executing[p]
<1>1. /\ executed' = [executed EXCEPT ![p] = Append(executed[p], id)]
      /\ executed \in [Peers -> Seq(Identifiers)] /\ id \in Identifiers /\ UNCHANGED reported
  BY DEF TypeOK, FinishExecution
<1> HIDE DEF id
<1>2. \A q \in Peers : q # p => executed'[q] = executed[q]
  BY <1>1
<1>3. /\ executed'[p] = Append(executed[p], id) /\ executed[p] \in Seq(Identifiers)
      /\ Len(executed[p]) \in Nat
  BY <1>1
<1>4. /\ Len(executed'[p]) = Len(executed[p]) + 1
      /\ executed'[p][Len(executed[p]) + 1] = id
      /\ \A i \in 1 .. Len(executed[p]) : executed'[p][i] = executed[p][i]
  BY <1>3
<1>5. ASSUME NEW q \in Peers, NEW i \in 1 .. Len(executed'[q])
      PROVE  <<q, executed'[q][i]>> \in executions \cup {<<p, id>>}
  <2>1. CASE q # p
    BY <1>2, <2>1 DEF executions
  <2>2. CASE q = p /\ i = Len(executed[p]) + 1
    BY <1>4, <2>2
  <2>3. CASE q = p /\ i # Len(executed[p]) + 1
    <3>1. i \in 1 .. Len(executed[p])
      BY <1>3, <1>4, <2>3
    <3> QED
      BY <3>1, <1>4, <2>3 DEF executions
  <2> QED
    BY <2>1, <2>2, <2>3
<1>6. executions' \subseteq executions \cup {<<p, id>>}
  BY <1>5 DEF executions
<1>7. ASSUME NEW q \in Peers, NEW i \in 1 .. Len(executed[q])
      PROVE  <<q, executed[q][i]>> \in executions'
  <2>1. i \in 1 .. Len(executed'[q]) /\ executed'[q][i] = executed[q][i]
    BY <1>2, <1>3, <1>4
  <2> QED
    BY <2>1 DEF executions
<1>8. <<p, id>> \in executions'
  <2>1. Len(executed[p]) + 1 \in 1 .. Len(executed'[p])
    BY <1>3, <1>4
  <2> QED
    BY <2>1, <1>4 DEF executions
<1>9. executions \subseteq executions'
  BY <1>7 DEF executions
<1> QED
  BY <1>1, <1>6, <1>8, <1>9 DEF id

(* Program execution implements ProgramReports, for any number of peers,   *)
(* programs, schedules, crashes and lost messages: every completion of a   *)
(* processor is an Execute, every ProgramExecuted shown to a user a Tell,  *)
(* and all other steps leave the abstract state alone.                     *)
THEOREM Implements == Spec => ImplementsReports
<1>1. Init => Reports!Init
  <2> SUFFICES ASSUME Init PROVE Reports!Init
    OBVIOUS
  <2>1. \A q \in Peers : executed[q] = <<>> /\ Len(executed[q]) = 0
    BY DEF Init
  <2>2. executions = {}
    BY <2>1 DEF executions
  <2> QED
    BY <2>2 DEF Init, Reports!Init
<1>2. TypeInv /\ ReportedIsExecuted' /\ ReportedOnce' /\ [Next]_vars
        => [Reports!Next]_(Reports!vars)
  <2> SUFFICES ASSUME TypeInv, ReportedIsExecuted', ReportedOnce', [Next]_vars
               PROVE  [Reports!Next]_(Reports!vars)
    OBVIOUS
  <2>0. TypeOK
    BY DEF TypeInv
  <2>1. ASSUME UNCHANGED <<executed, reported>> PROVE UNCHANGED Reports!vars
    BY <2>1 DEF Reports!vars, executions
  <2>2. ASSUME NEW p \in Peers, FinishExecution(p) PROVE Reports!Execute(p)
    <3> DEFINE e == <<p, executing[p]>>
    <3>1. e[1] = p /\ e \in executions' /\ executions' = executions \cup {e} /\ UNCHANGED reported
      BY <2>0, <2>2, ExecuteStep
    <3> HIDE DEF e
    <3> QED
      BY <3>1 DEF Reports!Execute
  <2>3. ASSUME NEW p \in Peers, PollInstructionMemory(p), Head(output[p]).type = "FinishedExecution"
        PROVE  Reports!Tell(p)
    <3> DEFINE i == Len(reported[p]) + 1
    <3>0. PICK id : id = Head(output[p]).id
      OBVIOUS
    <3>1. /\ reported' = [reported EXCEPT ![p] = Append(reported[p], id)]
          /\ UNCHANGED executed
      BY <2>3, <3>0 DEF PollInstructionMemory
    <3>2. reported \in [Peers -> Seq(Identifiers)] /\ reported[p] \in Seq(Identifiers)
          /\ Len(reported[p]) \in Nat
      BY <2>0 DEF TypeOK
    <3>3. Head(output[p]) \in OutEvents
      BY <2>0, <2>3, TailType DEF TypeOK, PollInstructionMemory
    <3>4. id \in Identifiers
      BY <3>0, <3>3, <2>3 DEF OutEvents
    <3>5. /\ reported'[p] = Append(reported[p], id)
          /\ Len(reported'[p]) = i /\ reported'[p][i] = id /\ i \in 1 .. Len(reported'[p])
          /\ \A j \in 1 .. Len(reported[p]) :
               j \in 1 .. Len(reported'[p]) /\ j # i /\ reported'[p][j] = reported[p][j]
      BY <3>1, <3>2, <3>4
    <3> HIDE DEF i
    <3>6. UNCHANGED executions
      BY <3>1 DEF executions
    <3>7. Reports!Executors(id) = ExecutedBy(id)
      BY ExecutionsSet DEF Reports!Executors, ExecutedBy
    <3>8. Cardinality(Reports!Executors(id)) >= Threshold
      <4> DEFINE By(x) == {q \in Peers : \E j \in 1 .. Len(executed'[q]) : executed'[q][j] = x}
      <4>1. Cardinality(By(reported'[p][i])) >= Threshold
        BY <3>5 DEF ReportedIsExecuted, ExecutedBy
      <4>2. By(reported'[p][i]) = By(id)
        BY <3>5
      <4>3. By(id) = ExecutedBy(id)
        BY <3>1 DEF ExecutedBy
      <4> QED
        BY <4>1, <4>2, <4>3, <3>7
    <3>9. \A j \in 1 .. Len(reported[p]) : reported[p][j] # id
      BY <3>5 DEF ReportedOnce
    <3>10. Reports!Cardinality(Reports!Executors(id)) >= Threshold
      BY <3>8 DEF Cardinality, Reports!Cardinality
    <3> QED
      BY <3>1, <3>5, <3>6, <3>9, <3>10 DEF Reports!Tell
  <2>4. ASSUME NEW p \in Peers, PollInstructionMemory(p), Head(output[p]).type # "FinishedExecution"
        PROVE  UNCHANGED <<executed, reported>>
    BY <2>4 DEF PollInstructionMemory
  <2>5. \/ UNCHANGED <<executed, reported>>
        \/ \E p \in Peers : FinishExecution(p) \/ PollInstructionMemory(p)
    BY ZenonT(30) DEF Next, vars, processor, ScheduleProgram, Gossip, ApplySync, LoseSync, Recognize,
           RecognizeBuffered, RecognizeNextEvent, StartExecution, Crash
  <2> QED
    BY <2>1, <2>2, <2>3, <2>4, <2>5 DEF Reports!Next
<1>3. Spec => []TypeInv
  BY TypeInit, TypeNext, PTL DEF Spec
<1> QED
  BY <1>1, <1>2, <1>3, ReportSafe, ReportOnce, PTL DEF Spec, ImplementsReports, Reports!Spec
=============================================================================
