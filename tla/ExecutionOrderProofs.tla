----------------------- MODULE ExecutionOrderProofs -----------------------
(* In which order peers learn of programs: every peer of a program before  *)
(* its execution is announced, and the processors of one commander's       *)
(* programs in one order; for any number of peers, programs, links and     *)
(* losses, and any threshold.                                              *)
EXTENDS ProgramExecutionProofs, QueueLemmas

-----------------------------------------------------------------------------
(* No peer ever sees the Executed of a program before the program: the     *)
(* claim the instruction memory relies on when it ignores an Executed of   *)
(* an unknown program. The argument: whoever announces a program tracks    *)
(* it; whoever tracks it has recognized the event that scheduled it, so    *)
(* that event is an ancestor of the announcing one; and a peer that has    *)
(* recognized all ancestors of an event tracks what they schedule.         *)

(* A list of transactions schedules a program. *)
ExecutesIn(txs, g) ==
  \E i \in 1 .. Len(txs) : txs[i].type = "Execute" /\ txs[i].instructions = g

(* The identifiers that next_tx gives to the programs of event n of author *)
(* `a`: only the first transaction gets the hash of the event.             *)
Names(txs, a, n, id) ==
  \/ /\ Head(txs).type = "Execute"
     /\ id = [hash |-> Head(txs).instructions, event_hash |-> <<a, n>>]
  \/ \E g : ExecutesIn(Tail(txs), g) /\ id = [hash |-> g, event_hash |-> ZeroHash]

(* The events counted by `vec` schedule a program known as `id`. *)
ScheduledIn(ev, vec, id) ==
  \E a \in Peers : \E n \in 1 .. vec[a] : Names(ev[a][n].txs, a, n, id)

(* What a peer executes, and announces, it tracks. *)
HandedOutIsTracked ==
  /\ \A p \in Peers : \A i \in 1 .. Len(output[p]) :
       output[p][i].type = "NextProgram" => output[p][i].id \in currently_executed[p]
  /\ \A p \in Peers : \A i \in 1 .. Len(input[p]) : input[p][i] \in currently_executed[p]
  /\ \A p \in Peers : executing[p] \in currently_executed[p] \cup {Idle}
  /\ \A p \in Peers : AnnouncedIn(included_transaction_buffer[p]) \subseteq currently_executed[p]

(* What a peer tracks, the events it recognized have scheduled. *)
TrackedIsScheduled == \A p \in Peers : \A id \in currently_executed[p] :
  ScheduledIn(events, recognized[p], id)

(* What an event announces, its ancestors have scheduled. *)
AnnouncedIsScheduled == \A a \in Peers : \A n \in 1 .. Len(events[a]) :
  /\ \A b \in Peers : events[a][n].parents[b] <= Len(events[b])
  /\ \A id \in AnnouncedIn(events[a][n].txs) : ScheduledIn(events, events[a][n].parents, id)

(* What the recognized events schedule is tracked, or left in the buffer,  *)
(* which holds nothing else.                                               *)
ScheduledIsTracked ==
  /\ \A p \in Peers : recognized_transaction_buffer[p].hash = ZeroHash
  /\ \A p \in Peers : \A id : ScheduledIn(events, recognized[p], id) =>
       \/ id \in currently_executed[p]
       \/ \E g : /\ id = [hash |-> g, event_hash |-> ZeroHash]
                 /\ ExecutesIn(recognized_transaction_buffer[p].txs, g)
  /\ \A p \in Peers : \A g : ExecutesIn(recognized_transaction_buffer[p].txs, g) =>
       ScheduledIn(events, recognized[p], [hash |-> g, event_hash |-> ZeroHash])
  /\ \A p \in Peers : AnnouncedIn(recognized_transaction_buffer[p].txs) \subseteq currently_executed[p]

KnownInv == /\ HandedOutIsTracked /\ TrackedIsScheduled /\ AnnouncedIsScheduled
            /\ ScheduledIsTracked /\ ExecutedIsKnown

(* What a list schedules is its first transaction or in the others. *)
LEMMA ExecutesTail ==
  ASSUME NEW txs \in Seq(Transactions), txs # <<>>, NEW g
  PROVE  /\ ExecutesIn(Tail(txs), g) => ExecutesIn(txs, g)
         /\ ExecutesIn(txs, g) =>
              \/ Head(txs).type = "Execute" /\ Head(txs).instructions = g
              \/ ExecutesIn(Tail(txs), g)
         /\ Head(txs).type = "Execute" => ExecutesIn(txs, Head(txs).instructions)
<1>1. /\ Len(txs) >= 1 /\ Head(txs) = txs[1] /\ Len(txs) \in Nat
      /\ Len(Tail(txs)) = Len(txs) - 1
      /\ \A i \in 1 .. Len(Tail(txs)) : i + 1 \in 1 .. Len(txs) /\ Tail(txs)[i] = txs[i + 1]
  BY TailType
<1>2. 1 \in 1 .. Len(txs)
  BY <1>1
<1>3. \A i \in 1 .. Len(txs) : i # 1 => i - 1 \in 1 .. Len(Tail(txs)) /\ Tail(txs)[i - 1] = txs[i]
  <2> SUFFICES ASSUME NEW i \in 1 .. Len(txs), i # 1
               PROVE  i - 1 \in 1 .. Len(Tail(txs)) /\ Tail(txs)[i - 1] = txs[i]
    OBVIOUS
  <2>1. i - 1 \in 1 .. Len(Tail(txs)) /\ (i - 1) + 1 = i
    BY <1>1
  <2> QED
    BY <1>1, <2>1
<1>4. ASSUME ExecutesIn(Tail(txs), g) PROVE ExecutesIn(txs, g)
  <2>1. PICK i \in 1 .. Len(Tail(txs)) :
          Tail(txs)[i].type = "Execute" /\ Tail(txs)[i].instructions = g
    BY <1>4 DEF ExecutesIn
  <2>2. i + 1 \in 1 .. Len(txs) /\ Tail(txs)[i] = txs[i + 1]
    BY <1>1
  <2> QED
    BY <2>1, <2>2 DEF ExecutesIn
<1>5. ASSUME ExecutesIn(txs, g)
      PROVE  \/ Head(txs).type = "Execute" /\ Head(txs).instructions = g
             \/ ExecutesIn(Tail(txs), g)
  <2>1. PICK i \in 1 .. Len(txs) : txs[i].type = "Execute" /\ txs[i].instructions = g
    BY <1>5 DEF ExecutesIn
  <2>2. CASE i = 1
    BY <2>1, <2>2, <1>1
  <2>3. CASE i # 1
    <3>1. i - 1 \in 1 .. Len(Tail(txs)) /\ Tail(txs)[i - 1] = txs[i]
      BY <1>3, <2>3
    <3> QED
      BY <3>1, <2>1 DEF ExecutesIn
  <2> QED
    BY <2>2, <2>3
<1>6. Head(txs).type = "Execute" => ExecutesIn(txs, Head(txs).instructions)
  BY <1>1, <1>2 DEF ExecutesIn
<1> QED
  BY <1>4, <1>5, <1>6

(* At the start nothing is scheduled, and nothing tracked. *)
LEMMA KnownInit == Init => KnownInv
<1> SUFFICES ASSUME Init PROVE KnownInv
  OBVIOUS
<1>1. AnnouncedIn(<<>>) = {}
  BY AnnouncedLists
<1>2. HandedOutIsTracked
  BY <1>1 DEF Init, HandedOutIsTracked
<1>3. TrackedIsScheduled /\ AnnouncedIsScheduled /\ ExecutedIsKnown
  BY DEF Init, TrackedIsScheduled, AnnouncedIsScheduled, ExecutedIsKnown
<1>4. \A p \in Peers : \A id : ~ ScheduledIn(events, recognized[p], id)
  BY DEF Init, ScheduledIn
<1>5. \A g : ~ ExecutesIn(<<>>, g)
  BY DEF ExecutesIn
<1>6. ScheduledIsTracked
  BY <1>1, <1>4, <1>5 DEF Init, ScheduledIsTracked
<1> QED
  BY <1>2, <1>3, <1>6 DEF KnownInv

(* The instruction memory ignores nothing it is told in order, tracks what *)
(* it is given, and hands out what it tracks.                              *)
LEMMA HandleKnown ==
  ASSUME TypeOK, HandedOutIsTracked, NEW p \in Peers, NEW from \in Peers,
         NEW tx \in Transactions, NEW hash \in EventHashes, handle_tx(p, from, tx, hash),
         tx.type = "Executed" => tx.program_id \in currently_executed[p]
  PROVE  /\ ignored' = ignored
         /\ tx.type = "Execute" => currently_executed' = [currently_executed EXCEPT
              ![p] = currently_executed[p] \cup {[hash |-> tx.instructions, event_hash |-> hash]}]
         /\ tx.type # "Execute" => currently_executed' = currently_executed
         /\ \A q \in Peers : currently_executed[q] \subseteq currently_executed'[q]
         /\ \A q \in Peers : \A i \in 1 .. Len(output'[q]) :
              output'[q][i].type = "NextProgram" => output'[q][i].id \in currently_executed'[q]
<1>0. /\ output \in [Peers -> Seq(OutEvents)]
      /\ currently_executed \in [Peers -> SUBSET Identifiers]
  BY DEF TypeOK
<1>1. \A q \in Peers : \A i \in 1 .. Len(output[q]) :
        output[q][i].type = "NextProgram" => output[q][i].id \in currently_executed[q]
  BY DEF HandedOutIsTracked
<1>2. CASE tx.type = "Execute"
  <2> DEFINE id == [hash |-> tx.instructions, event_hash |-> hash]
             e == [type |-> "NextProgram", id |-> id]
  <2>1. /\ output' = [output EXCEPT ![p] = Append(output[p], e)]
        /\ currently_executed' = [currently_executed EXCEPT ![p] = currently_executed[p] \cup {id}]
        /\ ignored' = ignored
    BY <1>2 DEF handle_tx, FinalizedProgram
  <2>2. e.id = id
    OBVIOUS
  <2>3. \A q \in Peers : \A i \in 1 .. Len(output'[q]) :
          \/ i \in 1 .. Len(output[q]) /\ output'[q][i] = output[q][i]
          \/ q = p /\ output'[q][i] = e
    <3> HIDE DEF e
    <3> QED
      BY <1>0, <2>1, EnqueueCases
  <2> HIDE DEF e
  <2>4. id \in currently_executed'[p] /\ \A q \in Peers : currently_executed[q] \subseteq currently_executed'[q]
    BY <1>0, <2>1
  <2> HIDE DEF id
  <2>5. \A q \in Peers : \A i \in 1 .. Len(output'[q]) :
          output'[q][i].type = "NextProgram" => output'[q][i].id \in currently_executed'[q]
    BY <1>1, <2>2, <2>3, <2>4
  <2> QED
    BY <1>2, <2>1, <2>4, <2>5 DEF id
<1>3. CASE tx.type = "Executed"
  <2> DEFINE id == tx.program_id
             act == [type |-> "PeerShardsActualized", peer |-> from, id |-> id]
             fin == [type |-> "FinishedExecution", id |-> id]
  <2>1. ExecutedProgram(p, from, id) /\ id \in currently_executed[p]
    BY <1>3 DEF handle_tx
  <2>2. act.type # "NextProgram" /\ fin.type # "NextProgram"
    OBVIOUS
  <2>3. /\ UNCHANGED <<currently_executed, ignored>>
        /\ \/ output' = [output EXCEPT ![p] = output[p] \o <<fin, act>>]
           \/ output' = [output EXCEPT ![p] = Append(output[p], act)]
    BY <2>1 DEF ExecutedProgram
  <2> HIDE DEF act, fin, id
  <2>4. \A q \in Peers : \A i \in 1 .. Len(output'[q]) :
          \/ i \in 1 .. Len(output[q]) /\ output'[q][i] = output[q][i]
          \/ output'[q][i] \in {fin, act}
    <3>1. CASE output' = [output EXCEPT ![p] = output[p] \o <<fin, act>>]
      <4> SUFFICES ASSUME NEW q \in Peers, NEW i \in 1 .. Len(output'[q])
                   PROVE  \/ i \in 1 .. Len(output[q]) /\ output'[q][i] = output[q][i]
                          \/ output'[q][i] \in {fin, act}
        OBVIOUS
      <4>1. CASE q = p
        <5>1. output'[q] = output[q] \o <<fin, act>> /\ output[q] \in Seq(OutEvents)
          BY <1>0, <3>1, <4>1
        <5> QED
          BY <5>1
      <4>2. CASE q # p
        BY <1>0, <3>1, <4>2
      <4> QED
        BY <4>1, <4>2
    <3>2. CASE output' = [output EXCEPT ![p] = Append(output[p], act)]
      BY <1>0, <3>2, EnqueueCases
    <3> QED
      BY <2>3, <3>1, <3>2
  <2>5. \A q \in Peers : \A i \in 1 .. Len(output'[q]) :
          output'[q][i].type = "NextProgram" => output'[q][i].id \in currently_executed'[q]
    BY <1>1, <2>2, <2>3, <2>4
  <2> QED
    BY <1>3, <2>3, <2>5
<1> QED
  BY <1>2, <1>3 DEF handle_tx

(* A new event announces what its author tracks, which its ancestors have  *)
(* scheduled; the events there are stay as they are.                       *)
LEMMA CreateKnown ==
  ASSUME TypeInv, KnownInv, NEW p \in Peers, NEW parents \in [Peers -> Nat],
         create_event(p, parents),
         \A a \in Peers : known[p][a] <= parents[a] /\ parents[a] <= Len(events[a]),
         UNCHANGED <<recognized, recognized_transaction_buffer, currently_executed, output,
                     input, executing, ignored>>
  PROVE  KnownInv'
<1>0. /\ TypeOK /\ KnownExist
      /\ HandedOutIsTracked /\ TrackedIsScheduled /\ AnnouncedIsScheduled
      /\ ScheduledIsTracked /\ ExecutedIsKnown
  BY DEF TypeInv, KnownInv
<1>1. /\ known \in [Peers -> [Peers -> Nat]] /\ recognized \in [Peers -> [Peers -> Nat]]
      /\ events \in [Peers -> Seq(Events)]
  BY <1>0 DEF TypeOK, Events
<1>2. /\ events' \in [Peers -> Seq(Events)]
      /\ \A q \in Peers : included_transaction_buffer'[q] \in
           {included_transaction_buffer[q], <<>>}
      /\ \A a \in Peers : Len(events[a]) <= Len(events'[a])
      /\ \A a \in Peers : \A n \in 1 .. Len(events[a]) : events'[a][n] = events[a][n]
      /\ \A a \in Peers : \A n \in 1 .. Len(events'[a]) : n \notin 1 .. Len(events[a]) =>
           /\ a = p /\ events'[a][n].txs = included_transaction_buffer[p]
           /\ events'[a][n].parents = parents
  <2>1. EventCreated(p, parents)
    BY <1>0, CreateEvent
  <2> QED
    BY <2>1 DEF EventCreated
<1>3. \A a \in Peers : Len(events[a]) \in Nat /\ Len(events'[a]) \in Nat
  BY <1>1, <1>2
<1>4. ASSUME NEW vec \in [Peers -> Nat], NEW vec2 \in [Peers -> Nat], NEW id,
             \A a \in Peers : vec[a] <= Len(events[a]), \A a \in Peers : vec[a] <= vec2[a],
             ScheduledIn(events, vec, id)
      PROVE  ScheduledIn(events', vec2, id)
  <2>1. \A a \in Peers : \A n \in 1 .. vec[a] : n \in 1 .. Len(events[a])
    <3> SUFFICES ASSUME NEW a \in Peers, NEW n \in 1 .. vec[a] PROVE n \in 1 .. Len(events[a])
      OBVIOUS
    <3>1. vec[a] \in Nat /\ vec[a] <= Len(events[a]) /\ Len(events[a]) \in Nat
      BY <1>3, <1>4
    <3> QED
      BY <3>1
  <2>2. \A a \in Peers : \A n \in 1 .. vec[a] : events'[a][n] = events[a][n]
    BY <1>2, <2>1
  <2>3. PICK a \in Peers : \E n \in 1 .. vec[a] : Names(events[a][n].txs, a, n, id)
    BY <1>4 DEF ScheduledIn
  <2>4. PICK n \in 1 .. vec[a] : Names(events[a][n].txs, a, n, id)
    BY <2>3
  <2>5. n \in 1 .. vec2[a]
    BY <1>4
  <2>6. Names(events'[a][n].txs, a, n, id)
    BY <2>2, <2>4
  <2> QED
    BY <2>5, <2>6 DEF ScheduledIn
<1>5. ASSUME NEW q \in Peers
      PROVE  /\ recognized[q] \in [Peers -> Nat] /\ \A a \in Peers : recognized[q][a] \in Nat
             /\ \A a \in Peers : recognized[q][a] <= Len(events[a])
             /\ \A a \in Peers : recognized[p][a] <= parents[a]
             /\ \A a \in Peers : recognized[q][a] <= recognized[q][a]
  <2>1. recognized[q] \in [Peers -> Nat]
    BY <1>1
  <2> SUFFICES ASSUME NEW a \in Peers
               PROVE  /\ recognized[q][a] \in Nat /\ recognized[q][a] <= Len(events[a])
                      /\ recognized[p][a] <= parents[a] /\ recognized[q][a] <= recognized[q][a]
    BY <2>1
  <2>2. /\ recognized[q][a] \in Nat /\ known[q][a] \in Nat
        /\ recognized[p][a] \in Nat /\ known[p][a] \in Nat /\ parents[a] \in Nat
    BY <1>1
  <2>3. /\ known[q][a] <= Len(events[a]) /\ recognized[q][a] <= known[q][a]
        /\ recognized[p][a] <= known[p][a] /\ known[p][a] <= parents[a]
    BY <1>0 DEF KnownExist
  <2> QED
    BY <1>3, <2>2, <2>3
<1>6. HandedOutIsTracked'
  <2>1. AnnouncedIn(<<>>) = {}
    BY AnnouncedLists
  <2>2. \A q \in Peers : AnnouncedIn(included_transaction_buffer'[q]) \subseteq currently_executed[q]
    BY <1>0, <1>2, <2>1 DEF HandedOutIsTracked
  <2> QED
    BY <1>0, <2>2 DEF HandedOutIsTracked
<1>7. TrackedIsScheduled'
  <2>1. \A q \in Peers : \A id \in currently_executed[q] : ScheduledIn(events', recognized[q], id)
    BY <1>0, <1>4, <1>5 DEF TrackedIsScheduled
  <2> QED
    BY <2>1 DEF TrackedIsScheduled
<1>8. AnnouncedIsScheduled'
  <2>1. ASSUME NEW a \in Peers, NEW n \in 1 .. Len(events'[a])
        PROVE  /\ \A b \in Peers : events'[a][n].parents[b] <= Len(events'[b])
               /\ \A id \in AnnouncedIn(events'[a][n].txs) :
                    ScheduledIn(events', events'[a][n].parents, id)
    <3>1. CASE n \in 1 .. Len(events[a])
      <4>1. events'[a][n] = events[a][n]
        BY <1>2, <3>1
      <4>2. events[a][n] \in Events
        BY <1>1, <3>1
      <4>3. events[a][n].parents \in [Peers -> Nat]
        BY <4>2 DEF Events
      <4>4. /\ \A b \in Peers : events[a][n].parents[b] <= Len(events[b])
            /\ \A id \in AnnouncedIn(events[a][n].txs) : ScheduledIn(events, events[a][n].parents, id)
        BY <1>0, <3>1 DEF AnnouncedIsScheduled
      <4> DEFINE vec == events[a][n].parents
      <4>5. \A b \in Peers : vec[b] \in Nat /\ vec[b] <= vec[b] /\ vec[b] <= Len(events'[b])
        <5> SUFFICES ASSUME NEW b \in Peers
                     PROVE  vec[b] \in Nat /\ vec[b] <= vec[b] /\ vec[b] <= Len(events'[b])
          OBVIOUS
        <5>1. vec[b] \in Nat /\ vec[b] <= Len(events[b]) /\ Len(events[b]) <= Len(events'[b])
          BY <1>2, <4>3, <4>4
        <5> HIDE DEF vec
        <5> QED
          BY <1>3, <5>1
      <4>6. \A id \in AnnouncedIn(events[a][n].txs) : ScheduledIn(events', vec, id)
        BY <1>4, <4>3, <4>4, <4>5
      <4> QED
        BY <4>1, <4>5, <4>6
    <3>2. CASE n \notin 1 .. Len(events[a])
      <4>1. /\ events'[a][n].txs = included_transaction_buffer[p]
            /\ events'[a][n].parents = parents
        BY <1>2, <2>1, <3>2
      <4>2. \A id \in AnnouncedIn(included_transaction_buffer[p]) : ScheduledIn(events, recognized[p], id)
        BY <1>0 DEF HandedOutIsTracked, TrackedIsScheduled
      <4>3. \A id \in AnnouncedIn(included_transaction_buffer[p]) : ScheduledIn(events', parents, id)
        BY <1>4, <1>5, <4>2
      <4>4. \A b \in Peers : parents[b] <= Len(events'[b])
        <5> SUFFICES ASSUME NEW b \in Peers PROVE parents[b] <= Len(events'[b])
          OBVIOUS
        <5>1. parents[b] \in Nat /\ parents[b] <= Len(events[b]) /\ Len(events[b]) <= Len(events'[b])
          BY <1>2
        <5> QED
          BY <1>3, <5>1
      <4> QED
        BY <4>1, <4>3, <4>4
    <3> QED
      BY <3>1, <3>2
  <2> QED
    BY <2>1 DEF AnnouncedIsScheduled
<1>9. ScheduledIsTracked'
  <2>1. ASSUME NEW q \in Peers, NEW id, ScheduledIn(events', recognized[q], id)
        PROVE  ScheduledIn(events, recognized[q], id)
    <3>1. \A a \in Peers : \A n \in 1 .. recognized[q][a] : n \in 1 .. Len(events[a])
      <4> SUFFICES ASSUME NEW a \in Peers, NEW n \in 1 .. recognized[q][a] PROVE n \in 1 .. Len(events[a])
        OBVIOUS
      <4>1. recognized[q][a] \in Nat /\ recognized[q][a] <= Len(events[a]) /\ Len(events[a]) \in Nat
        BY <1>3, <1>5
      <4> QED
        BY <4>1
    <3>2. \A a \in Peers : \A n \in 1 .. recognized[q][a] : events[a][n] = events'[a][n]
      BY <1>2, <3>1
    <3>3. PICK a \in Peers : \E n \in 1 .. recognized[q][a] : Names(events'[a][n].txs, a, n, id)
      BY <2>1 DEF ScheduledIn
    <3>4. PICK n \in 1 .. recognized[q][a] : Names(events'[a][n].txs, a, n, id)
      BY <3>3
    <3>5. Names(events[a][n].txs, a, n, id)
      BY <3>2, <3>4
    <3> QED
      BY <3>5 DEF ScheduledIn
  <2>2. \A q \in Peers : \A g : ExecutesIn(recognized_transaction_buffer[q].txs, g) =>
          ScheduledIn(events', recognized[q], [hash |-> g, event_hash |-> ZeroHash])
    BY <1>0, <1>4, <1>5 DEF ScheduledIsTracked
  <2> QED
    BY <1>0, <2>1, <2>2 DEF ScheduledIsTracked
<1>10. ExecutedIsKnown'
  BY <1>0 DEF ExecutedIsKnown
<1> QED
  BY <1>6, <1>7, <1>8, <1>9, <1>10 DEF KnownInv

(* More events schedule more. *)
LEMMA ScheduledMore ==
  ASSUME NEW vec \in [Peers -> Nat], NEW vec2 \in [Peers -> Nat], NEW id,
         \A a \in Peers : vec[a] <= vec2[a], ScheduledIn(events, vec, id)
  PROVE  ScheduledIn(events, vec2, id)
<1>1. PICK a \in Peers : \E n \in 1 .. vec[a] : Names(events[a][n].txs, a, n, id)
  BY DEF ScheduledIn
<1>2. PICK n \in 1 .. vec[a] : Names(events[a][n].txs, a, n, id)
  BY <1>1
<1>3. n \in 1 .. vec2[a]
  OBVIOUS
<1> QED
  BY <1>2, <1>3 DEF ScheduledIn

(* Recognizing a transaction that is left of an event: a program is        *)
(* tracked instead of buffered, an announced one is tracked already.       *)
LEMMA BufferedKnown ==
  ASSUME TypeInv, KnownInv, NEW p \in Peers, RecognizeBuffered(p)
  PROVE  KnownInv'
<1> DEFINE buffer == recognized_transaction_buffer[p]
           tx == Head(buffer.txs)
<1>0. /\ TypeOK
      /\ HandedOutIsTracked /\ TrackedIsScheduled /\ AnnouncedIsScheduled
      /\ ScheduledIsTracked /\ ExecutedIsKnown
  BY DEF TypeInv, KnownInv
<1>1. /\ buffer.txs # <<>> /\ handle_tx(p, buffer.author, tx, buffer.hash)
      /\ recognized_transaction_buffer' =
           [recognized_transaction_buffer EXCEPT ![p].txs = Tail(buffer.txs)]
      /\ UNCHANGED <<included_transaction_buffer, events, recognized, input, executing>>
  BY DEF RecognizeBuffered, processor
<1>2. /\ recognized_transaction_buffer \in [Peers -> Buffers]
      /\ currently_executed \in [Peers -> SUBSET Identifiers]
  BY <1>0 DEF TypeOK, Buffers
<1>3. buffer.txs \in Seq(Transactions) /\ buffer.hash \in EventHashes
  BY <1>2 DEF Buffers
<1>4. buffer.author \in Peers
  BY <1>1 DEF TypeInv, EventsCarry
<1>5. tx \in Transactions
  BY <1>1, <1>3, TailType
<1>6. buffer.hash = ZeroHash
  BY <1>0 DEF ScheduledIsTracked
<1>7. /\ AnnouncedIn(Tail(buffer.txs)) \subseteq AnnouncedIn(buffer.txs)
      /\ tx.type = "Executed" => tx.program_id \in AnnouncedIn(buffer.txs)
      /\ AnnouncedIn(buffer.txs) \subseteq currently_executed[p]
  BY <1>0, <1>1, <1>3, AnnouncedLists DEF ScheduledIsTracked
<1>8. \A g : /\ ExecutesIn(Tail(buffer.txs), g) => ExecutesIn(buffer.txs, g)
             /\ ExecutesIn(buffer.txs, g) =>
                  \/ tx.type = "Execute" /\ tx.instructions = g
                  \/ ExecutesIn(Tail(buffer.txs), g)
             /\ tx.type = "Execute" => ExecutesIn(buffer.txs, tx.instructions)
  BY <1>1, <1>3, ExecutesTail
<1> HIDE DEF tx
<1>9. /\ ignored' = ignored
      /\ tx.type = "Execute" => currently_executed' = [currently_executed EXCEPT
           ![p] = currently_executed[p] \cup {[hash |-> tx.instructions, event_hash |-> ZeroHash]}]
      /\ tx.type # "Execute" => currently_executed' = currently_executed
      /\ \A q \in Peers : currently_executed[q] \subseteq currently_executed'[q]
      /\ \A q \in Peers : \A i \in 1 .. Len(output'[q]) :
           output'[q][i].type = "NextProgram" => output'[q][i].id \in currently_executed'[q]
  BY <1>0, <1>1, <1>3, <1>4, <1>5, <1>6, <1>7, HandleKnown
<1>10. \A q \in Peers : \A id \in currently_executed'[q] :
         \/ id \in currently_executed[q]
         \/ q = p /\ tx.type = "Execute" /\ id = [hash |-> tx.instructions, event_hash |-> ZeroHash]
  BY <1>2, <1>9
<1>11. tx.type = "Execute" => [hash |-> tx.instructions, event_hash |-> ZeroHash] \in currently_executed'[p]
  BY <1>2, <1>9
<1>12. /\ recognized_transaction_buffer'[p].txs = Tail(buffer.txs)
       /\ \A q \in Peers : q # p => recognized_transaction_buffer'[q] = recognized_transaction_buffer[q]
       /\ \A q \in Peers : recognized_transaction_buffer'[q].hash = recognized_transaction_buffer[q].hash
  BY <1>1, <1>2 DEF Buffers
<1>13. HandedOutIsTracked'
  BY <1>0, <1>1, <1>9 DEF HandedOutIsTracked
<1>14. TrackedIsScheduled'
  <2>1. ASSUME NEW q \in Peers, NEW id \in currently_executed'[q]
        PROVE  ScheduledIn(events, recognized[q], id)
    <3>1. CASE id \in currently_executed[q]
      BY <1>0, <3>1 DEF TrackedIsScheduled
    <3>2. CASE q = p /\ tx.type = "Execute" /\ id = [hash |-> tx.instructions, event_hash |-> ZeroHash]
      <4>1. ExecutesIn(recognized_transaction_buffer[q].txs, tx.instructions)
        BY <1>8, <3>2
      <4> QED
        BY <1>0, <3>2, <4>1 DEF ScheduledIsTracked
    <3> QED
      BY <1>10, <2>1, <3>1, <3>2
  <2> QED
    BY <1>1, <2>1 DEF TrackedIsScheduled
<1>15. AnnouncedIsScheduled'
  BY <1>0, <1>1 DEF AnnouncedIsScheduled
<1>16. ScheduledIsTracked'
  <2>1. ASSUME NEW q \in Peers, NEW id, ScheduledIn(events, recognized[q], id)
        PROVE  \/ id \in currently_executed'[q]
               \/ \E g : /\ id = [hash |-> g, event_hash |-> ZeroHash]
                         /\ ExecutesIn(recognized_transaction_buffer'[q].txs, g)
    <3>1. CASE id \in currently_executed[q]
      BY <1>9, <3>1
    <3>2. ASSUME NEW g, id = [hash |-> g, event_hash |-> ZeroHash],
                 ExecutesIn(recognized_transaction_buffer[q].txs, g)
          PROVE  \/ id \in currently_executed'[q]
                 \/ ExecutesIn(recognized_transaction_buffer'[q].txs, g)
      <4>1. CASE q = p
        BY <1>8, <1>11, <1>12, <3>2, <4>1
      <4>2. CASE q # p
        BY <1>12, <3>2, <4>2
      <4> QED
        BY <4>1, <4>2
    <3>3. \/ id \in currently_executed[q]
          \/ \E g : /\ id = [hash |-> g, event_hash |-> ZeroHash]
                    /\ ExecutesIn(recognized_transaction_buffer[q].txs, g)
      BY <1>0, <2>1 DEF ScheduledIsTracked
    <3> QED
      BY <3>1, <3>2, <3>3
  <2>2. ASSUME NEW q \in Peers, NEW g, ExecutesIn(recognized_transaction_buffer'[q].txs, g)
        PROVE  ScheduledIn(events, recognized[q], [hash |-> g, event_hash |-> ZeroHash])
    <3>1. ExecutesIn(recognized_transaction_buffer[q].txs, g)
      <4>1. CASE q = p
        BY <1>8, <1>12, <2>2, <4>1
      <4>2. CASE q # p
        BY <1>12, <2>2, <4>2
      <4> QED
        BY <4>1, <4>2
    <3> QED
      BY <1>0, <3>1 DEF ScheduledIsTracked
  <2>3. \A q \in Peers : AnnouncedIn(recognized_transaction_buffer'[q].txs) \subseteq currently_executed'[q]
    <3> SUFFICES ASSUME NEW q \in Peers
                 PROVE  AnnouncedIn(recognized_transaction_buffer'[q].txs) \subseteq currently_executed[q]
      BY <1>9
    <3>1. CASE q = p
      BY <1>7, <1>12, <3>1
    <3>2. CASE q # p
      BY <1>0, <1>12, <3>2 DEF ScheduledIsTracked
    <3> QED
      BY <3>1, <3>2
  <2>4. \A q \in Peers : recognized_transaction_buffer'[q].hash = ZeroHash
    BY <1>0, <1>12 DEF ScheduledIsTracked
  <2> QED
    BY <1>1, <2>1, <2>2, <2>3, <2>4 DEF ScheduledIsTracked
<1>17. ExecutedIsKnown'
  BY <1>0, <1>9 DEF ExecutedIsKnown
<1> QED
  BY <1>13, <1>14, <1>15, <1>16, <1>17 DEF KnownInv

(* Recognizing the next event: no transaction is left of an earlier one,   *)
(* so what its ancestors scheduled, all it can announce, is tracked.       *)
LEMMA NextEventKnown ==
  ASSUME TypeInv, KnownInv, NEW p \in Peers, NEW a \in Peers, RecognizeNextEvent(p, a)
  PROVE  KnownInv'
<1> DEFINE n == recognized[p][a] + 1
           txs == events[a][n].txs
           parents == events[a][n].parents
           tx == Head(txs)
<1>0. /\ TypeOK
      /\ HandedOutIsTracked /\ TrackedIsScheduled /\ AnnouncedIsScheduled
      /\ ScheduledIsTracked /\ ExecutedIsKnown
  BY DEF TypeInv, KnownInv
<1>1. /\ recognized_transaction_buffer[p].txs = <<>>
      /\ next_recognized_event(p, a) /\ handle_tx(p, a, tx, <<a, n>>)
      /\ recognized_transaction_buffer' =
           [recognized_transaction_buffer EXCEPT ![p].author = a, ![p].txs = Tail(txs)]
      /\ recognized' = [recognized EXCEPT ![p][a] = n]
      /\ UNCHANGED <<included_transaction_buffer, events, input, executing>>
  BY DEF RecognizeNextEvent, processor
<1>2. /\ recognized_transaction_buffer \in [Peers -> Buffers]
      /\ currently_executed \in [Peers -> SUBSET Identifiers]
      /\ recognized \in [Peers -> [Peers -> Nat]]
  BY <1>0 DEF TypeOK, Buffers
<1>3. /\ n \in 1 .. Len(events[a]) /\ n \in Nat /\ events[a][n] \in Events
      /\ txs \in Seq(Transactions) /\ txs # <<>>
      /\ <<a, n>> \in EventHashes
  BY <1>1, NextEventType
<1>4. parents \in [Peers -> Nat]
  BY <1>3 DEF Events
<1>5. tx \in Transactions
  BY <1>3, TailType
<1>6. \A b \in Peers : parents[b] <= recognized[p][b]
  BY <1>1 DEF next_recognized_event
<1>7. AnnouncedIn(txs) \subseteq currently_executed[p]
  <2> SUFFICES ASSUME NEW id \in AnnouncedIn(txs) PROVE id \in currently_executed[p]
    OBVIOUS
  <2>1. ScheduledIn(events, parents, id)
    BY <1>0, <1>3 DEF AnnouncedIsScheduled
  <2>2. recognized[p] \in [Peers -> Nat]
    BY <1>2
  <2> HIDE DEF parents
  <2>3. ScheduledIn(events, recognized[p], id)
    BY <1>4, <1>6, <2>1, <2>2, ScheduledMore
  <2>4. \A g : ~ ExecutesIn(recognized_transaction_buffer[p].txs, g)
    <3>1. recognized_transaction_buffer[p].txs = <<>>
      BY <1>1
    <3>2. \A g : ~ ExecutesIn(<<>>, g)
      BY DEF ExecutesIn
    <3> QED
      BY <3>1, <3>2
  <2> QED
    BY <1>0, <2>3, <2>4 DEF ScheduledIsTracked
<1>8. /\ AnnouncedIn(Tail(txs)) \subseteq AnnouncedIn(txs)
      /\ tx.type = "Executed" => tx.program_id \in AnnouncedIn(txs)
  BY <1>3, AnnouncedLists
<1> DEFINE first == [hash |-> tx.instructions, event_hash |-> <<a, n>>]
<1>9. \A id : Names(txs, a, n, id) <=>
        \/ tx.type = "Execute" /\ id = first
        \/ \E g : ExecutesIn(Tail(txs), g) /\ id = [hash |-> g, event_hash |-> ZeroHash]
  BY DEF Names
<1> HIDE DEF tx
<1>10. /\ ignored' = ignored
       /\ tx.type = "Execute" =>
            currently_executed' = [currently_executed EXCEPT ![p] = currently_executed[p] \cup {first}]
       /\ tx.type # "Execute" => currently_executed' = currently_executed
       /\ \A q \in Peers : currently_executed[q] \subseteq currently_executed'[q]
       /\ \A q \in Peers : \A i \in 1 .. Len(output'[q]) :
            output'[q][i].type = "NextProgram" => output'[q][i].id \in currently_executed'[q]
  <2>1. tx.type = "Executed" => tx.program_id \in currently_executed[p]
    BY <1>7, <1>8
  <2> HIDE DEF n
  <2> QED
    BY <1>0, <1>1, <1>3, <1>5, <2>1, HandleKnown
<1> HIDE DEF first
<1>11. \A q \in Peers : \A id \in currently_executed'[q] :
         id \in currently_executed[q] \/ (q = p /\ tx.type = "Execute" /\ id = first)
  BY <1>2, <1>10
<1>12. tx.type = "Execute" => first \in currently_executed'[p]
  BY <1>2, <1>10
<1>13. /\ recognized_transaction_buffer'[p].txs = Tail(txs)
       /\ \A q \in Peers : q # p => recognized_transaction_buffer'[q] = recognized_transaction_buffer[q]
       /\ \A q \in Peers : recognized_transaction_buffer'[q].hash = recognized_transaction_buffer[q].hash
  <2> HIDE DEF txs
  <2> QED
    BY <1>1, <1>2 DEF Buffers
<1>14. /\ recognized' \in [Peers -> [Peers -> Nat]]
       /\ recognized'[p][a] = n
       /\ \A q \in Peers : q # p => recognized'[q] = recognized[q]
       /\ \A b \in Peers : b # a => recognized'[p][b] = recognized[p][b]
  <2> HIDE DEF n
  <2> QED
    BY <1>1, <1>2, <1>3
<1>15. \A q, b \in Peers : recognized[q][b] <= recognized'[q][b]
  <2> SUFFICES ASSUME NEW q \in Peers, NEW b \in Peers PROVE recognized[q][b] <= recognized'[q][b]
    OBVIOUS
  <2>1. recognized[q][b] \in Nat
    BY <1>2
  <2>2. CASE q = p /\ b = a
    BY <1>14, <2>1, <2>2
  <2>3. CASE ~ (q = p /\ b = a)
    BY <1>14, <2>1, <2>3
  <2> QED
    BY <2>2, <2>3
<1>16. ASSUME NEW q \in Peers, NEW id, ScheduledIn(events, recognized[q], id)
       PROVE  ScheduledIn(events, recognized'[q], id)
  <2>1. recognized[q] \in [Peers -> Nat] /\ recognized'[q] \in [Peers -> Nat]
    BY <1>2, <1>14
  <2> QED
    BY <1>15, <1>16, <2>1, ScheduledMore
<1>17. ASSUME NEW id, Names(txs, a, n, id) PROVE ScheduledIn(events, recognized'[p], id)
  <2>1. n \in 1 .. recognized'[p][a]
    BY <1>3, <1>14
  <2> QED
    BY <1>17, <2>1 DEF ScheduledIn
<1>18. ASSUME NEW id, ScheduledIn(events, recognized'[p], id)
       PROVE  ScheduledIn(events, recognized[p], id) \/ Names(txs, a, n, id)
  <2>1. PICK b \in Peers : \E m \in 1 .. recognized'[p][b] : Names(events[b][m].txs, b, m, id)
    BY <1>18 DEF ScheduledIn
  <2>2. PICK m \in 1 .. recognized'[p][b] : Names(events[b][m].txs, b, m, id)
    BY <2>1
  <2>3. CASE b = a /\ m = n
    BY <2>2, <2>3
  <2>4. CASE ~ (b = a /\ m = n)
    <3>1. recognized[p][a] \in Nat
      BY <1>2
    <3>2. m \in 1 .. recognized[p][b]
      <4>1. CASE b # a
        BY <1>14, <4>1
      <4>2. CASE b = a
        <5>1. m \in 1 .. (recognized[p][a] + 1) /\ m # recognized[p][a] + 1
          BY <1>14, <2>2, <2>4, <4>2
        <5> QED
          BY <3>1, <4>2, <5>1
      <4> QED
        BY <4>1, <4>2
    <3> QED
      BY <2>2, <3>2 DEF ScheduledIn
  <2> QED
    BY <2>3, <2>4
<1> HIDE DEF n, txs, parents
<1>19. HandedOutIsTracked'
  BY <1>0, <1>1, <1>10 DEF HandedOutIsTracked
<1>20. TrackedIsScheduled'
  <2>1. ASSUME NEW q \in Peers, NEW id \in currently_executed'[q]
        PROVE  ScheduledIn(events, recognized'[q], id)
    <3>1. CASE id \in currently_executed[q]
      <4>1. ScheduledIn(events, recognized[q], id)
        BY <1>0, <3>1 DEF TrackedIsScheduled
      <4> QED
        BY <1>16, <4>1
    <3>2. CASE q = p /\ tx.type = "Execute" /\ id = first
      BY <1>9, <1>17, <3>2
    <3> QED
      BY <1>11, <2>1, <3>1, <3>2
  <2> QED
    BY <1>1, <2>1 DEF TrackedIsScheduled
<1>21. AnnouncedIsScheduled'
  BY <1>0, <1>1 DEF AnnouncedIsScheduled
<1>22. ScheduledIsTracked'
  <2>1. ASSUME NEW q \in Peers, NEW id, ScheduledIn(events, recognized'[q], id)
        PROVE  \/ id \in currently_executed'[q]
               \/ \E g : /\ id = [hash |-> g, event_hash |-> ZeroHash]
                         /\ ExecutesIn(recognized_transaction_buffer'[q].txs, g)
    <3>1. CASE q # p
      <4>1. /\ recognized'[q] = recognized[q]
            /\ recognized_transaction_buffer'[q] = recognized_transaction_buffer[q]
            /\ currently_executed[q] \subseteq currently_executed'[q]
        BY <1>10, <1>13, <1>14, <3>1
      <4> QED
        BY <1>0, <2>1, <4>1 DEF ScheduledIsTracked
    <3>2. CASE q = p
      <4>1. CASE ScheduledIn(events, recognized[p], id)
        <5>1. \A g : ~ ExecutesIn(recognized_transaction_buffer[p].txs, g)
          BY <1>1 DEF ExecutesIn
        <5>2. id \in currently_executed[p]
          BY <1>0, <4>1, <5>1 DEF ScheduledIsTracked
        <5> QED
          BY <1>10, <3>2, <5>2
      <4>2. CASE Names(txs, a, n, id)
        BY <1>9, <1>12, <1>13, <3>2, <4>2
      <4> QED
        BY <1>18, <2>1, <3>2, <4>1, <4>2
    <3> QED
      BY <3>1, <3>2
  <2>2. ASSUME NEW q \in Peers, NEW g, ExecutesIn(recognized_transaction_buffer'[q].txs, g)
        PROVE  ScheduledIn(events, recognized'[q], [hash |-> g, event_hash |-> ZeroHash])
    <3>1. CASE q = p
      BY <1>9, <1>13, <1>17, <2>2, <3>1
    <3>2. CASE q # p
      <4>1. ExecutesIn(recognized_transaction_buffer[q].txs, g)
        BY <1>13, <2>2, <3>2
      <4>2. ScheduledIn(events, recognized[q], [hash |-> g, event_hash |-> ZeroHash])
        BY <1>0, <4>1 DEF ScheduledIsTracked
      <4> QED
        BY <1>16, <4>2
    <3> QED
      BY <3>1, <3>2
  <2>3. \A q \in Peers : AnnouncedIn(recognized_transaction_buffer'[q].txs) \subseteq currently_executed'[q]
    <3> SUFFICES ASSUME NEW q \in Peers
                 PROVE  AnnouncedIn(recognized_transaction_buffer'[q].txs) \subseteq currently_executed[q]
      BY <1>10
    <3>1. CASE q = p
      BY <1>7, <1>8, <1>13, <3>1
    <3>2. CASE q # p
      BY <1>0, <1>13, <3>2 DEF ScheduledIsTracked
    <3> QED
      BY <3>1, <3>2
  <2>4. \A q \in Peers : recognized_transaction_buffer'[q].hash = ZeroHash
    BY <1>0, <1>13 DEF ScheduledIsTracked
  <2> QED
    BY <1>1, <2>1, <2>2, <2>3, <2>4 DEF ScheduledIsTracked
<1>23. ExecutedIsKnown'
  BY <1>0, <1>10 DEF ExecutedIsKnown
<1> QED
  BY <1>19, <1>20, <1>21, <1>22, <1>23 DEF KnownInv

(* Every action keeps the invariant. *)
LEMMA KnownNext == TypeInv /\ KnownInv /\ [Next]_vars => KnownInv'
<1> SUFFICES ASSUME TypeInv, KnownInv, [Next]_vars PROVE KnownInv'
  OBVIOUS
<1>0. /\ TypeOK /\ KnownExist
      /\ HandedOutIsTracked /\ TrackedIsScheduled /\ AnnouncedIsScheduled
      /\ ScheduledIsTracked /\ ExecutedIsKnown
  BY DEF TypeInv, KnownInv
<1>1. ASSUME UNCHANGED <<events, recognized, recognized_transaction_buffer, currently_executed, ignored>>,
             HandedOutIsTracked'
      PROVE  KnownInv'
  <2>1. TrackedIsScheduled' /\ AnnouncedIsScheduled' /\ ExecutedIsKnown'
    BY <1>0, <1>1 DEF TrackedIsScheduled, AnnouncedIsScheduled, ExecutedIsKnown
  <2>2. ScheduledIsTracked'
    BY <1>0, <1>1 DEF ScheduledIsTracked
  <2> QED
    BY <1>1, <2>1, <2>2 DEF KnownInv
<1>2. ASSUME UNCHANGED <<included_transaction_buffer, events, recognized,
                         recognized_transaction_buffer, currently_executed, output, input,
                         executing, ignored>>
      PROVE  KnownInv'
  <2>1. HandedOutIsTracked'
    BY <1>0, <1>2 DEF HandedOutIsTracked
  <2> QED
    BY <1>1, <1>2, <2>1
<1>3. ASSUME NEW p \in Peers, NEW tx \in Transactions,
             included_transaction_buffer' =
               [included_transaction_buffer EXCEPT ![p] = Append(included_transaction_buffer[p], tx)],
             tx.type = "Executed" => tx.program_id \in currently_executed[p],
             UNCHANGED <<events, recognized, recognized_transaction_buffer, currently_executed,
                         output, input, ignored>>,
             \A q \in Peers : executing'[q] \in {executing[q], Idle}
      PROVE  KnownInv'
  <2>1. included_transaction_buffer \in [Peers -> Seq(Transactions)]
    BY <1>0 DEF TypeOK
  <2>2. \A q \in Peers : AnnouncedIn(included_transaction_buffer[q]) \subseteq currently_executed[q]
    BY <1>0 DEF HandedOutIsTracked
  <2>3. ASSUME NEW q \in Peers, NEW id \in AnnouncedIn(included_transaction_buffer'[q])
        PROVE  id \in currently_executed[q]
    <3>1. CASE q = p
      <4>1. included_transaction_buffer'[q] = Append(included_transaction_buffer[q], tx)
        BY <1>3, <2>1, <3>1
      <4>2. id \in AnnouncedIn(included_transaction_buffer[q]) \/ (tx.type = "Executed" /\ id = tx.program_id)
        BY <2>1, <2>3, <4>1, AnnouncedLists
      <4> QED
        BY <1>3, <2>2, <3>1, <4>2
    <3>2. CASE q # p
      BY <1>3, <2>1, <2>2, <2>3, <3>2
    <3> QED
      BY <3>1, <3>2
  <2>4. HandedOutIsTracked'
    BY <1>0, <1>3, <2>3 DEF HandedOutIsTracked
  <2> QED
    BY <1>1, <1>3, <2>4
<1>4. ASSUME NEW p \in Commanders, NEW g \in Programs, ScheduleProgram(p, g) PROVE KnownInv'
  <2> DEFINE tx == [type |-> "Execute", instructions |-> g]
  <2>1. tx \in Transactions /\ tx.type # "Executed" /\ p \in Peers
    BY PeerAssumption DEF Transactions
  <2>2. /\ included_transaction_buffer' =
             [included_transaction_buffer EXCEPT ![p] = Append(included_transaction_buffer[p], tx)]
        /\ UNCHANGED <<events, recognized, recognized_transaction_buffer, currently_executed,
                       output, input, executing, ignored>>
    BY <1>4 DEF ScheduleProgram, push_tx, instructions, processor
  <2> HIDE DEF tx
  <2> QED
    BY <1>3, <2>1, <2>2
<1>5. ASSUME NEW p \in Peers, NEW q \in Peers, Gossip(p, q) PROVE KnownInv'
  <2>1. known \in [Peers -> [Peers -> Nat]]
    BY <1>0 DEF TypeOK
  <2>2. known[p] \in [Peers -> Nat] /\ \A a \in Peers : known[p][a] \in Nat
    BY <2>1
  <2>3. \A a \in Peers : known[p][a] <= known[p][a] /\ known[p][a] <= Len(events[a])
    BY <1>0, <2>2 DEF KnownExist
  <2> QED
    BY <1>5, <2>2, <2>3, CreateKnown DEF Gossip, instructions, processor
<1>6. ASSUME NEW p \in Peers, NEW q \in Peers, ApplySync(p, q) PROVE KnownInv'
  <2> DEFINE parents == [a \in Peers |-> IF sync[q][p][a] > known[p][a]
                                         THEN sync[q][p][a] ELSE known[p][a]]
  <2>1. /\ sync[q][p] # NoSync /\ create_event(p, parents)
        /\ UNCHANGED <<recognized, recognized_transaction_buffer, currently_executed, output,
                       input, executing, ignored>>
    BY <1>6 DEF ApplySync, instructions, processor
  <2>2. /\ known \in [Peers -> [Peers -> Nat]]
        /\ sync \in [Peers -> [Peers -> [Peers -> Nat] \cup {NoSync}]]
    BY <1>0 DEF TypeOK
  <2>3. sync[q][p] \in [Peers -> Nat]
    BY <2>1, <2>2
  <2>4. parents \in [Peers -> Nat]
    BY <2>2, <2>3
  <2>5. \A a \in Peers : known[p][a] <= parents[a] /\ parents[a] <= Len(events[a])
    BY <1>0, <2>1, <2>2, <2>3 DEF KnownExist
  <2> HIDE DEF parents
  <2> QED
    BY <2>1, <2>4, <2>5, CreateKnown
<1>7. ASSUME NEW p \in Peers, Recognize(p) PROVE KnownInv'
  BY <1>7, BufferedKnown, NextEventKnown DEF Recognize
<1>8. ASSUME NEW p \in Peers, PollInstructionMemory(p) PROVE KnownInv'
  <2> DEFINE event == Head(output[p])
  <2>1. /\ output[p] # <<>> /\ output' = [output EXCEPT ![p] = Tail(output[p])]
        /\ input' = IF event.type = "NextProgram"
                    THEN [input EXCEPT ![p] = Append(input[p], event.id)] ELSE input
        /\ UNCHANGED <<included_transaction_buffer, events, recognized,
                       recognized_transaction_buffer, currently_executed, executing, ignored>>
    BY <1>8 DEF PollInstructionMemory, graph, instructions
  <2>2. output \in [Peers -> Seq(OutEvents)] /\ input \in [Peers -> Seq(Identifiers)]
    BY <1>0 DEF TypeOK
  <2>3. /\ output[p] \in Seq(OutEvents) /\ 1 \in 1 .. Len(output[p]) /\ event = output[p][1]
        /\ \A i \in 1 .. Len(Tail(output[p])) :
             i + 1 \in 1 .. Len(output[p]) /\ Tail(output[p])[i] = output[p][i + 1]
    BY <2>1, <2>2, TailType
  <2>4. event.type = "NextProgram" => event.id \in currently_executed[p]
    BY <1>0, <2>3 DEF HandedOutIsTracked
  <2> HIDE DEF event
  <2>5. \A q \in Peers : \A i \in 1 .. Len(output'[q]) :
          output'[q][i].type = "NextProgram" => output'[q][i].id \in currently_executed[q]
    BY <1>0, <2>1, <2>2, <2>3 DEF HandedOutIsTracked
  <2>6. \A q \in Peers : \A i \in 1 .. Len(input'[q]) : input'[q][i] \in currently_executed[q]
    <3>1. CASE event.type = "NextProgram"
      <4>1. input' = [input EXCEPT ![p] = Append(input[p], event.id)]
        BY <2>1, <3>1
      <4>2. \A q \in Peers : \A i \in 1 .. Len(input'[q]) :
              \/ i \in 1 .. Len(input[q]) /\ input'[q][i] = input[q][i]
              \/ q = p /\ input'[q][i] = event.id
        BY <2>2, <4>1, EnqueueCases
      <4> QED
        BY <1>0, <2>4, <3>1, <4>2 DEF HandedOutIsTracked
    <3>2. CASE event.type # "NextProgram"
      BY <1>0, <2>1, <3>2 DEF HandedOutIsTracked
    <3> QED
      BY <3>1, <3>2
  <2>7. HandedOutIsTracked'
    BY <1>0, <2>1, <2>5, <2>6 DEF HandedOutIsTracked
  <2> QED
    BY <1>1, <2>1, <2>7
<1>9. ASSUME NEW p \in Peers, StartExecution(p) PROVE KnownInv'
  <2>1. /\ input[p] # <<>> /\ executing' = [executing EXCEPT ![p] = Head(input[p])]
        /\ input' = [input EXCEPT ![p] = Tail(input[p])]
        /\ UNCHANGED <<included_transaction_buffer, events, recognized,
                       recognized_transaction_buffer, currently_executed, output, ignored>>
    BY <1>9 DEF StartExecution, graph, instructions
  <2>2. input \in [Peers -> Seq(Identifiers)] /\ executing \in [Peers -> Identifiers \cup {Idle}]
    BY <1>0 DEF TypeOK
  <2>3. /\ input[p] \in Seq(Identifiers) /\ 1 \in 1 .. Len(input[p]) /\ Head(input[p]) = input[p][1]
        /\ \A i \in 1 .. Len(Tail(input[p])) :
             i + 1 \in 1 .. Len(input[p]) /\ Tail(input[p])[i] = input[p][i + 1]
    BY <2>1, <2>2, TailType
  <2>4. \A q \in Peers : \A i \in 1 .. Len(input'[q]) : input'[q][i] \in currently_executed[q]
    <3> SUFFICES ASSUME NEW q \in Peers, NEW i \in 1 .. Len(input'[q])
                 PROVE  input'[q][i] \in currently_executed[q]
      OBVIOUS
    <3>1. \A j \in 1 .. Len(input[q]) : input[q][j] \in currently_executed[q]
      BY <1>0 DEF HandedOutIsTracked
    <3>2. CASE q = p
      <4>1. input'[q] = Tail(input[p])
        BY <2>1, <2>2, <3>2
      <4>2. i + 1 \in 1 .. Len(input[q]) /\ input'[q][i] = input[q][i + 1]
        BY <2>3, <3>2, <4>1
      <4> QED
        BY <3>1, <4>2
    <3>3. CASE q # p
      <4>1. input'[q] = input[q]
        BY <2>1, <2>2, <3>3
      <4> QED
        BY <3>1, <4>1
    <3> QED
      BY <3>2, <3>3
  <2>5. \A q \in Peers : executing'[q] \in currently_executed[q] \cup {Idle}
    BY <1>0, <2>1, <2>2, <2>3 DEF HandedOutIsTracked
  <2>6. HandedOutIsTracked'
    BY <1>0, <2>1, <2>4, <2>5 DEF HandedOutIsTracked
  <2> QED
    BY <1>1, <2>1, <2>6
<1>10. ASSUME NEW p \in Peers, FinishExecution(p) PROVE KnownInv'
  <2> DEFINE tx == [type |-> "Executed", program_id |-> executing[p]]
  <2>1. /\ executing[p] # Idle /\ executing' = [executing EXCEPT ![p] = Idle]
        /\ included_transaction_buffer' =
             [included_transaction_buffer EXCEPT ![p] = Append(included_transaction_buffer[p], tx)]
        /\ UNCHANGED <<events, recognized, recognized_transaction_buffer, currently_executed,
                       output, input, ignored>>
    BY <1>10 DEF FinishExecution, push_tx, instructions
  <2>2. executing \in [Peers -> Identifiers \cup {Idle}]
    BY <1>0 DEF TypeOK
  <2>3. executing[p] \in Identifiers
    BY <2>1, <2>2
  <2>4. tx \in Transactions /\ tx.program_id = executing[p]
    BY <2>3 DEF Transactions
  <2>5. executing[p] \in currently_executed[p]
    BY <1>0, <2>1 DEF HandedOutIsTracked
  <2>6. \A q \in Peers : executing'[q] \in {executing[q], Idle}
    BY <2>1, <2>2
  <2> HIDE DEF tx
  <2> QED
    BY <1>3, <2>1, <2>4, <2>5, <2>6
<1>11. ASSUME UNCHANGED vars PROVE KnownInv'
  BY <1>2, <1>11 DEF vars, graph, instructions, processor
<1>12. ASSUME NEW p \in Peers, NEW q \in Peers, LoseSync(p, q) PROVE KnownInv'
  BY <1>2, <1>12 DEF LoseSync, instructions, processor
<1>13. ASSUME NEW p \in Peers, Crash(p) PROVE KnownInv'
  BY <1>2, <1>13 DEF Crash, instructions, processor
<1> QED
  BY <1>4, <1>5, <1>6, <1>7, <1>8, <1>9, <1>10, <1>11, <1>12, <1>13 DEF Next

(* An Executed is never ignored because its program is unknown: gossip     *)
(* keeps causes before effects, at every peer, whatever is lost or stops.  *)
THEOREM ExecutedKnown == Spec => []ExecutedIsKnown
<1>1. Spec => []TypeInv
  BY TypeInit, TypeNext, PTL DEF Spec
<1>2. Spec => []KnownInv
  BY <1>1, KnownInit, KnownNext, PTL DEF Spec
<1>3. KnownInv => ExecutedIsKnown
  BY DEF KnownInv
<1> QED
  BY <1>2, <1>3, PTL

(* The identifier of a tracked program names the event that scheduled it,  *)
(* or has the hash that the transaction buffer is created with.            *)
NamesEventOrZero == \A p \in Peers : \A id \in currently_executed[p] :
  \/ id.event_hash = ZeroHash
  \/ \E a \in Peers : \E n \in 1 .. Len(events[a]) :
       /\ id.event_hash = <<a, n>>
       /\ \E i \in 1 .. Len(events[a][n].txs) :
            events[a][n].txs[i] = [type |-> "Execute", instructions |-> id.hash]

(* How far IdentifierNamesEvent holds, which the run pe_hash refutes: what *)
(* next_tx takes as the first transaction of an event is known under the   *)
(* hash of that event, at every peer, and all that is not is known under   *)
(* the hash that nobody ever sets; no program gets the hash of an event    *)
(* that did not schedule it.                                               *)
THEOREM IdentifiersNameEventOrZero == Spec => []NamesEventOrZero
<1>1. Spec => []TypeInv
  BY TypeInit, TypeNext, PTL DEF Spec
<1>2. Spec => []KnownInv
  BY <1>1, KnownInit, KnownNext, PTL DEF Spec
<1>3. TypeInv /\ KnownInv => NamesEventOrZero
  <2> SUFFICES ASSUME TypeInv, KnownInv, NEW p \in Peers, NEW id \in currently_executed[p],
                      id.event_hash # ZeroHash
               PROVE  \E a \in Peers : \E n \in 1 .. Len(events[a]) :
                        /\ id.event_hash = <<a, n>>
                        /\ \E i \in 1 .. Len(events[a][n].txs) :
                             events[a][n].txs[i] = [type |-> "Execute", instructions |-> id.hash]
    BY DEF NamesEventOrZero
  <2>1. PICK a \in Peers : \E n \in 1 .. recognized[p][a] : Names(events[a][n].txs, a, n, id)
    BY DEF KnownInv, TrackedIsScheduled, ScheduledIn
  <2>n. PICK n \in 1 .. recognized[p][a] : Names(events[a][n].txs, a, n, id)
    BY <2>1
  <2>2. /\ recognized[p][a] \in Nat /\ Len(events[a]) \in Nat
        /\ recognized[p][a] <= known[p][a] /\ known[p][a] <= Len(events[a]) /\ known[p][a] \in Nat
    BY DEF TypeInv, TypeOK, KnownExist
  <2>3. n \in 1 .. Len(events[a])
    BY <2>2
  <2>4. events[a][n].txs \in Seq(Transactions) /\ events[a][n].txs # <<>>
    <3>1. events \in [Peers -> Seq(Events)]
      BY DEF TypeInv, TypeOK, Events
    <3>2. events[a] \in Seq(Events)
      BY <3>1
    <3>3. events[a][n] \in Events
      BY <2>3, <3>2
    <3> QED
      BY <2>3, <3>3 DEF TypeInv, EventsCarry, Events
  <2>5. PICK txs : txs = events[a][n].txs
    OBVIOUS
  <2>6. /\ 1 \in 1 .. Len(txs) /\ Head(txs) = txs[1] /\ txs[1] \in Transactions
    BY <2>4, <2>5
  <2>7. /\ txs[1].type = "Execute"
        /\ id = [hash |-> txs[1].instructions, event_hash |-> <<a, n>>]
    BY <2>n, <2>5, <2>6 DEF Names
  <2>8. txs[1] = [type |-> "Execute", instructions |-> id.hash]
    BY <2>6, <2>7 DEF Transactions
  <2> QED
    BY <2>3, <2>5, <2>6, <2>7, <2>8
<1> QED
  BY <1>1, <1>2, <1>3, PTL

-----------------------------------------------------------------------------
(* The order in which one commander schedules programs.                    *)

(* One peer schedules programs: the code relies on it ("command" txs are   *)
(* ordered by the ancestry between the events of one author).              *)
OneCommander == \E c \in Peers : Commanders = {c}
Commander == CHOOSE c \in Peers : Commanders = {c}

(* The places of the programs in the events of the commander: the event    *)
(* and the transaction in it, in the order of recognition.                 *)
Slots == {s \in Nat \X Nat :
  /\ s[1] \in 1 .. Len(events[Commander])
  /\ s[2] \in 1 .. Len(events[Commander][s[1]].txs)
  /\ events[Commander][s[1]].txs[s[2]].type = "Execute"}
Earlier(s, t) == s[1] < t[1] \/ (s[1] = t[1] /\ s[2] < t[2])
Before(s) == {t \in Slots : Earlier(t, s)}

(* How every peer identifies the program at a place: with the hash of the  *)
(* event when it comes first in it, else with that of a new buffer.        *)
IdOf(s) == [hash |-> events[Commander][s[1]].txs[s[2]].instructions,
            event_hash |-> IF s[2] = 1 THEN <<Commander, s[1]>> ELSE ZeroHash]

(* A program is the one scheduled after `r` others. *)
Placed(id, r) == \E s \in Slots : Cardinality(Before(s)) = r /\ IdOf(s) = id

(* The places a peer is done with: those in the events it recognized, but  *)
(* for what is left in its buffer.                                         *)
Rest(p) == IF recognized_transaction_buffer[p].author = Commander
           THEN Len(recognized_transaction_buffer[p].txs) ELSE 0
Done(p) == {s \in Slots :
  \/ s[1] < recognized[p][Commander]
  \/ /\ s[1] = recognized[p][Commander]
     /\ s[2] + Rest(p) <= Len(events[Commander][s[1]].txs)}

(* Nobody else schedules programs. *)
Programless(txs) == \A i \in 1 .. Len(txs) : txs[i].type # "Execute"
SoleScheduler == \A a \in Peers \ {Commander} :
  /\ Programless(included_transaction_buffer[a])
  /\ \A n \in 1 .. Len(events[a]) : Programless(events[a][n].txs)

(* What is left in a buffer is the end of the event recognized last.       *)
BufferIsRest(p) ==
  LET buffer == recognized_transaction_buffer[p]
      n == recognized[p][buffer.author]
      txs == events[buffer.author][n].txs
  IN  /\ buffer.hash = ZeroHash
      /\ buffer.txs # <<>> =>
           /\ n \in 1 .. Len(events[buffer.author]) /\ Len(buffer.txs) < Len(txs)
           /\ \A i \in 1 .. Len(buffer.txs) :
                buffer.txs[i] = txs[Len(txs) - Len(buffer.txs) + i]

(* What a peer executed, executes, and has in the queue of the processor   *)
(* and in the output of the instruction memory are the programs scheduled, *)
(* in that order and without a gap, up to where the peer is.               *)
Handed == [type : {"NextProgram"}, id : Identifiers]
Started(p) == Len(executed[p]) + (IF executing[p] = Idle THEN 0 ELSE 1)
InOrder(p) ==
  /\ \A i \in 1 .. Len(executed[p]) : Placed(executed[p][i], i - 1)
  /\ executing[p] # Idle => Placed(executing[p], Len(executed[p]))
  /\ \A i \in 1 .. Len(input[p]) : Placed(input[p][i], Started(p) + i - 1)
  /\ \A i \in Marked(output[p], Handed) :
       Placed(output[p][i].id, Started(p) + Len(input[p]) + Ahead(output[p], Handed, i))
  /\ Started(p) + Len(input[p]) + Count(output[p], Handed) = Cardinality(Done(p))

OrderInv == /\ IsFiniteSet(Slots) /\ SoleScheduler
            /\ \A p \in Peers : BufferIsRest(p) /\ InOrder(p)

-----------------------------------------------------------------------------
(* Places.                                                                 *)

(* The commander is the peer whose user schedules programs. *)
LEMMA CommanderIsOne ==
  ASSUME OneCommander
  PROVE  Commander \in Peers /\ Commanders = {Commander}
BY DEF OneCommander, Commander

(* A place is a pair of numbers. *)
LEMMA SlotPair ==
  ASSUME NEW s \in Slots
  PROVE  s \in Nat \X Nat /\ s[1] \in Nat /\ s[2] \in Nat /\ s = <<s[1], s[2]>>
<1>1. s \in Nat \X Nat
  BY DEF Slots
<1> QED
  BY <1>1

(* What is before a place, and what a peer is done with, is counted. *)
LEMMA PlacesFinite ==
  ASSUME IsFiniteSet(Slots)
  PROVE  /\ \A s : IsFiniteSet(Before(s)) /\ Cardinality(Before(s)) \in Nat
         /\ \A p : IsFiniteSet(Done(p)) /\ Cardinality(Done(p)) \in Nat
<1>1. \A s : Before(s) \in SUBSET Slots
  BY DEF Before
<1>2. \A p : Done(p) \in SUBSET Slots
  BY DEF Done
<1>3. \A T \in SUBSET Slots : IsFiniteSet(T) /\ Cardinality(T) \in Nat
  BY FS_Subset, FS_CardinalityType
<1> QED
  BY <1>1, <1>2, <1>3

(* Of two places one is earlier, and then it has fewer before it. *)
LEMMA EarlierIsLess ==
  ASSUME IsFiniteSet(Slots), NEW s \in Slots, NEW t \in Slots, Earlier(s, t)
  PROVE  Cardinality(Before(s)) < Cardinality(Before(t))
<1>1. s \notin Before(s) /\ s \in Before(t)
  BY SlotPair DEF Before, Earlier
<1>2. \A u \in Before(s) : u \in Before(t)
  BY SlotPair DEF Before, Earlier
<1>3. Before(s) \cup {s} \in SUBSET Before(t)
  BY <1>1, <1>2
<1>4. /\ IsFiniteSet(Before(s)) /\ Cardinality(Before(s)) \in Nat
      /\ IsFiniteSet(Before(t)) /\ Cardinality(Before(t)) \in Nat
  BY PlacesFinite
<1>5. Cardinality(Before(s) \cup {s}) = Cardinality(Before(s)) + 1
  BY <1>1, <1>4, FS_AddElement
<1>6. Cardinality(Before(s) \cup {s}) <= Cardinality(Before(t))
  BY <1>3, <1>4, FS_Subset
<1> QED
  BY <1>4, <1>5, <1>6

(* At first there are no places. *)
LEMMA NoPlaces ==
  ASSUME OneCommander, events = [a \in Peers |-> <<>>]
  PROVE  Slots = {} /\ \A p : Done(p) = {}
<1>1. events[Commander] = <<>>
  BY CommanderIsOne
<1>2. Slots = {}
  BY <1>1 DEF Slots
<1> QED
  BY <1>2 DEF Done

(* So there is one program after a number of others. *)
LEMMA PlacedUnique ==
  ASSUME IsFiniteSet(Slots), NEW id, NEW jd, NEW r, Placed(id, r), Placed(jd, r)
  PROVE  id = jd
<1>1. PICK s \in Slots : Cardinality(Before(s)) = r /\ IdOf(s) = id
  BY DEF Placed
<1>2. PICK t \in Slots : Cardinality(Before(t)) = r /\ IdOf(t) = jd
  BY DEF Placed
<1>3. s = t \/ Earlier(s, t) \/ Earlier(t, s)
  BY SlotPair DEF Earlier
<1>4. Cardinality(Before(s)) \in Nat /\ Cardinality(Before(t)) \in Nat
  BY PlacesFinite
<1>5. ~Earlier(s, t) /\ ~Earlier(t, s)
  BY <1>1, <1>2, <1>4, EarlierIsLess
<1> QED
  BY <1>1, <1>2, <1>3, <1>5

(* The property, from the invariant. *)
LEMMA OrderSame == OrderInv => SameExecutionOrder
<1> SUFFICES ASSUME OrderInv, NEW p \in Peers, NEW q \in Peers,
                    NEW i \in 1 .. Len(executed[p]), i \in 1 .. Len(executed[q])
             PROVE  executed[p][i] = executed[q][i]
  BY DEF SameExecutionOrder
<1>1. Placed(executed[p][i], i - 1) /\ Placed(executed[q][i], i - 1)
  BY DEF OrderInv, InOrder
<1> QED
  BY <1>1, PlacedUnique DEF OrderInv

-----------------------------------------------------------------------------
(* The log of the commander grows at its end.                              *)

LogGrows ==
  /\ Len(events[Commander]) \in Nat /\ Len(events'[Commander]) \in Nat
  /\ Len(events[Commander]) <= Len(events'[Commander])
  /\ \A n \in 1 .. Len(events[Commander]) : events'[Commander][n] = events[Commander][n]

(* New places come after those there are. *)
LEMMA NewSlots ==
  ASSUME LogGrows
  PROVE  /\ \A s \in Slots : s \in Slots' /\ s[1] \in 1 .. Len(events[Commander])
         /\ \A s \in Slots' : /\ s[1] \in 1 .. Len(events'[Commander])
                              /\ s[2] \in 1 .. Len(events'[Commander][s[1]].txs)
                              /\ s \in Nat \X Nat
                              /\ s \in Slots \/ s[1] > Len(events[Commander])
<1>1. ASSUME NEW s \in Slots
      PROVE  s \in Slots' /\ s[1] \in 1 .. Len(events[Commander])
  <2>1. /\ s \in Nat \X Nat /\ s[1] \in 1 .. Len(events[Commander])
        /\ s[2] \in 1 .. Len(events[Commander][s[1]].txs)
        /\ events[Commander][s[1]].txs[s[2]].type = "Execute"
    BY DEF Slots
  <2>2. s[1] \in 1 .. Len(events'[Commander])
    BY <2>1 DEF LogGrows
  <2>3. events'[Commander][s[1]] = events[Commander][s[1]]
    BY <2>1 DEF LogGrows
  <2> QED
    BY <2>1, <2>2, <2>3 DEF Slots
<1>2. ASSUME NEW s \in Slots'
      PROVE  /\ s[1] \in 1 .. Len(events'[Commander])
             /\ s[2] \in 1 .. Len(events'[Commander][s[1]].txs)
             /\ s \in Nat \X Nat
             /\ s \in Slots \/ s[1] > Len(events[Commander])
  <2>1. /\ s \in Nat \X Nat /\ s[1] \in 1 .. Len(events'[Commander])
        /\ s[2] \in 1 .. Len(events'[Commander][s[1]].txs)
        /\ events'[Commander][s[1]].txs[s[2]].type = "Execute"
    BY DEF Slots
  <2>2. s[1] > Len(events[Commander]) \/ s[1] \in 1 .. Len(events[Commander])
    BY <2>1 DEF LogGrows
  <2>3. s[1] \in 1 .. Len(events[Commander]) => s \in Slots
    BY <2>1 DEF LogGrows, Slots
  <2> QED
    BY <2>1, <2>2, <2>3
<1> QED
  BY <1>1, <1>2

(* The places there are keep their number and their program. *)
PlacedNext(id, r) == \E s \in Slots' : Cardinality(Before(s)') = r /\ IdOf(s)' = id
Keeps == \A id, r : Placed(id, r) => PlacedNext(id, r)

(* Programs keep their places when the log grows. *)
LEMMA PlacesKept ==
  ASSUME LogGrows
  PROVE  Keeps
<1> SUFFICES ASSUME NEW id, NEW r, Placed(id, r)
             PROVE  PlacedNext(id, r)
  BY DEF Keeps
<1>1. PICK s \in Slots : Cardinality(Before(s)) = r /\ IdOf(s) = id
  BY DEF Placed
<1>2. s \in Slots' /\ s[1] \in 1 .. Len(events[Commander])
  BY NewSlots
<1>3. IdOf(s)' = IdOf(s)
  BY <1>2 DEF IdOf, LogGrows
<1>4. Before(s)' = Before(s)
  <2>1. \A t \in Slots' : Earlier(t, s) => t \in Slots
    <3> SUFFICES ASSUME NEW t \in Slots', Earlier(t, s) PROVE t \in Slots
      OBVIOUS
    <3>1. t \in Slots \/ t[1] > Len(events[Commander])
      BY NewSlots
    <3>2. t[1] \in 1 .. Len(events'[Commander])
      BY NewSlots
    <3>3. t[1] <= s[1]
      BY <1>2, <3>2 DEF Earlier, LogGrows
    <3> QED
      BY <1>2, <3>1, <3>2, <3>3 DEF LogGrows
  <2>2. \A t \in Slots : t \in Slots'
    BY NewSlots
  <2>3. Before(s)' = {t \in Slots' : Earlier(t, s)}
    BY DEF Before, Earlier
  <2> QED
    BY <2>1, <2>2, <2>3 DEF Before
<1> QED
  BY <1>1, <1>2, <1>3, <1>4 DEF PlacedNext

(* Nobody is done with a new place. *)
LEMMA DoneKept ==
  ASSUME LogGrows, NEW p, recognized[p][Commander] \in Nat,
         recognized[p][Commander] <= Len(events[Commander]),
         UNCHANGED <<recognized, recognized_transaction_buffer>>
  PROVE  Done(p)' = Done(p)
<1>1. Rest(p)' = Rest(p)
  BY DEF Rest
<1> DEFINE In(s) == \/ s[1] < recognized[p][Commander]
                    \/ /\ s[1] = recognized[p][Commander]
                       /\ s[2] + Rest(p) <= Len(events[Commander][s[1]].txs)
           New(s) == \/ s[1] < recognized[p][Commander]
                     \/ /\ s[1] = recognized[p][Commander]
                        /\ s[2] + Rest(p) <= Len(events'[Commander][s[1]].txs)
<1>2. Done(p) = {s \in Slots : In(s)} /\ Done(p)' = {s \in Slots' : New(s)}
  BY <1>1 DEF Done
<1>3. \A s \in Slots : s \in Slots' /\ (New(s) <=> In(s))
  BY NewSlots DEF LogGrows
<1>4. \A s \in Slots' : New(s) => s \in Slots
  BY NewSlots DEF LogGrows
<1> HIDE DEF In, New
<1> QED
  BY <1>2, <1>3, <1>4

(* Finitely many places are added. *)
LEMMA SlotsFinite ==
  ASSUME LogGrows, IsFiniteSet(Slots), NEW m \in Nat,
         \A n \in 1 .. Len(events'[Commander]) : n \notin 1 .. Len(events[Commander]) =>
           Len(events'[Commander][n].txs) = m
  PROVE  IsFiniteSet(Slots')
<1> DEFINE added == (1 .. Len(events'[Commander])) \X (1 .. m)
<1>1. IsFiniteSet(added)
  BY IntervalSize, FS_Product DEF LogGrows
<1>2. \A s \in Slots' : s \in Slots \cup added
  <2> SUFFICES ASSUME NEW s \in Slots', s \notin Slots PROVE s \in added
    OBVIOUS
  <2>1. /\ s[1] \in 1 .. Len(events'[Commander]) /\ s[1] > Len(events[Commander])
        /\ s[2] \in 1 .. Len(events'[Commander][s[1]].txs) /\ s \in Nat \X Nat
    BY NewSlots
  <2>2. s[1] \notin 1 .. Len(events[Commander])
    BY <2>1 DEF LogGrows
  <2>3. s[2] \in 1 .. m
    BY <2>1, <2>2
  <2> QED
    BY <2>1, <2>3
<1>3. IsFiniteSet(Slots \cup added)
  <2> HIDE DEF added
  <2> QED
    BY <1>1, FS_Union
<1>4. Slots' \in SUBSET (Slots \cup added)
  BY <1>2
<1> HIDE DEF added
<1> QED
  BY <1>3, <1>4, FS_Subset

-----------------------------------------------------------------------------
(* Recognizing a transaction of the commander: the place it comes from is  *)
(* the first one the peer is not done with.                                *)

Advances(p, t) == Done(p) = Before(t) /\ Done(p)' = Before(t) \cup ({t} \cap Slots)

(* Where a peer is, in terms of places. *)
LEMMA DoneMembers ==
  ASSUME NEW p, NEW n, NEW rest, recognized[p][Commander] = n, Rest(p) = rest
  PROVE  Done(p) = {s \in Slots : \/ s[1] < n
                                  \/ (s[1] = n /\ s[2] + rest <= Len(events[Commander][s[1]].txs))}
BY DEF Done

(* What is done after a step that leaves the events alone. *)
LEMMA DoneMembersNext ==
  ASSUME NEW p, NEW n, NEW rest, recognized'[p][Commander] = n, Rest(p)' = rest,
         events' = events
  PROVE  Done(p)' = {s \in Slots : \/ s[1] < n
                                   \/ (s[1] = n /\ s[2] + rest <= Len(events[Commander][s[1]].txs))}
BY DEF Done, Slots

(* A place is a program of an event of the commander. *)
LEMMA SlotBounds ==
  ASSUME NEW s \in Slots
  PROVE  /\ s[1] \in 1 .. Len(events[Commander])
         /\ s[2] \in 1 .. Len(events[Commander][s[1]].txs)
         /\ events[Commander][s[1]].txs[s[2]].type = "Execute"
BY DEF Slots

(* The first transaction of the next event ... *)
LEMMA AdvanceEvent ==
  ASSUME NEW p, NEW n \in Nat, NEW len \in Nat,
         recognized[p][Commander] = n, recognized'[p][Commander] = n + 1,
         Rest(p) = 0, len = Len(events[Commander][n + 1].txs), Rest(p)' = len - 1,
         \A m \in 1 .. Len(events[Commander]) : Len(events[Commander][m].txs) \in Nat,
         events' = events
  PROVE  Advances(p, <<n + 1, 1>>)
<1> DEFINE t == <<n + 1, 1>>
           Bound(m) == Len(events[Commander][m].txs)
<1>1. Done(p) = {s \in Slots : s[1] < n \/ (s[1] = n /\ s[2] + 0 <= Bound(s[1]))}
  BY DoneMembers
<1>2. Done(p)' = {s \in Slots : s[1] < n + 1 \/ (s[1] = n + 1 /\ s[2] + (len - 1) <= Bound(s[1]))}
  BY DoneMembersNext
<1>3. \A s \in Slots : /\ s[1] \in Nat /\ s[2] \in Nat /\ s = <<s[1], s[2]>>
                      /\ s[2] \in 1 .. Bound(s[1]) /\ Bound(s[1]) \in Nat
  BY SlotPair, SlotBounds
<1>4. Bound(n + 1) = len
  OBVIOUS
<1> HIDE DEF Bound
<1>5. Before(t) = {s \in Slots : s[1] < n + 1 \/ (s[1] = n + 1 /\ s[2] < 1)}
  BY DEF Before, Earlier
<1>6. Done(p) = Before(t)
  BY <1>1, <1>3, <1>5
<1>7. Done(p)' = Before(t) \cup ({t} \cap Slots)
  <2>1. ASSUME NEW s \in Slots
        PROVE  (s[1] < n + 1 \/ (s[1] = n + 1 /\ s[2] + (len - 1) <= Bound(s[1])))
                 <=> (s[1] < n + 1 \/ (s[1] = n + 1 /\ s[2] < 1)) \/ s = t
    <3>1. CASE s[1] = n + 1
      <4>1. Bound(s[1]) = len
        BY <1>4, <3>1
      <4>2. s = t <=> s[2] = 1
        BY <1>3, <3>1
      <4>3. PICK k : k = s[2]
        OBVIOUS
      <4>4. k \in Nat /\ k >= 1 /\ len \in Nat
        BY <1>3, <4>3
      <4>5. (k + (len - 1) <= len) <=> (k < 1 \/ k = 1)
        BY ONLY <4>4
      <4> QED
        BY <3>1, <4>1, <4>2, <4>3, <4>5
    <3>2. CASE s[1] # n + 1
      BY <1>3, <3>2
    <3> QED
      BY <3>1, <3>2
  <2> HIDE DEF t
  <2> QED
    BY <1>2, <1>5, <2>1
<1> QED
  BY <1>6, <1>7 DEF Advances

(* ... and one that is left of the event recognized last. *)
LEMMA AdvanceBuffer ==
  ASSUME NEW p, NEW n \in Nat, NEW len \in Nat, NEW rest \in Nat, 0 < rest,
         recognized[p][Commander] = n, recognized'[p][Commander] = n,
         Rest(p) = rest, len = Len(events[Commander][n].txs), Rest(p)' = rest - 1,
         \A m \in 1 .. Len(events[Commander]) : Len(events[Commander][m].txs) \in Nat,
         events' = events
  PROVE  Advances(p, <<n, len - rest + 1>>)
<1> DEFINE t == <<n, len - rest + 1>>
           Bound(m) == Len(events[Commander][m].txs)
<1>1. Done(p) = {s \in Slots : s[1] < n \/ (s[1] = n /\ s[2] + rest <= Bound(s[1]))}
  BY DoneMembers
<1>2. Done(p)' = {s \in Slots : s[1] < n \/ (s[1] = n /\ s[2] + (rest - 1) <= Bound(s[1]))}
  BY DoneMembersNext
<1>3. \A s \in Slots : /\ s[1] \in Nat /\ s[2] \in Nat /\ s = <<s[1], s[2]>>
                      /\ s[2] \in 1 .. Bound(s[1]) /\ Bound(s[1]) \in Nat
  BY SlotPair, SlotBounds
<1>4. Bound(n) = len
  OBVIOUS
<1> HIDE DEF Bound
<1>5. Before(t) = {s \in Slots : s[1] < n \/ (s[1] = n /\ s[2] < len - rest + 1)}
  BY DEF Before, Earlier
<1>6. Done(p) = Before(t)
  <2>1. ASSUME NEW s \in Slots
        PROVE  (s[1] < n \/ (s[1] = n /\ s[2] + rest <= Bound(s[1])))
                 <=> (s[1] < n \/ (s[1] = n /\ s[2] < len - rest + 1))
    <3>1. s[1] = n => Bound(s[1]) = len
      BY <1>4
    <3>2. PICK k : k = s[2]
      OBVIOUS
    <3>3. k \in Nat /\ len \in Nat /\ rest \in Nat
      BY <1>3, <3>2
    <3>4. (k + rest <= len) <=> (k < len - rest + 1)
      BY ONLY <3>3
    <3> QED
      BY <3>1, <3>2, <3>4
  <2> HIDE DEF t
  <2> QED
    BY <1>1, <1>5, <2>1
<1>7. Done(p)' = Before(t) \cup ({t} \cap Slots)
  <2>1. ASSUME NEW s \in Slots
        PROVE  (s[1] < n \/ (s[1] = n /\ s[2] + (rest - 1) <= Bound(s[1])))
                 <=> (s[1] < n \/ (s[1] = n /\ s[2] < len - rest + 1)) \/ s = t
    <3>1. CASE s[1] = n
      <4>1. Bound(s[1]) = len
        BY <1>4, <3>1
      <4>2. s = t <=> s[2] = len - rest + 1
        BY <1>3, <3>1
      <4>3. PICK k : k = s[2]
        OBVIOUS
      <4>4. k \in Nat /\ len \in Nat /\ rest \in Nat
        BY <1>3, <4>3
      <4>5. (k + (rest - 1) <= len) <=> (k < len - rest + 1 \/ k = len - rest + 1)
        BY ONLY <4>4
      <4> QED
        BY <3>1, <4>1, <4>2, <4>3, <4>5
    <3>2. CASE s[1] # n
      BY <1>3, <3>2
    <3> QED
      BY <3>1, <3>2
  <2> HIDE DEF t
  <2> QED
    BY <1>2, <1>5, <2>1
<1> QED
  BY <1>6, <1>7 DEF Advances

(* A place that is not yet done with is counted once more. *)
LEMMA AdvanceCount ==
  ASSUME IsFiniteSet(Slots), NEW p, NEW t, Advances(p, t)
  PROVE  /\ t \notin Slots => Done(p)' = Done(p)
         /\ t \in Slots => /\ Cardinality(Before(t)) = Cardinality(Done(p))
                          /\ Cardinality(Done(p)) \in Nat
                          /\ Cardinality(Done(p)') = Cardinality(Done(p)) + 1
<1>1. CASE t \notin Slots
  BY <1>1 DEF Advances
<1>2. CASE t \in Slots
  <2>1. t \notin Before(t)
    BY <1>2, SlotPair DEF Before, Earlier
  <2>2. IsFiniteSet(Before(t)) /\ Cardinality(Before(t)) \in Nat
    BY PlacesFinite
  <2>3. Cardinality(Before(t) \cup {t}) = Cardinality(Before(t)) + 1
    BY <2>1, <2>2, FS_AddElement
  <2>4. Done(p)' = Before(t) \cup {t} /\ Done(p) = Before(t)
    BY <1>2 DEF Advances
  <2> QED
    BY <1>2, <2>2, <2>3, <2>4
<1> QED
  BY <1>1, <1>2

(* A transaction of the commander comes from a place when it is a program, *)
(* which then is the next one.                                             *)
LEMMA AdvancePlaced ==
  ASSUME IsFiniteSet(Slots), NEW p, NEW n \in 1 .. Len(events[Commander]),
         NEW k \in 1 .. Len(events[Commander][n].txs), Advances(p, <<n, k>>)
  PROVE  LET tx == events[Commander][n].txs[k]
         IN  /\ tx.type # "Execute" => Done(p)' = Done(p)
             /\ tx.type = "Execute" =>
                  /\ Placed([hash |-> tx.instructions,
                              event_hash |-> IF k = 1 THEN <<Commander, n>> ELSE ZeroHash],
                             Cardinality(Done(p)))
                  /\ Cardinality(Done(p)) \in Nat
                  /\ Cardinality(Done(p)') = Cardinality(Done(p)) + 1
<1>1. PICK t : t = <<n, k>>
  OBVIOUS
<1>2. t[1] = n /\ t[2] = k /\ t \in Nat \X Nat
  BY <1>1
<1>3. t \in Slots <=> events[Commander][n].txs[k].type = "Execute"
  BY <1>2 DEF Slots
<1>4. IdOf(t) = [hash |-> events[Commander][n].txs[k].instructions,
                event_hash |-> IF k = 1 THEN <<Commander, n>> ELSE ZeroHash]
  BY <1>2 DEF IdOf
<1>5. /\ t \notin Slots => Done(p)' = Done(p)
      /\ t \in Slots => /\ Cardinality(Before(t)) = Cardinality(Done(p))
                       /\ Cardinality(Done(p)) \in Nat
                       /\ Cardinality(Done(p)') = Cardinality(Done(p)) + 1
  BY <1>1, AdvanceCount
<1>6. t \in Slots => Placed(IdOf(t), Cardinality(Done(p)))
  BY <1>5 DEF Placed
<1> QED
  BY <1>3, <1>4, <1>5, <1>6

(* A peer that takes nothing from the commander. *)
LEMMA DoneSame ==
  ASSUME NEW p, recognized'[p][Commander] = recognized[p][Commander], Rest(p)' = Rest(p),
         events' = events
  PROVE  Done(p)' = Done(p)
BY DEF Done, Slots

-----------------------------------------------------------------------------
(* The way of a program through a peer. In each step the programs placed   *)
(* stay so (PlacesKept).                                                   *)

Queues(p) ==
  /\ executed[p] \in Seq(Identifiers) /\ executing[p] \in Identifiers \cup {Idle}
  /\ input[p] \in Seq(Identifiers) /\ output[p] \in Seq(OutEvents)

(* InOrder in the next state. *)
LEMMA InOrderNext ==
  ASSUME NEW p,
         \A i \in 1 .. Len(executed'[p]) : PlacedNext(executed'[p][i], i - 1),
         executing'[p] # Idle => PlacedNext(executing'[p], Len(executed'[p])),
         \A i \in 1 .. Len(input'[p]) : PlacedNext(input'[p][i], Started(p)' + i - 1),
         \A i \in Marked(output'[p], Handed) : PlacedNext(output'[p][i].id,
           Started(p)' + Len(input'[p]) + Ahead(output'[p], Handed, i)),
         Started(p)' + Len(input'[p]) + Count(output'[p], Handed) = Cardinality(Done(p)')
  PROVE  InOrder(p)'
BY DEF InOrder, Placed, PlacedNext, Handed, Count, Marked, Ahead

(* A count of programs. *)
LEMMA StartedType ==
  ASSUME NEW p, Queues(p)
  PROVE  Started(p) \in Nat /\ Len(input[p]) \in Nat /\ Count(output[p], Handed) \in Nat
<1>1. PICK k : k = Len(executed[p])
  OBVIOUS
<1>2. k \in Nat
  BY <1>1 DEF Queues
<1>3. Started(p) = k \/ Started(p) = k + 1
  <2>1. Started(p) = k + (IF executing[p] = Idle THEN 0 ELSE 1)
    BY <1>1 DEF Started
  <2> QED
    BY <1>2, <2>1
<1>4. Started(p) \in Nat
  BY <1>2, <1>3
<1>5. Len(input[p]) \in Nat
  BY DEF Queues
<1>6. Count(output[p], Handed) \in Nat
  BY CountType DEF Queues
<1> QED
  BY <1>4, <1>5, <1>6

(* A peer that does nothing. *)
LEMMA StillInOrder ==
  ASSUME NEW p, InOrder(p), Keeps, Done(p)' = Done(p),
         executed'[p] = executed[p], executing'[p] = executing[p],
         input'[p] = input[p], output'[p] = output[p]
  PROVE  InOrder(p)'
<1>1. Started(p)' = Started(p)
  BY DEF Started
<1>2. \A i \in 1 .. Len(executed'[p]) : PlacedNext(executed'[p][i], i - 1)
  BY DEF InOrder, Keeps
<1>3. executing'[p] # Idle => PlacedNext(executing'[p], Len(executed'[p]))
  BY DEF InOrder, Keeps
<1>4. \A i \in 1 .. Len(input'[p]) : PlacedNext(input'[p][i], Started(p)' + i - 1)
  BY <1>1 DEF InOrder, Keeps
<1>5. \A i \in Marked(output'[p], Handed) :
        PlacedNext(output'[p][i].id, Started(p)' + Len(input'[p]) + Ahead(output'[p], Handed, i))
  BY <1>1 DEF InOrder, Keeps
<1>6. Started(p)' + Len(input'[p]) + Count(output'[p], Handed) = Cardinality(Done(p)')
  BY <1>1 DEF InOrder
<1> QED
  BY <1>2, <1>3, <1>4, <1>5, <1>6, InOrderNext

(* The processor takes the first program of its queue. *)
LEMMA StartInOrder ==
  ASSUME NEW p, Queues(p), InOrder(p), Keeps, Done(p)' = Done(p),
         executing[p] = Idle, input[p] # <<>>,
         executed'[p] = executed[p], output'[p] = output[p],
         executing'[p] = Head(input[p]), input'[p] = Tail(input[p])
  PROVE  InOrder(p)'
<1>1. /\ Head(input[p]) \in Identifiers /\ Head(input[p]) = input[p][1]
      /\ Len(input[p]) \in Nat \ {0} /\ Len(Tail(input[p])) = Len(input[p]) - 1
      /\ \A i \in 1 .. Len(input[p]) - 1 : Tail(input[p])[i] = input[p][i + 1]
  BY TailPlaces DEF Queues
<1>2. Started(p) = Len(executed[p]) /\ Started(p)' = Started(p) + 1 /\ Started(p) \in Nat
  <2>1. executing'[p] # Idle
    <3>1. Idle \notin Identifiers
      BY SentinelAssumption
    <3> QED
      BY <1>1, <3>1
  <2>2. Len(executed[p]) \in Nat
    BY DEF Queues
  <2>3. Started(p) = Len(executed[p]) /\ Started(p)' = Len(executed[p]) + 1
    BY <2>1, <2>2 DEF Started
  <2> QED
    BY <2>2, <2>3
<1>3. \A i \in 1 .. Len(executed'[p]) : PlacedNext(executed'[p][i], i - 1)
  BY DEF InOrder, Keeps
<1>4. PlacedNext(executing'[p], Len(executed'[p]))
  <2>1. Placed(input[p][1], Started(p) + 1 - 1)
    BY <1>1 DEF InOrder
  <2>2. Started(p) + 1 - 1 = Len(executed'[p])
    BY <1>2
  <2> QED
    BY <1>1, <2>1, <2>2 DEF Keeps
<1>5. \A i \in 1 .. Len(input'[p]) : PlacedNext(input'[p][i], Started(p)' + i - 1)
  <2> SUFFICES ASSUME NEW i \in 1 .. Len(input'[p])
               PROVE  PlacedNext(input'[p][i], Started(p)' + i - 1)
    OBVIOUS
  <2>1. i \in 1 .. Len(input[p]) - 1 /\ i + 1 \in 1 .. Len(input[p])
    BY <1>1
  <2>2. Placed(input[p][i + 1], Started(p) + (i + 1) - 1)
    BY <2>1 DEF InOrder
  <2>3. Started(p) + (i + 1) - 1 = Started(p)' + i - 1
    BY <1>2, <2>1
  <2> QED
    BY <1>1, <2>1, <2>2, <2>3 DEF Keeps
<1>6. Started(p)' + Len(input'[p]) = Started(p) + Len(input[p])
  <2>1. PICK a, b : a = Started(p) /\ b = Started(p)'
    OBVIOUS
  <2>2. PICK l, m : l = Len(input[p]) /\ m = Len(input'[p])
    OBVIOUS
  <2>3. a \in Nat /\ b = a + 1 /\ l \in Nat /\ m = l - 1
    BY <1>1, <1>2, <2>1, <2>2
  <2>4. b + m = a + l
    BY ONLY <2>3
  <2> QED
    BY <2>1, <2>2, <2>4
<1>7. \A i \in Marked(output'[p], Handed) :
        PlacedNext(output'[p][i].id, Started(p)' + Len(input'[p]) + Ahead(output'[p], Handed, i))
  BY <1>6 DEF InOrder, Keeps
<1>8. Started(p)' + Len(input'[p]) + Count(output'[p], Handed) = Cardinality(Done(p)')
  BY <1>6 DEF InOrder
<1> QED
  BY <1>3, <1>4, <1>5, <1>7, <1>8, InOrderNext

(* The processor is done with its program. *)
LEMMA FinishInOrder ==
  ASSUME NEW p, Queues(p), InOrder(p), Keeps, Done(p)' = Done(p),
         executing[p] # Idle, executing'[p] = Idle,
         executed'[p] = Append(executed[p], executing[p]),
         input'[p] = input[p], output'[p] = output[p]
  PROVE  InOrder(p)'
<1>1. /\ Len(executed[p]) \in Nat /\ Len(executed'[p]) = Len(executed[p]) + 1
      /\ \A i \in 1 .. Len(executed[p]) : executed'[p][i] = executed[p][i]
      /\ executed'[p][Len(executed[p]) + 1] = executing[p]
  BY AppendPlaces DEF Queues
<1>2. Started(p)' = Started(p)
  BY <1>1 DEF Started
<1>3. \A i \in 1 .. Len(executed'[p]) : PlacedNext(executed'[p][i], i - 1)
  <2> SUFFICES ASSUME NEW i \in 1 .. Len(executed'[p])
               PROVE  PlacedNext(executed'[p][i], i - 1)
    OBVIOUS
  <2>1. CASE i \in 1 .. Len(executed[p])
    BY <1>1, <2>1 DEF InOrder, Keeps
  <2>2. CASE i = Len(executed[p]) + 1
    <3>1. i - 1 = Len(executed[p])
      BY <1>1, <2>2
    <3> QED
      BY <1>1, <2>2, <3>1 DEF InOrder, Keeps
  <2> QED
    BY <1>1, <2>1, <2>2
<1>4. \A i \in 1 .. Len(input'[p]) : PlacedNext(input'[p][i], Started(p)' + i - 1)
  BY <1>2 DEF InOrder, Keeps
<1>5. \A i \in Marked(output'[p], Handed) :
        PlacedNext(output'[p][i].id, Started(p)' + Len(input'[p]) + Ahead(output'[p], Handed, i))
  BY <1>2 DEF InOrder, Keeps
<1>6. Started(p)' + Len(input'[p]) + Count(output'[p], Handed) = Cardinality(Done(p)')
  BY <1>2 DEF InOrder
<1> QED
  BY <1>3, <1>4, <1>5, <1>6, InOrderNext

(* The programs among the events of the instruction memory. *)
LEMMA HandedKind ==
  ASSUME NEW e \in OutEvents
  PROVE  (e \in Handed <=> e.type = "NextProgram") /\ e.id \in Identifiers
BY DEF OutEvents, Handed

(* The behaviour takes the first event of the instruction memory, and      *)
(* passes it to the processor when it is a program.                        *)
LEMMA PollInOrder ==
  ASSUME NEW p, Queues(p), InOrder(p), Keeps, Done(p)' = Done(p), output[p] # <<>>,
         executed'[p] = executed[p], executing'[p] = executing[p],
         output'[p] = Tail(output[p]),
         Head(output[p]) \in Handed => input'[p] = Append(input[p], Head(output[p]).id),
         Head(output[p]) \notin Handed => input'[p] = input[p]
  PROVE  InOrder(p)'
<1>1. PICK h : h = IF Head(output[p]) \in Handed THEN 1 ELSE 0
  OBVIOUS
<1>2. PICK a, l, m : a = Started(p) /\ l = Len(input[p]) /\ m = Len(input'[p])
  OBVIOUS
<1>3. Started(p)' = a
  BY <1>2 DEF Started
<1>4. /\ Tail(output[p]) \in Seq(OutEvents) /\ Len(Tail(output[p])) = Len(output[p]) - 1
      /\ Len(output[p]) \in Nat \ {0}
      /\ Head(output[p]) = output[p][1] /\ Head(output[p]) \in OutEvents
      /\ \A i \in 1 .. Len(output[p]) - 1 : Tail(output[p])[i] = output[p][i + 1]
  BY TailPlaces DEF Queues
<1>5. Head(output[p]).id \in Identifiers
  BY <1>4, HandedKind
<1>6. a \in Nat /\ l \in Nat /\ h \in Nat
  BY <1>1, <1>2, StartedType
<1>7. /\ m = l + h
      /\ \A i \in 1 .. l : input'[p][i] = input[p][i]
      /\ h = 1 => input'[p][l + 1] = Head(output[p]).id
      /\ h # 1 => h = 0
  <2>1. CASE Head(output[p]) \in Handed
    <3>1. PICK id : id = Head(output[p]).id
      OBVIOUS
    <3>2. input'[p] = Append(input[p], id) /\ h = 1 /\ id \in Identifiers
      BY <1>1, <1>5, <2>1, <3>1
    <3>3. input[p] \in Seq(Identifiers)
      BY DEF Queues
    <3>4. /\ Len(input'[p]) = Len(input[p]) + 1
          /\ \A i \in 1 .. Len(input[p]) : input'[p][i] = input[p][i]
          /\ input'[p][Len(input[p]) + 1] = id
      BY ONLY <3>2, <3>3, AppendPlaces
    <3> QED
      BY <1>2, <3>1, <3>2, <3>4
  <2>2. CASE Head(output[p]) \notin Handed
    <3>1. input'[p] = input[p] /\ h = 0
      BY <1>1, <2>2
    <3>2. m = l
      BY <1>2, <3>1
    <3> QED
      BY ONLY <1>6, <3>1, <3>2
  <2> QED
    BY <2>1, <2>2
<1>8. \A i \in 1 .. Len(executed'[p]) : PlacedNext(executed'[p][i], i - 1)
  BY DEF InOrder, Keeps
<1>9. executing'[p] # Idle => PlacedNext(executing'[p], Len(executed'[p]))
  BY DEF InOrder, Keeps
<1>10. \A i \in 1 .. Len(input'[p]) : PlacedNext(input'[p][i], Started(p)' + i - 1)
  <2> SUFFICES ASSUME NEW i \in 1 .. m
               PROVE  PlacedNext(input'[p][i], a + i - 1)
    BY <1>2, <1>3
  <2>1. CASE i \in 1 .. l
    <3>1. Placed(input[p][i], a + i - 1)
      BY <1>2, <2>1 DEF InOrder
    <3> QED
      BY <1>7, <2>1, <3>1 DEF Keeps
  <2>2. CASE i \notin 1 .. l
    <3>1. h = 1 /\ i = l + 1
      BY <1>6, <1>7, <2>2
    <3>2. Head(output[p]) \in Handed
      BY <1>1, <3>1
    <3>3. 1 \in Marked(output[p], Handed)
      BY <1>4, <3>2 DEF Marked
    <3>4. Placed(output[p][1].id, a + l + Ahead(output[p], Handed, 1))
      BY <1>2, <3>3 DEF InOrder
    <3>5. a + l + Ahead(output[p], Handed, 1) = a + i - 1
      BY <1>6, <3>1, AheadFirst
    <3> QED
      BY <1>4, <1>7, <3>1, <3>4, <3>5 DEF Keeps
  <2> QED
    BY <2>1, <2>2
<1>11. \A i \in Marked(output'[p], Handed) :
        PlacedNext(output'[p][i].id, Started(p)' + Len(input'[p]) + Ahead(output'[p], Handed, i))
  <2> SUFFICES ASSUME NEW i \in Marked(Tail(output[p]), Handed)
               PROVE  PlacedNext(Tail(output[p])[i].id, a + m + Ahead(Tail(output[p]), Handed, i))
    BY <1>2, <1>3
  <2>1. i \in 1 .. Len(Tail(output[p])) /\ Tail(output[p])[i] \in Handed
    BY DEF Marked
  <2>2. /\ i \in 1 .. Len(output[p]) - 1 /\ i + 1 \in 1 .. Len(output[p])
        /\ Tail(output[p])[i] = output[p][i + 1]
    BY <1>4, <2>1
  <2>3. i + 1 \in Marked(output[p], Handed)
    BY <2>1, <2>2 DEF Marked
  <2>4. Placed(output[p][i + 1].id, a + l + Ahead(output[p], Handed, i + 1))
    BY <1>2, <2>3 DEF InOrder
  <2>5. PICK x, y : x = Ahead(output[p], Handed, i + 1) /\ y = Ahead(Tail(output[p]), Handed, i)
    OBVIOUS
  <2>6. x = y + h /\ y \in Nat
    BY <1>1, <2>1, <2>5, AheadTail DEF Queues
  <2>7. a + l + x = a + m + y
    BY <1>6, <1>7, <2>6
  <2> QED
    BY <2>2, <2>4, <2>5, <2>7 DEF Keeps
<1>12. Started(p)' + Len(input'[p]) + Count(output'[p], Handed) = Cardinality(Done(p)')
  <2>1. PICK x, y : x = Count(output[p], Handed) /\ y = Count(output'[p], Handed)
    OBVIOUS
  <2>2. x = y + h /\ y \in Nat
    BY <1>1, <2>1, CountTail DEF Queues
  <2>3. a + l + x = Cardinality(Done(p))
    BY <1>2, <2>1 DEF InOrder
  <2>4. a + l + x = a + m + y
    BY <1>6, <1>7, <2>2
  <2> QED
    BY <1>2, <1>3, <2>1, <2>3, <2>4
<1> QED
  BY <1>8, <1>9, <1>10, <1>11, <1>12, InOrderNext

(* The instruction memory is told of the next program. *)
LEMMA HandInOrder ==
  ASSUME NEW p, Queues(p), InOrder(p), Keeps,
         NEW id \in Identifiers, Placed(id, Cardinality(Done(p))),
         Cardinality(Done(p)) \in Nat, Cardinality(Done(p)') = Cardinality(Done(p)) + 1,
         executed'[p] = executed[p], executing'[p] = executing[p], input'[p] = input[p],
         output'[p] = Append(output[p], [type |-> "NextProgram", id |-> id])
  PROVE  InOrder(p)'
<1>1. PICK e : e = [type |-> "NextProgram", id |-> id]
  OBVIOUS
<1>2. e \in OutEvents /\ e \in Handed /\ e.id = id
  BY <1>1 DEF OutEvents, Handed
<1>3. PICK a, l, x : a = Started(p) /\ l = Len(input[p]) /\ x = Count(output[p], Handed)
  OBVIOUS
<1>4. Started(p)' = a
  BY <1>3 DEF Started
<1>5. output'[p] = Append(output[p], e) /\ output[p] \in Seq(OutEvents)
  BY <1>1 DEF Queues
<1>6. a \in Nat /\ l \in Nat /\ x \in Nat
  BY <1>3, StartedType
<1>7. a + l + x = Cardinality(Done(p))
  BY <1>3 DEF InOrder
<1>8. \A i \in 1 .. Len(executed'[p]) : PlacedNext(executed'[p][i], i - 1)
  BY DEF InOrder, Keeps
<1>9. executing'[p] # Idle => PlacedNext(executing'[p], Len(executed'[p]))
  BY DEF InOrder, Keeps
<1>10. \A i \in 1 .. Len(input'[p]) : PlacedNext(input'[p][i], Started(p)' + i - 1)
  BY <1>3, <1>4 DEF InOrder, Keeps
<1>11. \A i \in Marked(output'[p], Handed) :
        PlacedNext(output'[p][i].id, Started(p)' + Len(input'[p]) + Ahead(output'[p], Handed, i))
  <2> SUFFICES ASSUME NEW i \in Marked(Append(output[p], e), Handed)
               PROVE  PlacedNext(Append(output[p], e)[i].id,
                                 a + l + Ahead(Append(output[p], e), Handed, i))
    BY <1>3, <1>4, <1>5
  <2>1. i \in 1 .. Len(Append(output[p], e)) /\ Append(output[p], e)[i] \in Handed
    BY DEF Marked
  <2>2. CASE i \in 1 .. Len(output[p])
    <3>1. Append(output[p], e)[i] = output[p][i]
      BY <1>2, <1>5, <2>2, AppendPlaces
    <3>2. Ahead(Append(output[p], e), Handed, i) = Ahead(output[p], Handed, i)
      BY ONLY <1>2, <1>5, <2>2, AheadAppend
    <3>3. i \in Marked(output[p], Handed)
      BY <2>1, <2>2, <3>1 DEF Marked
    <3>4. Placed(output[p][i].id, a + l + Ahead(output[p], Handed, i))
      BY <1>3, <3>3 DEF InOrder
    <3> QED
      BY <3>1, <3>2, <3>4 DEF Keeps
  <2>3. CASE i = Len(output[p]) + 1
    <3>1. Append(output[p], e)[i] = e
      BY <1>2, <1>5, <2>3, AppendPlaces
    <3>2. Ahead(Append(output[p], e), Handed, i) = x
      BY <1>2, <1>3, <1>5, <2>3, AheadAppend
    <3> QED
      BY <1>2, <1>7, <3>1, <3>2 DEF Keeps
  <2> QED
    BY <1>2, <1>5, <2>1, <2>2, <2>3, AppendPlaces
<1>12. Started(p)' + Len(input'[p]) + Count(output'[p], Handed) = Cardinality(Done(p)')
  <2>1. Count(output'[p], Handed) = x + 1
    BY <1>2, <1>3, <1>5, CountAppend
  <2>2. a + l + (x + 1) = Cardinality(Done(p)) + 1
    BY <1>6, <1>7
  <2> QED
    BY <1>3, <1>4, <2>1, <2>2
<1> QED
  BY <1>8, <1>9, <1>10, <1>11, <1>12, InOrderNext

(* The instruction memory tells of other things than programs. *)
LEMMA TellInOrder ==
  ASSUME NEW p, Queues(p), InOrder(p), Keeps, Done(p)' = Done(p),
         NEW told \in Seq(OutEvents), \A i \in 1 .. Len(told) : told[i] \notin Handed,
         executed'[p] = executed[p], executing'[p] = executing[p], input'[p] = input[p],
         output'[p] = output[p] \o told
  PROVE  InOrder(p)'
<1>1. output[p] \in Seq(OutEvents)
  BY DEF Queues
<1>2. Started(p)' = Started(p)
  BY DEF Started
<1>3. \A i \in 1 .. Len(executed'[p]) : PlacedNext(executed'[p][i], i - 1)
  BY DEF InOrder, Keeps
<1>4. executing'[p] # Idle => PlacedNext(executing'[p], Len(executed'[p]))
  BY DEF InOrder, Keeps
<1>5. \A i \in 1 .. Len(input'[p]) : PlacedNext(input'[p][i], Started(p)' + i - 1)
  BY <1>2 DEF InOrder, Keeps
<1>6. \A i \in Marked(output'[p], Handed) :
        PlacedNext(output'[p][i].id, Started(p)' + Len(input'[p]) + Ahead(output'[p], Handed, i))
  <2> SUFFICES ASSUME NEW i \in Marked(output[p] \o told, Handed)
               PROVE  PlacedNext((output[p] \o told)[i].id,
                        Started(p) + Len(input[p]) + Ahead(output[p] \o told, Handed, i))
    BY <1>2
  <2>1. i \in 1 .. Len(output[p] \o told) /\ (output[p] \o told)[i] \in Handed
    BY DEF Marked
  <2>2. i \in 1 .. Len(output[p])
    <3> SUFFICES ASSUME i \notin 1 .. Len(output[p]) PROVE FALSE
      OBVIOUS
    <3>1. i - Len(output[p]) \in 1 .. Len(told) /\ i = Len(output[p]) + (i - Len(output[p]))
      BY <1>1, <2>1, ConcatPlaces
    <3>2. (output[p] \o told)[i] = told[i - Len(output[p])]
      BY <1>1, <3>1, ConcatPlaces
    <3> QED
      BY <2>1, <3>1, <3>2
  <2>3. (output[p] \o told)[i] = output[p][i]
    BY <1>1, <2>2, ConcatPlaces
  <2>4. Ahead(output[p] \o told, Handed, i) = Ahead(output[p], Handed, i)
    BY <1>1, <2>2, AheadConcat
  <2>5. i \in Marked(output[p], Handed)
    BY <2>1, <2>2, <2>3 DEF Marked
  <2> QED
    BY <2>3, <2>4, <2>5 DEF InOrder, Keeps
<1>7. Started(p)' + Len(input'[p]) + Count(output'[p], Handed) = Cardinality(Done(p)')
  <2>1. Count(output'[p], Handed) = Count(output[p], Handed)
    BY <1>1, CountConcat
  <2> QED
    BY <1>2, <2>1 DEF InOrder
<1> QED
  BY <1>3, <1>4, <1>5, <1>6, <1>7, InOrderNext

(* The instruction memory tracks a transaction. *)
LEMMA HandleInOrder ==
  ASSUME NEW p \in Peers, NEW from \in Peers, NEW tx \in Transactions,
         NEW hash \in EventHashes, handle_tx(p, from, tx, hash),
         output \in [Peers -> Seq(OutEvents)], Queues(p), InOrder(p), Keeps,
         UNCHANGED <<executed, executing, input>>,
         tx.type # "Execute" => Done(p)' = Done(p),
         tx.type = "Execute" =>
           /\ Placed([hash |-> tx.instructions, event_hash |-> hash], Cardinality(Done(p)))
           /\ Cardinality(Done(p)) \in Nat
           /\ Cardinality(Done(p)') = Cardinality(Done(p)) + 1
  PROVE  InOrder(p)' /\ \A q \in Peers \ {p} : output'[q] = output[q]
<1>1. CASE tx.type = "Execute"
  <2>1. PICK id : id = [hash |-> tx.instructions, event_hash |-> hash]
    OBVIOUS
  <2>2. id \in Identifiers
    BY <1>1, <2>1, TransactionTypes DEF Identifiers
  <2>3. output' = [output EXCEPT ![p] = Append(output[p], [type |-> "NextProgram", id |-> id])]
    BY <1>1, <2>1 DEF handle_tx, FinalizedProgram
  <2>4. output'[p] = Append(output[p], [type |-> "NextProgram", id |-> id])
    BY <2>3
  <2>5. InOrder(p)'
    BY <1>1, <2>1, <2>2, <2>4, HandInOrder
  <2> QED
    BY <2>3, <2>5
<1>2. CASE tx.type # "Execute"
  <2>1. PICK id : id = tx.program_id
    OBVIOUS
  <2>2. ExecutedProgram(p, from, id)
    BY <1>2, <2>1 DEF handle_tx
  <2>3. id \in Identifiers
    BY <1>2, <2>1, TransactionTypes DEF handle_tx
  <2>4. PICK act, fin : /\ act = [type |-> "PeerShardsActualized", peer |-> from, id |-> id]
                        /\ fin = [type |-> "FinishedExecution", id |-> id]
    OBVIOUS
  <2>5. act \in OutEvents /\ fin \in OutEvents /\ act \notin Handed /\ fin \notin Handed
    BY <2>3, <2>4 DEF OutEvents, Handed
  <2>6. \/ output' = output
        \/ output' = [output EXCEPT ![p] = output[p] \o <<fin, act>>]
        \/ output' = [output EXCEPT ![p] = Append(output[p], act)]
    BY <2>2, <2>4 DEF ExecutedProgram
  <2>7. CASE output' = output
    BY <1>2, <2>7, StillInOrder
  <2>8. ASSUME NEW told \in Seq(OutEvents), \A i \in 1 .. Len(told) : told[i] \notin Handed,
               output' = [output EXCEPT ![p] = output[p] \o told]
        PROVE  InOrder(p)' /\ \A q \in Peers \ {p} : output'[q] = output[q]
    <3>1. output'[p] = output[p] \o told
      BY <2>8
    <3>2. InOrder(p)'
      BY <1>2, <2>8, <3>1, TellInOrder
    <3> QED
      BY <2>8, <3>2
  <2>9. CASE output' = [output EXCEPT ![p] = output[p] \o <<fin, act>>]
    <3>1. <<fin, act>> \in Seq(OutEvents)
      BY <2>5
    <3>2. \A i \in 1 .. Len(<<fin, act>>) : <<fin, act>>[i] \notin Handed
      BY <2>5
    <3> QED
      BY <2>8, <2>9, <3>1, <3>2
  <2>10. CASE output' = [output EXCEPT ![p] = Append(output[p], act)]
    <3>1. <<act>> \in Seq(OutEvents)
      BY <2>5
    <3>2. \A i \in 1 .. Len(<<act>>) : <<act>>[i] \notin Handed
      BY <2>5
    <3>3. Append(output[p], act) = output[p] \o <<act>>
      BY <2>5
    <3>4. output' = [output EXCEPT ![p] = output[p] \o <<act>>]
      BY <2>10, <3>3
    <3> QED
      BY <2>8, <3>1, <3>2, <3>4
  <2> QED
    BY <2>6, <2>7, <2>9, <2>10
<1> QED
  BY <1>1, <1>2

-----------------------------------------------------------------------------
(* Events and buffers.                                                     *)

AllGrow == \A a \in Peers :
  /\ Len(events[a]) \in Nat /\ Len(events'[a]) \in Nat /\ Len(events[a]) <= Len(events'[a])
  /\ \A n \in 1 .. Len(events[a]) : events'[a][n] = events[a][n]

(* The log that grows is the commander's. *)
LEMMA LogIsOne ==
  ASSUME OneCommander, AllGrow
  PROVE  LogGrows
BY CommanderIsOne DEF AllGrow, LogGrows

(* A step that leaves the events alone. *)
LEMMA EventsSame ==
  ASSUME TypeOK, events' = events
  PROVE  AllGrow
<1>1. events \in [Peers -> Seq(Events)]
  BY DEF TypeOK, Events
<1>2. \A a \in Peers : Len(events[a]) \in Nat
  BY <1>1
<1> QED
  BY <1>2 DEF AllGrow

(* An event has a number of transactions. *)
LEMMA EventLengths ==
  ASSUME TypeOK, NEW a \in Peers
  PROVE  \A n \in 1 .. Len(events[a]) : /\ events[a][n].txs \in Seq(Transactions)
                                       /\ Len(events[a][n].txs) \in Nat
<1>1. events[a] \in Seq(Events)
  BY DEF TypeOK, Events
<1> SUFFICES ASSUME NEW n \in 1 .. Len(events[a])
             PROVE  /\ events[a][n].txs \in Seq(Transactions)
                    /\ Len(events[a][n].txs) \in Nat
  OBVIOUS
<1>2. events[a][n] \in Events
  BY <1>1
<1>3. events[a][n].txs \in Seq(Transactions)
  BY <1>2 DEF Events
<1> QED
  BY <1>3

(* A buffer that is left alone. *)
LEMMA BufferKept ==
  ASSUME EventsCarry, AllGrow, NEW p \in Peers, BufferIsRest(p),
         recognized_transaction_buffer'[p] = recognized_transaction_buffer[p],
         recognized'[p] = recognized[p]
  PROVE  BufferIsRest(p)'
<1>1. CASE recognized_transaction_buffer[p].txs = <<>>
  BY <1>1 DEF BufferIsRest
<1>2. CASE recognized_transaction_buffer[p].txs # <<>>
  <2>1. PICK a : a = recognized_transaction_buffer[p].author
    OBVIOUS
  <2>2. PICK n : n = recognized[p][a]
    OBVIOUS
  <2>3. a \in Peers /\ n \in 1 .. Len(events[a])
    BY <1>2, <2>1, <2>2 DEF BufferIsRest, EventsCarry
  <2>4. events'[a][n] = events[a][n] /\ n \in 1 .. Len(events'[a])
    BY <2>3 DEF AllGrow
  <2> QED
    BY <1>2, <2>1, <2>2, <2>4 DEF BufferIsRest
<1> QED
  BY <1>1, <1>2

(* A new event: only that of the commander holds programs. *)
LEMMA CreateOrder ==
  ASSUME OneCommander, TypeInv, IsFiniteSet(Slots), SoleScheduler,
         NEW p \in Peers, NEW parents \in [Peers -> Nat], create_event(p, parents),
         \A a \in Peers : known[p][a] <= parents[a] /\ parents[a] <= Len(events[a])
  PROVE  AllGrow /\ IsFiniteSet(Slots') /\ SoleScheduler'
<1>1. TypeOK
  BY DEF TypeInv
<1>2. events \in [Peers -> Seq(Events)]
  BY <1>1 DEF TypeOK, Events
<1>3. /\ \A q \in Peers : included_transaction_buffer'[q] \in
           {included_transaction_buffer[q], <<>>}
      /\ events' \in [Peers -> Seq(Events)]
      /\ \A a \in Peers : Len(events[a]) <= Len(events'[a])
      /\ \A a \in Peers : \A n \in 1 .. Len(events[a]) : events'[a][n] = events[a][n]
      /\ \A a \in Peers : \A n \in 1 .. Len(events'[a]) : n \notin 1 .. Len(events[a]) =>
           a = p /\ events'[a][n].txs = included_transaction_buffer[p]
  <2>1. EventCreated(p, parents)
    BY <1>1, CreateEvent
  <2> QED
    BY <2>1 DEF EventCreated
<1>4. \A a \in Peers : Len(events[a]) \in Nat /\ Len(events'[a]) \in Nat
  BY <1>2, <1>3
<1>5. AllGrow
  BY <1>3, <1>4 DEF AllGrow
<1>6. IsFiniteSet(Slots')
  <2>1. PICK m : m = Len(included_transaction_buffer[p])
    OBVIOUS
  <2>2. m \in Nat
    <3>1. included_transaction_buffer[p] \in Seq(Transactions)
      BY <1>1 DEF TypeOK
    <3> QED
      BY <2>1, <3>1
  <2>3. \A n \in 1 .. Len(events'[Commander]) : n \notin 1 .. Len(events[Commander]) =>
          Len(events'[Commander][n].txs) = m
    BY <1>3, <2>1, CommanderIsOne
  <2>4. LogGrows
    BY <1>5, LogIsOne
  <2> QED
    BY <2>2, <2>3, <2>4, SlotsFinite
<1>7. SoleScheduler'
  <2> SUFFICES ASSUME NEW a \in Peers \ {Commander}
               PROVE  /\ Programless(included_transaction_buffer'[a])
                      /\ \A n \in 1 .. Len(events'[a]) : Programless(events'[a][n].txs)
    BY DEF SoleScheduler, Programless
  <2>1. Programless(included_transaction_buffer[a]) /\ Programless(<<>>)
    BY DEF SoleScheduler, Programless
  <2>2. Programless(included_transaction_buffer'[a])
    <3>1. \/ included_transaction_buffer'[a] = included_transaction_buffer[a]
          \/ included_transaction_buffer'[a] = <<>>
      BY <1>3
    <3> QED
      BY <2>1, <3>1
  <2>3. ASSUME NEW n \in 1 .. Len(events'[a]) PROVE Programless(events'[a][n].txs)
    <3>1. CASE n \in 1 .. Len(events[a])
      <4>1. events'[a][n] = events[a][n] /\ Programless(events[a][n].txs)
        BY <1>3, <3>1 DEF SoleScheduler
      <4> QED
        BY <4>1
    <3>2. CASE n \notin 1 .. Len(events[a])
      <4>1. a = p /\ events'[a][n].txs = included_transaction_buffer[a]
        BY <1>3, <2>3, <3>2
      <4> QED
        BY <2>1, <4>1
    <3> QED
      BY <3>1, <3>2
  <2> QED
    BY <2>2, <2>3
<1> QED
  BY <1>5, <1>6, <1>7

(* A step in which no peer recognizes or executes anything. *)
LEMMA GrowOrder ==
  ASSUME OneCommander, TypeInv, OrderInv, AllGrow, IsFiniteSet(Slots'), SoleScheduler',
         UNCHANGED <<recognized, recognized_transaction_buffer, executed, executing, input, output>>
  PROVE  OrderInv'
<1>1. LogGrows /\ Keeps
  BY LogIsOne, PlacesKept
<1>2. ASSUME NEW p \in Peers PROVE BufferIsRest(p)'
  BY <1>2, BufferKept DEF TypeInv, OrderInv
<1>3. ASSUME NEW p \in Peers PROVE InOrder(p)'
  <2>1. /\ recognized[p][Commander] \in Nat
        /\ recognized[p][Commander] <= Len(events[Commander])
    <3>1. recognized \in [Peers -> [Peers -> Nat]] /\ known \in [Peers -> [Peers -> Nat]]
      BY DEF TypeInv, TypeOK
    <3>2. /\ recognized[p][Commander] <= known[p][Commander]
          /\ known[p][Commander] <= Len(events[Commander])
      BY CommanderIsOne DEF TypeInv, KnownExist
    <3>3. recognized[p][Commander] \in Nat /\ known[p][Commander] \in Nat
      BY <3>1, CommanderIsOne
    <3> QED
      BY <1>1, <3>2, <3>3 DEF LogGrows
  <2>2. Done(p)' = Done(p)
    BY <1>1, <2>1, DoneKept
  <2>3. InOrder(p)
    BY DEF OrderInv
  <2> QED
    BY <1>1, <2>2, <2>3, StillInOrder
<1> QED
  BY <1>2, <1>3 DEF OrderInv

-----------------------------------------------------------------------------
(* The steps of a node.                                                    *)

(* A step that leaves the events alone ... *)
LEMMA LogSame ==
  ASSUME OneCommander, TypeInv, OrderInv, events' = events
  PROVE  AllGrow /\ Keeps /\ IsFiniteSet(Slots')
<1>1. AllGrow
  BY EventsSame DEF TypeInv
<1>2. LogGrows /\ Keeps
  BY <1>1, LogIsOne, PlacesKept
<1>3. IsFiniteSet(Slots')
  <2>1. \A n \in 1 .. Len(events'[Commander]) : n \notin 1 .. Len(events[Commander]) =>
          Len(events'[Commander][n].txs) = 0
    OBVIOUS
  <2>2. 0 \in Nat /\ IsFiniteSet(Slots)
    BY DEF OrderInv
  <2> QED
    BY <1>2, <2>1, <2>2, SlotsFinite
<1> QED
  BY <1>1, <1>2, <1>3

(* ... and what is scheduled ... *)
LEMMA SchedulesSame ==
  ASSUME OrderInv, UNCHANGED <<included_transaction_buffer, events>>
  PROVE  SoleScheduler'
BY DEF OrderInv, SoleScheduler, Programless

(* ... or schedules a program at the commander, or another transaction. *)
LEMMA PushOrder ==
  ASSUME TypeInv, OrderInv, events' = events, NEW p \in Peers, NEW tx \in Transactions,
         push_tx(p, tx), p = Commander \/ tx.type # "Execute"
  PROVE  SoleScheduler'
<1>1. PICK queues : queues = included_transaction_buffer
  OBVIOUS
<1>2. queues \in [Peers -> Seq(Transactions)]
  BY <1>1 DEF TypeInv, TypeOK
<1>3. included_transaction_buffer' = [queues EXCEPT ![p] = Append(queues[p], tx)]
  BY <1>1 DEF push_tx
<1>4. ASSUME NEW a \in Peers \ {Commander} PROVE Programless(included_transaction_buffer'[a])
  <2>1. Programless(queues[a])
    BY <1>1 DEF OrderInv, SoleScheduler
  <2>2. CASE a # p
    <3>1. included_transaction_buffer'[a] = queues[a]
      BY <1>2, <1>3, <2>2
    <3> QED
      BY <2>1, <3>1
  <2>3. CASE a = p
    <3>1. included_transaction_buffer'[a] = Append(queues[a], tx) /\ queues[a] \in Seq(Transactions)
      BY <1>2, <1>3, <2>3
    <3>2. tx.type # "Execute"
      BY <2>3
    <3>3. Programless(Append(queues[a], tx))
      BY <2>1, <3>1, <3>2, AppendPlaces DEF Programless
    <3> QED
      BY <3>1, <3>3
  <2> QED
    BY <2>2, <2>3
<1> QED
  BY <1>4 DEF OrderInv, SoleScheduler, Programless

(* One peer takes a transaction, the others do nothing. *)
LEMMA RecognizeOrder ==
  ASSUME OneCommander, TypeInv, OrderInv,
         NEW p \in Peers, NEW from \in Peers, NEW tx \in Transactions,
         NEW hash \in EventHashes, handle_tx(p, from, tx, hash),
         UNCHANGED <<included_transaction_buffer, events, executed, executing, input>>,
         \A q \in Peers \ {p} :
           /\ recognized'[q] = recognized[q]
           /\ recognized_transaction_buffer'[q] = recognized_transaction_buffer[q],
         BufferIsRest(p)',
         tx.type # "Execute" => Done(p)' = Done(p),
         tx.type = "Execute" =>
           /\ Placed([hash |-> tx.instructions, event_hash |-> hash], Cardinality(Done(p)))
           /\ Cardinality(Done(p)) \in Nat
           /\ Cardinality(Done(p)') = Cardinality(Done(p)) + 1
  PROVE  OrderInv'
<1>1. AllGrow /\ Keeps /\ IsFiniteSet(Slots') /\ SoleScheduler'
  BY LogSame, SchedulesSame
<1>2. output \in [Peers -> Seq(OutEvents)] /\ Queues(p)
  BY DEF TypeInv, TypeOK, Queues
<1>3. InOrder(p) /\ \A q \in Peers : InOrder(q) /\ BufferIsRest(q)
  BY DEF OrderInv
<1>4. InOrder(p)' /\ \A q \in Peers \ {p} : output'[q] = output[q]
  BY <1>1, <1>2, <1>3, HandleInOrder
<1>5. ASSUME NEW q \in Peers \ {p} PROVE InOrder(q)' /\ BufferIsRest(q)'
  <2>1. Rest(q)' = Rest(q)
    BY <1>5 DEF Rest
  <2>2. Done(q)' = Done(q)
    BY <1>5, <2>1, DoneSame
  <2>3. InOrder(q)'
    BY <1>1, <1>3, <1>4, <1>5, <2>2, StillInOrder
  <2>4. BufferIsRest(q)'
    BY <1>1, <1>3, <1>5, BufferKept DEF TypeInv
  <2> QED
    BY <2>3, <2>4
<1>6. \A q \in Peers : BufferIsRest(q)' /\ InOrder(q)'
  BY <1>4, <1>5
<1> QED
  BY <1>1, <1>6 DEF OrderInv

(* The first transaction of an event. *)
LEMMA NextEventOrder ==
  ASSUME OneCommander, TypeInv, OrderInv, NEW p \in Peers, NEW a \in Peers,
         RecognizeNextEvent(p, a)
  PROVE  OrderInv'
<1>1. PICK n, txs : n = recognized[p][a] + 1 /\ txs = events[a][n].txs
  OBVIOUS
<1>2. /\ recognized_transaction_buffer[p].txs = <<>>
      /\ next_recognized_event(p, a)
      /\ handle_tx(p, a, Head(txs), <<a, n>>)
      /\ recognized_transaction_buffer' =
           [recognized_transaction_buffer EXCEPT ![p].author = a, ![p].txs = Tail(txs)]
      /\ recognized' = [recognized EXCEPT ![p][a] = n]
      /\ UNCHANGED <<included_transaction_buffer, events, executed, executing, input>>
  BY <1>1 DEF RecognizeNextEvent, processor
<1>3. /\ n \in 1 .. Len(events[a]) /\ n \in Nat
      /\ txs \in Seq(Transactions) /\ txs # <<>> /\ <<a, n>> \in EventHashes
  BY <1>1, <1>2, NextEventType
<1>4. /\ recognized \in [Peers -> [Peers -> Nat]]
      /\ recognized_transaction_buffer \in [Peers -> Buffers]
      /\ \A b \in Peers : events[b] \in Seq(Events)
  BY DEF TypeInv, TypeOK, Buffers, Events
<1>5. PICK len : len = Len(txs)
  OBVIOUS
<1>6. /\ Head(txs) \in Transactions /\ Tail(txs) \in Seq(Transactions) /\ len \in Nat
      /\ len >= 1 /\ Len(Tail(txs)) = len - 1 /\ Head(txs) = txs[1]
      /\ \A i \in 1 .. Len(Tail(txs)) : Tail(txs)[i] = txs[i + 1]
  BY <1>3, <1>5, TailType
<1>7. /\ recognized_transaction_buffer'[p].author = a
      /\ recognized_transaction_buffer'[p].txs = Tail(txs)
      /\ recognized_transaction_buffer'[p].hash = recognized_transaction_buffer[p].hash
      /\ \A q \in Peers \ {p} : recognized_transaction_buffer'[q] = recognized_transaction_buffer[q]
  BY <1>2, <1>4 DEF Buffers
<1>8. /\ recognized'[p][a] = n /\ \A b \in Peers \ {a} : recognized'[p][b] = recognized[p][b]
      /\ \A q \in Peers \ {p} : recognized'[q] = recognized[q]
  BY <1>2, <1>4
<1>9. BufferIsRest(p)'
  <2>1. recognized_transaction_buffer[p].hash = ZeroHash
    BY DEF OrderInv, BufferIsRest
  <2>2. events'[a][n].txs = txs /\ n \in 1 .. Len(events'[a])
    BY <1>1, <1>2, <1>3
  <2>3. len - 1 < len /\ \A i \in 1 .. Len(Tail(txs)) : i + 1 = len - Len(Tail(txs)) + i
    BY <1>6
  <2>4. \A i \in 1 .. Len(Tail(txs)) : Tail(txs)[i] = txs[len - Len(Tail(txs)) + i]
    BY <1>6, <2>3
  <2> QED
    BY <1>5, <1>6, <1>7, <1>8, <2>1, <2>2, <2>3, <2>4 DEF BufferIsRest
<1>10. /\ Head(txs).type # "Execute" => Done(p)' = Done(p)
       /\ Head(txs).type = "Execute" =>
            /\ Placed([hash |-> Head(txs).instructions, event_hash |-> <<a, n>>],
                      Cardinality(Done(p)))
            /\ Cardinality(Done(p)) \in Nat
            /\ Cardinality(Done(p)') = Cardinality(Done(p)) + 1
  <2>1. Rest(p) = 0
    BY <1>2 DEF Rest
  <2>2. CASE a = Commander
    <3>1. Rest(p)' = len - 1
      BY <1>6, <1>7, <2>2 DEF Rest
    <3>2. PICK m : m = recognized[p][Commander]
      OBVIOUS
    <3>3. m \in Nat /\ n = m + 1
      BY <1>1, <1>4, <2>2, <3>2
    <3>4. \A k \in 1 .. Len(events[Commander]) : Len(events[Commander][k].txs) \in Nat
      <4>1. TypeOK /\ Commander \in Peers
        BY CommanderIsOne DEF TypeInv
      <4> QED
        BY ONLY <4>1, EventLengths
    <3>5. /\ recognized[p][Commander] = m /\ recognized'[p][Commander] = m + 1
          /\ len = Len(events[Commander][m + 1].txs) /\ events' = events /\ len \in Nat
      BY <1>1, <1>2, <1>5, <1>6, <1>8, <2>2, <3>2, <3>3
    <3>6. Advances(p, <<m + 1, 1>>)
      BY ONLY <2>1, <3>1, <3>3, <3>4, <3>5, AdvanceEvent
    <3>7. 1 \in 1 .. Len(events[Commander][n].txs) /\ events[Commander][n].txs[1] = Head(txs)
      <4>1. events[Commander][n].txs = txs
        BY <1>1, <2>2
      <4>2. 1 \in 1 .. len
        BY ONLY <1>6
      <4> QED
        BY ONLY <1>5, <1>6, <4>1, <4>2
    <3>8. n \in 1 .. Len(events[Commander]) /\ Advances(p, <<n, 1>>) /\ IsFiniteSet(Slots)
      BY <1>3, <2>2, <3>3, <3>6 DEF OrderInv
    <3> QED
      BY ONLY <2>2, <3>7, <3>8, AdvancePlaced
  <2>3. CASE a # Commander
    <3>1. Programless(txs)
      BY <1>1, <1>3, <2>3 DEF OrderInv, SoleScheduler
    <3>2. Head(txs).type # "Execute"
      BY <1>5, <1>6, <3>1 DEF Programless
    <3>3. Rest(p)' = 0
      BY <1>7, <2>3 DEF Rest
    <3>4. recognized'[p][Commander] = recognized[p][Commander]
      BY <1>8, <2>3, CommanderIsOne
    <3>5. Done(p)' = Done(p)
      BY <1>2, <2>1, <3>3, <3>4, DoneSame
    <3> QED
      BY <3>2, <3>5
  <2> QED
    BY <2>2, <2>3
<1> QED
  BY <1>2, <1>3, <1>6, <1>7, <1>8, <1>9, <1>10, RecognizeOrder

(* A transaction that is left of an event. *)
LEMMA BufferedOrder ==
  ASSUME OneCommander, TypeInv, OrderInv, NEW p \in Peers, RecognizeBuffered(p)
  PROVE  OrderInv'
<1>1. PICK buffer : buffer = recognized_transaction_buffer[p]
  OBVIOUS
<1>2. /\ buffer.txs # <<>>
      /\ handle_tx(p, buffer.author, Head(buffer.txs), buffer.hash)
      /\ recognized_transaction_buffer' =
           [recognized_transaction_buffer EXCEPT ![p].txs = Tail(buffer.txs)]
      /\ recognized' = recognized
      /\ UNCHANGED <<included_transaction_buffer, events, executed, executing, input>>
  BY <1>1 DEF RecognizeBuffered, processor
<1>3. recognized_transaction_buffer \in [Peers -> Buffers]
  BY DEF TypeInv, TypeOK, Buffers
<1>4. buffer.txs \in Seq(Transactions) /\ buffer.hash \in EventHashes /\ buffer.author \in Peers
  <2>1. buffer \in Buffers
    BY <1>1, <1>3
  <2> QED
    BY <1>1, <1>2, <2>1 DEF Buffers, TypeInv, EventsCarry
<1>5. PICK a, n : a = buffer.author /\ n = recognized[p][a]
  OBVIOUS
<1>6. PICK txs, len, rest : txs = events[a][n].txs /\ len = Len(txs) /\ rest = Len(buffer.txs)
  OBVIOUS
<1>7. /\ buffer.hash = ZeroHash /\ n \in 1 .. Len(events[a]) /\ rest < len
      /\ \A i \in 1 .. rest : buffer.txs[i] = txs[len - rest + i]
  BY <1>1, <1>2, <1>5, <1>6 DEF OrderInv, BufferIsRest
<1>8. /\ Head(buffer.txs) \in Transactions /\ Tail(buffer.txs) \in Seq(Transactions)
      /\ rest >= 1 /\ Len(Tail(buffer.txs)) = rest - 1
      /\ Head(buffer.txs) = buffer.txs[1]
      /\ \A i \in 1 .. Len(Tail(buffer.txs)) :
           i + 1 \in 1 .. rest /\ Tail(buffer.txs)[i] = buffer.txs[i + 1]
  BY <1>2, <1>4, <1>6, TailType
<1>9. rest \in Nat /\ len \in Nat /\ a \in Peers
  <2>1. a \in Peers /\ rest \in Nat
    BY <1>4, <1>5, <1>6
  <2> QED
    BY <1>6, <1>7, <2>1, EventLengths DEF TypeInv
<1>10. /\ recognized_transaction_buffer'[p].author = a
       /\ recognized_transaction_buffer'[p].txs = Tail(buffer.txs)
       /\ recognized_transaction_buffer'[p].hash = ZeroHash
       /\ \A q \in Peers \ {p} : recognized_transaction_buffer'[q] = recognized_transaction_buffer[q]
  BY <1>1, <1>2, <1>3, <1>5, <1>7 DEF Buffers
<1>11. BufferIsRest(p)'
  <2>1. PICK left : left = Tail(buffer.txs)
    OBVIOUS
  <2>2. Len(left) = rest - 1 /\ rest - 1 < len
    BY <1>7, <1>8, <1>9, <2>1
  <2>3. ASSUME NEW i \in 1 .. Len(left) PROVE left[i] = txs[len - Len(left) + i]
    <3>1. i + 1 \in 1 .. rest /\ left[i] = buffer.txs[i + 1]
      BY <1>8, <2>1
    <3>2. len - rest + (i + 1) = len - Len(left) + i
      BY <1>9, <2>2
    <3> QED
      BY <1>7, <3>1, <3>2
  <2>4. events'[a][n].txs = txs /\ n \in 1 .. Len(events'[a]) /\ recognized'[p][a] = n
    BY <1>2, <1>5, <1>6, <1>7
  <2>5. /\ recognized_transaction_buffer'[p].author = a
        /\ recognized_transaction_buffer'[p].txs = left
        /\ recognized_transaction_buffer'[p].hash = ZeroHash
    BY <1>10, <2>1
  <2> QED
    BY <1>6, <2>2, <2>3, <2>4, <2>5 DEF BufferIsRest
<1>12. PICK k : k = len - rest + 1
  OBVIOUS
<1>13. k \in 1 .. len /\ k # 1 /\ Head(buffer.txs) = txs[k]
  BY <1>7, <1>8, <1>9, <1>12
<1>14. /\ Head(buffer.txs).type # "Execute" => Done(p)' = Done(p)
       /\ Head(buffer.txs).type = "Execute" =>
            /\ Placed([hash |-> Head(buffer.txs).instructions, event_hash |-> buffer.hash],
                      Cardinality(Done(p)))
            /\ Cardinality(Done(p)) \in Nat
            /\ Cardinality(Done(p)') = Cardinality(Done(p)) + 1
  <2>1. CASE a = Commander
    <3>1. Rest(p) = rest /\ Rest(p)' = rest - 1
      BY <1>1, <1>5, <1>6, <1>8, <1>10, <2>1 DEF Rest
    <3>2. \A m \in 1 .. Len(events[Commander]) : Len(events[Commander][m].txs) \in Nat
      BY CommanderIsOne, EventLengths DEF TypeInv
    <3>3. /\ recognized[p][Commander] = n /\ recognized'[p][Commander] = n /\ n \in Nat
          /\ len = Len(events[Commander][n].txs) /\ 0 < rest /\ events' = events
      BY <1>2, <1>5, <1>6, <1>7, <1>8, <1>9, <2>1
    <3>4. Advances(p, <<n, k>>)
      BY <1>9, <1>12, <3>1, <3>2, <3>3, AdvanceBuffer
    <3>5. /\ k \in 1 .. Len(events[Commander][n].txs) /\ n \in 1 .. Len(events[Commander])
          /\ events[Commander][n].txs[k] = Head(buffer.txs)
      BY <1>6, <1>7, <1>13, <2>1
    <3>6. IsFiniteSet(Slots) /\ k # 1 /\ buffer.hash = ZeroHash
      BY <1>7, <1>13 DEF OrderInv
    <3> QED
      BY ONLY <3>4, <3>5, <3>6, AdvancePlaced
  <2>2. CASE a # Commander
    <3>1. Programless(txs)
      BY <1>6, <1>7, <1>9, <2>2 DEF OrderInv, SoleScheduler
    <3>2. Head(buffer.txs).type # "Execute"
      BY <1>6, <1>13, <3>1 DEF Programless
    <3>3. Rest(p) = 0 /\ Rest(p)' = 0
      BY <1>1, <1>5, <1>10, <2>2 DEF Rest
    <3>4. Done(p)' = Done(p)
      BY <1>2, <3>3, DoneSame
    <3> QED
      BY <3>2, <3>4
  <2> QED
    BY <2>1, <2>2
<1> QED
  BY <1>2, <1>4, <1>8, <1>10, <1>11, <1>14, RecognizeOrder

(* One peer moves a program on, the others do nothing. *)
LEMMA LocalOrder ==
  ASSUME OneCommander, TypeInv, OrderInv, AllGrow, Keeps, IsFiniteSet(Slots'), SoleScheduler',
         UNCHANGED <<events, recognized, recognized_transaction_buffer>>, NEW p \in Peers,
         \A q \in Peers \ {p} : /\ executed'[q] = executed[q] /\ executing'[q] = executing[q]
                               /\ input'[q] = input[q] /\ output'[q] = output[q],
         (\A q \in Peers : Done(q)' = Done(q)) => InOrder(p)'
  PROVE  OrderInv'
<1>1. ASSUME NEW q \in Peers PROVE Done(q)' = Done(q)
  <2>1. Rest(q)' = Rest(q)
    BY DEF Rest
  <2> QED
    BY <2>1, DoneSame
<1>2. ASSUME NEW q \in Peers PROVE BufferIsRest(q)'
  BY BufferKept DEF TypeInv, OrderInv
<1>3. ASSUME NEW q \in Peers \ {p} PROVE InOrder(q)'
  <2>1. InOrder(q) /\ Done(q)' = Done(q)
    BY <1>1 DEF OrderInv
  <2> QED
    BY <2>1, StillInOrder
<1>4. \A q \in Peers : BufferIsRest(q)' /\ InOrder(q)'
  BY <1>1, <1>2, <1>3
<1> QED
  BY <1>4 DEF OrderInv

(* The three steps of a program within a node. *)
LEMMA PollOrder ==
  ASSUME OneCommander, TypeInv, OrderInv, NEW p \in Peers, PollInstructionMemory(p)
  PROVE  OrderInv'
<1>1. PICK head : head = Head(output[p])
  OBVIOUS
<1>2. /\ output[p] # <<>> /\ output' = [output EXCEPT ![p] = Tail(output[p])]
      /\ input' = IF head.type = "NextProgram"
                  THEN [input EXCEPT ![p] = Append(input[p], head.id)] ELSE input
      /\ UNCHANGED <<included_transaction_buffer, events, recognized,
                     recognized_transaction_buffer, executing, executed>>
  BY <1>1 DEF PollInstructionMemory, graph
<1>3. /\ output \in [Peers -> Seq(OutEvents)] /\ input \in [Peers -> Seq(Identifiers)]
      /\ Queues(p)
  BY DEF TypeInv, TypeOK, Queues
<1>4. head \in OutEvents
  BY <1>1, <1>2, <1>3, TailPlaces
<1>5. head \in Handed <=> head.type = "NextProgram"
  BY <1>4, HandedKind
<1>6. /\ head \in Handed => input' = [input EXCEPT ![p] = Append(input[p], head.id)]
      /\ head \notin Handed => input' = input
  BY <1>2, <1>5
<1>7. /\ head \in Handed => input'[p] = Append(input[p], head.id)
      /\ head \notin Handed => input'[p] = input[p]
      /\ \A q \in Peers \ {p} : input'[q] = input[q]
  BY <1>3, <1>6
<1>8. output'[p] = Tail(output[p]) /\ \A q \in Peers \ {p} : output'[q] = output[q]
  BY <1>2, <1>3
<1>9. AllGrow /\ Keeps /\ IsFiniteSet(Slots') /\ SoleScheduler'
  BY <1>2, LogSame, SchedulesSame
<1>10. (\A q \in Peers : Done(q)' = Done(q)) => InOrder(p)'
  BY <1>1, <1>2, <1>3, <1>7, <1>8, <1>9, PollInOrder DEF OrderInv
<1> QED
  BY <1>2, <1>7, <1>8, <1>9, <1>10, LocalOrder

(* The processor takes the next program. *)
LEMMA StartOrder ==
  ASSUME OneCommander, TypeInv, OrderInv, NEW p \in Peers, StartExecution(p)
  PROVE  OrderInv'
<1>1. /\ executing[p] = Idle /\ input[p] # <<>>
      /\ executing' = [executing EXCEPT ![p] = Head(input[p])]
      /\ input' = [input EXCEPT ![p] = Tail(input[p])]
      /\ UNCHANGED <<included_transaction_buffer, events, recognized,
                     recognized_transaction_buffer, output, executed>>
  BY DEF StartExecution, graph
<1>2. /\ executing \in [Peers -> Identifiers \cup {Idle}] /\ input \in [Peers -> Seq(Identifiers)]
      /\ Queues(p)
  BY DEF TypeInv, TypeOK, Queues
<1>3. /\ executing'[p] = Head(input[p]) /\ input'[p] = Tail(input[p])
      /\ \A q \in Peers \ {p} : executing'[q] = executing[q] /\ input'[q] = input[q]
  BY <1>1, <1>2
<1>4. AllGrow /\ Keeps /\ IsFiniteSet(Slots') /\ SoleScheduler'
  BY <1>1, LogSame, SchedulesSame
<1>5. (\A q \in Peers : Done(q)' = Done(q)) => InOrder(p)'
  BY <1>1, <1>2, <1>3, <1>4, StartInOrder DEF OrderInv
<1> QED
  BY <1>1, <1>3, <1>4, <1>5, LocalOrder

(* The processor finishes its program and has it announced. *)
LEMMA FinishOrder ==
  ASSUME OneCommander, TypeInv, OrderInv, NEW p \in Peers, FinishExecution(p)
  PROVE  OrderInv'
<1>1. PICK tx : tx = [type |-> "Executed", program_id |-> executing[p]]
  OBVIOUS
<1>2. /\ executing[p] # Idle
      /\ executing' = [executing EXCEPT ![p] = Idle]
      /\ executed' = [executed EXCEPT ![p] = Append(executed[p], executing[p])]
      /\ push_tx(p, tx)
      /\ UNCHANGED <<events, recognized, recognized_transaction_buffer, output, input>>
  BY <1>1 DEF FinishExecution
<1>3. /\ executing \in [Peers -> Identifiers \cup {Idle}] /\ executed \in [Peers -> Seq(Identifiers)]
      /\ Queues(p)
  BY DEF TypeInv, TypeOK, Queues
<1>4. tx \in Transactions /\ tx.type # "Execute"
  BY <1>1, <1>2, <1>3 DEF Transactions
<1>5. /\ executing'[p] = Idle /\ executed'[p] = Append(executed[p], executing[p])
      /\ \A q \in Peers \ {p} : executing'[q] = executing[q] /\ executed'[q] = executed[q]
  BY <1>2, <1>3
<1>6. AllGrow /\ Keeps /\ IsFiniteSet(Slots') /\ SoleScheduler'
  BY <1>2, <1>4, LogSame, PushOrder
<1>7. (\A q \in Peers : Done(q)' = Done(q)) => InOrder(p)'
  BY <1>2, <1>3, <1>5, <1>6, FinishInOrder DEF OrderInv
<1> QED
  BY <1>2, <1>5, <1>6, <1>7, LocalOrder

(* Every action keeps the order; one step per action. *)
LEMMA OrderNext ==
  ASSUME OneCommander, TypeInv, OrderInv, [Next]_vars
  PROVE  OrderInv'
<1>1. CASE UNCHANGED vars
  <2>1. UNCHANGED <<included_transaction_buffer, events, recognized,
                    recognized_transaction_buffer, executed, executing, input, output>>
    BY <1>1 DEF vars, graph, processor
  <2> QED
    BY <2>1, LogSame, SchedulesSame, GrowOrder
<1>2. ASSUME NEW p \in Commanders, NEW g \in Programs, ScheduleProgram(p, g) PROVE OrderInv'
  <2>1. PICK tx : tx = [type |-> "Execute", instructions |-> g]
    OBVIOUS
  <2>2. /\ push_tx(p, tx)
        /\ UNCHANGED <<events, recognized, recognized_transaction_buffer, executed, executing,
                       input, output>>
    BY <1>2, <2>1 DEF ScheduleProgram, processor
  <2>3. tx \in Transactions /\ p = Commander /\ p \in Peers
    BY <2>1, CommanderIsOne DEF Transactions
  <2>4. SoleScheduler'
    BY <2>2, <2>3, PushOrder
  <2> QED
    BY <2>2, <2>4, LogSame, GrowOrder
<1>3. ASSUME NEW p \in Peers, NEW q \in Peers, Gossip(p, q) PROVE OrderInv'
  <2>1. /\ create_event(p, known[p])
        /\ UNCHANGED <<recognized, recognized_transaction_buffer, executed, executing,
                       input, output>>
    BY <1>3 DEF Gossip, processor
  <2>2. known \in [Peers -> [Peers -> Nat]]
    BY DEF TypeInv, TypeOK
  <2>3. /\ known[p] \in [Peers -> Nat]
        /\ \A a \in Peers : known[p][a] <= known[p][a] /\ known[p][a] <= Len(events[a])
    BY <2>2 DEF TypeInv, KnownExist
  <2>4. AllGrow /\ IsFiniteSet(Slots') /\ SoleScheduler'
    BY <2>1, <2>3, CreateOrder DEF OrderInv
  <2> QED
    BY <2>1, <2>4, GrowOrder
<1>4. ASSUME NEW p \in Peers, NEW q \in Peers, ApplySync(p, q) PROVE OrderInv'
  <2>1. PICK parents : parents = [a \in Peers |-> IF sync[q][p][a] > known[p][a]
                                                 THEN sync[q][p][a] ELSE known[p][a]]
    OBVIOUS
  <2>2. /\ create_event(p, parents) /\ sync[q][p] # NoSync
        /\ UNCHANGED <<recognized, recognized_transaction_buffer, executed, executing,
                       input, output>>
    BY <1>4, <2>1 DEF ApplySync, processor
  <2>3. known[p] \in [Peers -> Nat] /\ sync[q][p] \in [Peers -> Nat]
    <3>1. /\ known \in [Peers -> [Peers -> Nat]]
          /\ sync \in [Peers -> [Peers -> [Peers -> Nat] \cup {NoSync}]]
      BY DEF TypeInv, TypeOK
    <3> QED
      BY <2>2, <3>1
  <2>4. /\ parents \in [Peers -> Nat]
        /\ \A a \in Peers : known[p][a] <= parents[a] /\ parents[a] <= Len(events[a])
    BY <2>1, <2>2, <2>3 DEF TypeInv, KnownExist
  <2>5. AllGrow /\ IsFiniteSet(Slots') /\ SoleScheduler'
    BY <2>2, <2>4, CreateOrder DEF OrderInv
  <2> QED
    BY <2>2, <2>5, GrowOrder
<1>5. ASSUME NEW p \in Peers, NEW q \in Peers, LoseSync(p, q) PROVE OrderInv'
  <2>1. UNCHANGED <<included_transaction_buffer, events, recognized,
                    recognized_transaction_buffer, executed, executing, input, output>>
    BY <1>5 DEF LoseSync, processor
  <2> QED
    BY <2>1, LogSame, SchedulesSame, GrowOrder
<1>6. ASSUME NEW p \in Peers, Recognize(p) PROVE OrderInv'
  BY <1>6, BufferedOrder, NextEventOrder DEF Recognize
<1>7. ASSUME NEW p \in Peers, PollInstructionMemory(p) PROVE OrderInv'
  BY <1>7, PollOrder
<1>8. ASSUME NEW p \in Peers, StartExecution(p) \/ FinishExecution(p) PROVE OrderInv'
  BY <1>8, StartOrder, FinishOrder
<1>9. ASSUME NEW p \in Peers, Crash(p) PROVE OrderInv'
  <2>1. UNCHANGED <<included_transaction_buffer, events, recognized,
                    recognized_transaction_buffer, executed, executing, input, output>>
    BY <1>9 DEF Crash, processor
  <2> QED
    BY <2>1, LogSame, SchedulesSame, GrowOrder
<1> QED
  BY <1>1, <1>2, <1>3, <1>4, <1>5, <1>6, <1>7, <1>8, <1>9 DEF Next

(* The order holds of what there is at the start: nothing. *)
LEMMA OrderInit ==
  ASSUME OneCommander, Init
  PROVE  OrderInv
<1>1. Slots = {} /\ \A p : Done(p) = {}
  BY NoPlaces DEF Init
<1>2. IsFiniteSet(Slots) /\ \A p : Cardinality(Done(p)) = 0
  BY <1>1, FS_EmptySet
<1>3. SoleScheduler
  BY DEF Init, SoleScheduler, Programless
<1>4. ASSUME NEW p \in Peers PROVE BufferIsRest(p) /\ InOrder(p)
  <2>1. BufferIsRest(p)
    BY DEF Init, BufferIsRest
  <2>2. executed[p] = <<>> /\ executing[p] = Idle /\ input[p] = <<>> /\ output[p] = <<>>
    BY DEF Init
  <2>3. Started(p) = 0 /\ Len(input[p]) = 0
    BY <2>2 DEF Started
  <2>4. Count(output[p], Handed) = 0 /\ Marked(output[p], Handed) = {}
    BY <2>2, CountEmpty DEF Marked
  <2>5. Started(p) + Len(input[p]) + Count(output[p], Handed) = Cardinality(Done(p))
    BY <1>2, <2>3, <2>4
  <2> QED
    BY <2>1, <2>2, <2>4, <2>5 DEF InOrder
<1> QED
  BY <1>2, <1>3, <1>4 DEF OrderInv

(* "Due to ancestry between all its events, all "command" txs are going to *)
(* be ordered properly": when one peer schedules the programs, any two     *)
(* processors have executed the same programs in the same order, as far as *)
(* both have come, whatever gossip is lost and whoever crashed.            *)
THEOREM OneOrder ==
  ASSUME OneCommander
  PROVE  Spec => []SameExecutionOrder
<1>1. Init => TypeInv /\ OrderInv
  BY TypeInit, OrderInit
<1>2. TypeInv /\ OrderInv /\ [Next]_vars => (TypeInv /\ OrderInv)'
  BY TypeNext, OrderNext
<1>3. TypeInv /\ OrderInv => SameExecutionOrder
  BY OrderSame
<1> QED
  BY <1>1, <1>2, <1>3, PTL DEF Spec

=============================================================================
