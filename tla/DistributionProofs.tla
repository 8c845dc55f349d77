------------------------- MODULE DistributionProofs -------------------------
(* Theorems about what the order of consensus gives the data memory: one   *)
(* distribution at every peer, no storage before it, locations that agree  *)
(* with it and one confirmation for one put. They hold when the users of   *)
(* one peer `c` give the commands (Commanders = {c}); ancestry, not        *)
(* delivery order, is all that consensus guarantees here. Last, what keeps *)
(* the data memory from stopping, whoever commands.                        *)
EXTENDS DataMemoryProofs

-----------------------------------------------------------------------------
(* What any step does to modes, distributions, logs and positions.         *)

(* A transaction that initializes whoever recognizes it first. *)
IsValidInit(tx) == tx.type = "InitializeStorage" /\ verify_distribution(tx.distribution)

(* The transaction, and its ancestors, at a peer's position in a log. *)
NextEntry(p, a) == log[a][recognized[p][a] + 1]

(* A log grows by a transaction of its author, who has recognized its      *)
(* ancestors; only commanders initialize, only the initialized store.      *)
LogStep == \A a \in Peers :
  \/ log'[a] = log[a]
  \/ \E tx \in Transactions :
       /\ log'[a] = Append(log[a], [tx |-> tx, deps |-> recognized'[a]])
       /\ tx.type = "InitializeStorage" => a \in Commanders
       /\ tx.type \in {"StorageRequest", "Stored"} => mode[a] = "initialized"

(* A peer passes an entry of a log after the entry's ancestors. *)
PositionStep == \A p, a \in Peers :
  \/ recognized'[p][a] = recognized[p][a]
  \/ /\ recognized'[p][a] = recognized[p][a] + 1
     /\ recognized[p][a] < Len(log[a])
     /\ \A b \in Peers : NextEntry(p, a).deps[b] <= recognized[p][b]

(* A peer adopts the distribution it recognizes when it has none; it       *)
(* passes no valid one without being initialized.                          *)
ModeStep == \A p \in Peers :
  \/ /\ mode'[p] = mode[p] /\ distribution'[p] = distribution[p]
     /\ mode[p] = "uninitialized" => \A a \in Peers :
          recognized'[p][a] # recognized[p][a] => ~IsValidInit(NextEntry(p, a).tx)
  \/ mode'[p] = "stopped" /\ distribution'[p] = distribution[p]
  \/ /\ mode[p] = "uninitialized" /\ mode'[p] = "initialized"
     /\ \E a \in Peers :
          /\ recognized'[p][a] = recognized[p][a] + 1
          /\ IsValidInit(NextEntry(p, a).tx)
          /\ distribution'[p] = NextEntry(p, a).tx.distribution

(* A log, and an entry of it. *)
LEMMA LogType ==
  ASSUME TypeOK, NEW a \in Peers
  PROVE  /\ Len(log[a]) \in Nat /\ DOMAIN log[a] = 1 .. Len(log[a])
         /\ \A n \in 1 .. Len(log[a]) :
              log[a][n].tx \in Transactions /\ log[a][n].deps \in [Peers -> Nat]
<1> DEFINE E == [tx : Transactions, deps : [Peers -> Nat]]
<1>1. log[a] \in Seq(E)
  BY DEF TypeOK
<1> HIDE DEF E
<1>2. /\ Len(log[a]) \in Nat /\ DOMAIN log[a] = 1 .. Len(log[a])
      /\ \A n \in 1 .. Len(log[a]) : log[a][n] \in E
  BY <1>1
<1> QED
  BY <1>2 DEF E

(* What an appended entry leaves of a log, and what it adds. *)
LEMMA Appended ==
  ASSUME TypeOK, NEW a \in Peers, NEW e, log'[a] = Append(log[a], e)
  PROVE  /\ DOMAIN log'[a] = 1 .. (Len(log[a]) + 1)
         /\ Len(log'[a]) = Len(log[a]) + 1
         /\ \A n \in 1 .. Len(log[a]) : log'[a][n] = log[a][n]
         /\ log'[a][Len(log[a]) + 1] = e
<1> DEFINE E == [tx : Transactions, deps : [Peers -> Nat]]
<1>1. log[a] \in Seq(E)
  BY DEF TypeOK
<1> HIDE DEF E
<1> QED
  BY <1>1

(* Scheduling extends one log. *)
LEMMA ScheduleShape ==
  ASSUME TypeOK, NEW p \in Peers, NEW tx \in Transactions, ScheduleTx(p, tx),
         tx.type = "InitializeStorage" => p \in Commanders,
         tx.type \in {"StorageRequest", "Stored"} => mode[p] = "initialized"
  PROVE  LogStep
<1>1. log' = [log EXCEPT ![p] = Append(log[p], [tx |-> tx, deps |-> recognized'[p]])]
  BY DEF ScheduleTx
<1> DEFINE q == Append(log[p], [tx |-> tx, deps |-> recognized'[p]])
<1>2. log' = [log EXCEPT ![p] = q]
  BY <1>1
<1>3. DOMAIN log = Peers
  BY DEF TypeOK
<1> HIDE DEF q
<1>4. \A a \in Peers : log'[a] = IF a = p THEN q ELSE log[a]
  BY <1>2, <1>3
<1> SUFFICES ASSUME NEW a \in Peers, log'[a] # log[a]
             PROVE  \E t \in Transactions :
                      /\ log'[a] = Append(log[a], [tx |-> t, deps |-> recognized'[a]])
                      /\ t.type = "InitializeStorage" => a \in Commanders
                      /\ t.type \in {"StorageRequest", "Stored"} => mode[a] = "initialized"
  BY DEF LogStep
<1>5. a = p /\ log'[a] = q
  BY <1>4
<1>6. log'[a] = Append(log[a], [tx |-> tx, deps |-> recognized'[a]])
  BY <1>5 DEF q
<1> QED
  BY <1>5, <1>6

(* Recognizing moves one position of one peer. *)
LEMMA RecognizeShape ==
  ASSUME TypeOK, NEW p \in Peers, NEW a \in Peers, NEW type, RecognizeTx(p, a, type)
  PROVE  /\ PositionStep
         /\ \A q, b \in Peers : recognized'[q][b] # recognized[q][b] => q = p /\ b = a
         /\ recognized'[p][a] = recognized[p][a] + 1
<1>1. recognized \in [Peers -> [Peers -> Nat]]
  BY DEF TypeOK
<1>2. recognized' = [recognized EXCEPT ![p][a] = @ + 1]
  BY DEF RecognizeTx
<1>3. \A q, b \in Peers : recognized'[q][b] =
        IF q = p /\ b = a THEN recognized[q][b] + 1 ELSE recognized[q][b]
  BY <1>1, <1>2
<1>4. /\ recognized[p][a] < Len(log[a])
      /\ \A b \in Peers : NextEntry(p, a).deps[b] <= recognized[p][b]
  BY DEF RecognizeTx, NextEntry
<1> QED
  BY <1>3, <1>4 DEF PositionStep

(* Nothing recognized, no position moves and nobody passes a distribution. *)
LEMMA StillShape ==
  ASSUME UNCHANGED recognized
  PROVE  /\ PositionStep
         /\ UNCHANGED <<mode, distribution>> => ModeStep
BY DEF PositionStep, ModeStep

(* Recognizing anything but a distribution changes no mode. *)
LEMMA OtherShape ==
  ASSUME TypeOK, NEW p \in Peers, NEW a \in Peers, NEW type, RecognizeTx(p, a, type),
         type # "InitializeStorage", UNCHANGED <<mode, distribution>>
  PROVE  ModeStep
<1>1. \A q, b \in Peers : recognized'[q][b] # recognized[q][b] => q = p /\ b = a
  BY RecognizeShape
<1>2. ~IsValidInit(NextEntry(p, a).tx)
  BY DEF RecognizeTx, NextEntry, IsValidInit
<1> QED
  BY <1>1, <1>2 DEF ModeStep

(* A step that extends no log. *)
LEMMA NoLogShape ==
  ASSUME UNCHANGED log PROVE LogStep
BY DEF LogStep

(* Every step has this shape; one step per action. *)
LEMMA StepShape ==
  ASSUME TypeOK, [Next]_vars
  PROVE  LogStep /\ PositionStep /\ ModeStep
<1> USE DEF memory, network, users
<1>1. ASSUME NEW p \in Commanders, InitializeStorage(p) PROVE LogStep /\ PositionStep /\ ModeStep
  <2>1. PICK d \in Enumerations : ScheduleTx(p, [type |-> "InitializeStorage", distribution |-> d])
    BY <1>1 DEF InitializeStorage
  <2> DEFINE tx == [type |-> "InitializeStorage", distribution |-> d]
  <2>2. tx \in Transactions /\ tx.type = "InitializeStorage" /\ ScheduleTx(p, tx) /\ p \in Peers
    BY <2>1, CommandAssumption DEF Transactions
  <2> HIDE DEF tx
  <2>3. LogStep
    BY <2>2, ScheduleShape
  <2>4. UNCHANGED <<recognized, mode, distribution>>
    BY <1>1 DEF InitializeStorage
  <2> QED
    BY <2>3, <2>4, StillShape
<1>2. ASSUME NEW p \in Commanders, NEW v \in PutVids, NEW d \in Values, Put(p, v, d)
      PROVE  LogStep /\ PositionStep /\ ModeStep
  <2> DEFINE tx == [type |-> "StorageRequest", vid |-> v]
  <2>1. /\ tx \in Transactions /\ tx.type = "StorageRequest" /\ ScheduleTx(p, tx) /\ p \in Peers
        /\ mode[p] = "initialized"
    BY <1>2, CommandAssumption DEF Put, Transactions
  <2> HIDE DEF tx
  <2>2. LogStep
    BY <2>1, ScheduleShape
  <2>3. UNCHANGED <<recognized, mode, distribution>>
    BY <1>2 DEF Put
  <2> QED
    BY <2>2, <2>3, StillShape
<1>3. ASSUME NEW p \in Peers, NEW v \in Vids, NEW s \in Sids, NEW shard,
             mode[p] = "initialized", handle_serve_shard_response(p, v, s, shard)
      PROVE  LogStep
  <2>1. CASE UNCHANGED log
    BY <2>1, NoLogShape
  <2>2. CASE ScheduleTx(p, [type |-> "Stored", vid |-> v, sid |-> s])
    <3> DEFINE tx == [type |-> "Stored", vid |-> v, sid |-> s]
    <3>1. tx \in Transactions /\ tx.type = "Stored" /\ ScheduleTx(p, tx)
      BY <2>2 DEF Transactions
    <3> HIDE DEF tx
    <3> QED
      BY <1>3, <3>1, ScheduleShape
  <2> QED
    BY <1>3, <2>1, <2>2 DEF handle_serve_shard_response
<1>4. ASSUME NEW p \in Peers, NEW a \in Peers, RecognizeInitializeStorage(p, a)
      PROVE  LogStep /\ PositionStep /\ ModeStep
  <2>1. LogStep
    BY <1>4, NoLogShape DEF RecognizeInitializeStorage
  <2>2. RecognizeTx(p, a, "InitializeStorage")
    BY <1>4 DEF RecognizeInitializeStorage
  <2>3. /\ PositionStep
        /\ \A q, b \in Peers : recognized'[q][b] # recognized[q][b] => q = p /\ b = a
        /\ recognized'[p][a] = recognized[p][a] + 1
    BY <2>2, RecognizeShape
  <2> DEFINE d == NextEntry(p, a).tx.distribution
  <2>4. NextEntry(p, a).tx.type = "InitializeStorage"
    BY <2>2 DEF RecognizeTx, NextEntry
  <2>5. /\ mode \in [Peers -> {"uninitialized", "initialized", "stopped"}]
        /\ DOMAIN distribution = Peers
    BY DEF TypeOK
  <2>6. CASE mode[p] = "uninitialized" /\ verify_distribution(d)
    <3>1. /\ mode' = [mode EXCEPT ![p] = "initialized"]
          /\ distribution' = [distribution EXCEPT ![p] = d]
      BY <1>4, <2>6 DEF RecognizeInitializeStorage, RecognizedTx, NextEntry
    <3>2. /\ mode'[p] = "initialized" /\ distribution'[p] = d
          /\ \A q \in Peers : q # p => mode'[q] = mode[q] /\ distribution'[q] = distribution[q]
      BY <2>5, <3>1
    <3>3. IsValidInit(NextEntry(p, a).tx)
      BY <2>4, <2>6 DEF IsValidInit
    <3> QED
      BY <2>1, <2>3, <2>6, <3>2, <3>3 DEF ModeStep
  <2>7. CASE ~(mode[p] = "uninitialized" /\ verify_distribution(d))
    <3>1. UNCHANGED <<mode, distribution>>
      BY <1>4, <2>7 DEF RecognizeInitializeStorage, RecognizedTx, NextEntry
    <3>2. mode[p] = "uninitialized" => ~IsValidInit(NextEntry(p, a).tx)
      BY <2>7 DEF IsValidInit
    <3> QED
      BY <2>1, <2>3, <3>1, <3>2 DEF ModeStep
  <2> QED
    BY <2>6, <2>7
<1>5. ASSUME NEW p \in Peers, NEW a \in Peers, RecognizeStorageRequest(p, a)
      PROVE  LogStep /\ PositionStep /\ ModeStep
  <2>1. RecognizeTx(p, a, "StorageRequest") /\ UNCHANGED <<mode, distribution>>
    BY <1>5 DEF RecognizeStorageRequest
  <2>2. PositionStep /\ ModeStep
    BY <2>1, RecognizeShape, OtherShape
  <2>3. RecognizedTx(p, a).vid \in Vids /\ assigned_shard_id(p) \in Sids \cup {NoSid}
    <3>1. RecognizedTx(p, a).vid \in Vids
      BY <2>1, RecognizedType, TransactionTypes
    <3> QED
      BY <3>1 DEF assigned_shard_id, TypeOK
  <2>4. \/ UNCHANGED log
        \/ /\ mode[p] = "initialized" /\ assigned_shard_id(p) # NoSid
           /\ handle_serve_shard_response(p, RecognizedTx(p, a).vid, assigned_shard_id(p),
                serve_shard(p, RecognizedTx(p, a).vid, assigned_shard_id(p)))
    BY <1>5 DEF RecognizeStorageRequest
  <2>5. LogStep
    <3>1. CASE UNCHANGED log
      BY <3>1, NoLogShape
    <3>2. CASE ~UNCHANGED log
      <4>1. PICK v \in Vids, s \in Sids :
              /\ mode[p] = "initialized"
              /\ handle_serve_shard_response(p, v, s, serve_shard(p, v, s))
        BY <2>3, <2>4, <3>2
      <4> QED
        BY <1>3, <4>1
    <3> QED
      BY <3>1, <3>2
  <2> QED
    BY <2>2, <2>5
<1>6. ASSUME NEW p \in Peers, NEW a \in Peers, RecognizeStored(p, a)
      PROVE  LogStep /\ PositionStep /\ ModeStep
  <2>1. RecognizeTx(p, a, "Stored") /\ UNCHANGED <<mode, distribution, log>>
    BY <1>6 DEF RecognizeStored
  <2> QED
    BY <2>1, RecognizeShape, OtherShape, NoLogShape
<1>7. ASSUME NEW p \in Peers, NEW a \in Peers, RecognizeExecuted(p, a)
      PROVE  LogStep /\ PositionStep /\ ModeStep
  <2>1. RecognizeTx(p, a, "Executed") /\ UNCHANGED <<distribution, log>>
    BY <1>7 DEF RecognizeExecuted
  <2>2. LogStep /\ PositionStep
    BY <2>1, RecognizeShape, NoLogShape
  <2>3. UNCHANGED mode \/ mode' = [mode EXCEPT ![p] = "stopped"]
    BY <1>7 DEF RecognizeExecuted
  <2>4. CASE UNCHANGED mode
    BY <2>1, <2>2, <2>4, OtherShape
  <2>5. CASE mode' = [mode EXCEPT ![p] = "stopped"]
    <3>1. mode'[p] = "stopped" /\ \A q \in Peers : q # p => mode'[q] = mode[q]
      BY <2>5 DEF TypeOK
    <3>2. \A q, b \in Peers : recognized'[q][b] # recognized[q][b] => q = p
      BY <2>1, RecognizeShape
    <3> QED
      BY <2>1, <2>2, <3>1, <3>2 DEF ModeStep
  <2> QED
    BY <2>3, <2>4, <2>5
<1>8. ASSUME NEW r \in requests, HandleRequest(r) PROVE LogStep /\ PositionStep /\ ModeStep
  BY <1>8, StillShape, NoLogShape DEF HandleRequest
<1>9. ASSUME NEW r \in responses, HandleServeShardResponse(r)
      PROVE  LogStep /\ PositionStep /\ ModeStep
  <2>1. /\ UNCHANGED <<mode, distribution, recognized>> /\ mode[r.to] = "initialized"
        /\ handle_serve_shard_response(r.to, r.vid, r.sid, r.shard)
    BY <1>9 DEF HandleServeShardResponse
  <2>2. r.to \in Peers /\ r.vid \in Vids /\ r.sid \in Sids
    BY DEF TypeOK, Responses
  <2>3. LogStep
    BY <1>3, <2>1, <2>2
  <2> QED
    BY <2>1, <2>3, StillShape
<1>10. ASSUME NEW r \in responses, HandleAssignedResponse(r)
       PROVE  LogStep /\ PositionStep /\ ModeStep
  BY <1>10, StillShape, NoLogShape DEF HandleAssignedResponse
<1>11. ASSUME LoseMessage \/ UNCHANGED vars PROVE LogStep /\ PositionStep /\ ModeStep
  BY <1>11, StillShape, NoLogShape DEF LoseMessage, vars
<1>12. ASSUME NEW p \in Peers, NEW prog \in Programs, RunProgram(p, prog)
       PROVE  LogStep /\ PositionStep /\ ModeStep
  <2> DEFINE tx == [type |-> "Executed", vid |-> prog.result]
  <2>1. /\ ScheduleTx(p, tx) /\ tx.type = "Executed" /\ tx \in Transactions
        /\ UNCHANGED <<recognized, mode, distribution>>
    BY <1>12, CommandAssumption DEF RunProgram, Transactions
  <2> HIDE DEF tx
  <2> QED
    BY <2>1, ScheduleShape, StillShape
<1>13. ASSUME NEW p \in Peers, NEW v \in Vids, Get(p, v)
       PROVE  LogStep /\ PositionStep /\ ModeStep
  BY <1>13, StillShape, NoLogShape DEF Get
<1>14. ASSUME NEW p \in Peers, BusWrite(p) PROVE LogStep /\ PositionStep /\ ModeStep
  BY <1>14, StillShape, NoLogShape DEF BusWrite
<1>15. ASSUME NEW p \in Peers, Crash(p) PROVE LogStep /\ PositionStep /\ ModeStep
  <2>1. UNCHANGED <<log, recognized, distribution>> /\ mode' = [mode EXCEPT ![p] = "stopped"]
    BY <1>15 DEF Crash
  <2>2. mode'[p] = "stopped" /\ \A q \in Peers : q # p => mode'[q] = mode[q]
    BY <2>1 DEF TypeOK
  <2>3. ModeStep
    BY <2>1, <2>2 DEF ModeStep
  <2> QED
    BY <2>1, <2>3, StillShape, NoLogShape
<1> QED
  BY <1>1, <1>2, <1>4, <1>5, <1>6, <1>7, <1>8, <1>9, <1>10, <1>11, <1>12, <1>13, <1>14, <1>15
  DEF Next, Recognize

-----------------------------------------------------------------------------
(* The inductive invariant.                                                *)

(* Peers recognize what was scheduled, ancestors first. *)
AncestorsFirst == \A p, a \in Peers :
  /\ recognized[p][a] <= Len(log[a])
  /\ \A n \in 1 .. recognized[p][a], b \in Peers : log[a][n].deps[b] <= recognized[p][b]

(* Only `c` proposes distributions. *)
SoleInitializer(c) == \A a \in Peers : \A n \in DOMAIN log[a] :
  log[a][n].tx.type = "InitializeStorage" => a = c

(* Peer `p` has adopted the first valid distribution in the log of `c`. *)
HasAdopted(c, p) == \E n \in 1 .. recognized[p][c] :
  /\ IsValidInit(log[c][n].tx)
  /\ \A m \in 1 .. (n - 1) : ~IsValidInit(log[c][m].tx)
  /\ distribution[p] = log[c][n].tx.distribution

(* A peer is initialized exactly when it has passed a valid distribution,  *)
(* and then has the first one.                                             *)
Adoption(c) == \A p \in Peers :
  /\ mode[p] = "uninitialized" =>
       /\ \A n \in 1 .. recognized[p][c] : ~IsValidInit(log[c][n].tx)
       /\ distribution[p] = [q \in Peers |-> NoSid]
  /\ mode[p] = "initialized" => HasAdopted(c, p)
  /\ distribution[p] # [q \in Peers |-> NoSid] => HasAdopted(c, p)

(* A valid distribution is among the ancestors of every storage            *)
(* transaction.                                                            *)
StorageAfterInit(c) == \A a \in Peers : \A n \in DOMAIN log[a] :
  log[a][n].tx.type \in {"StorageRequest", "Stored"} =>
    \E m \in 1 .. log[a][n].deps[c] : m \in DOMAIN log[c] /\ IsValidInit(log[c][m].tx)

AgreementInv(c) == /\ AncestorsFirst /\ SoleInitializer(c)
                   /\ Adoption(c) /\ StorageAfterInit(c)

(* Entries of a log stay; a new one is the author's last. *)
LEMMA LogGrows ==
  ASSUME TypeOK, LogStep, NEW a \in Peers
  PROVE  /\ DOMAIN log'[a] = 1 .. Len(log'[a]) /\ Len(log'[a]) \in Nat
         /\ Len(log[a]) <= Len(log'[a])
         /\ \A n \in 1 .. Len(log[a]) : log'[a][n] = log[a][n]
         /\ \A n \in 1 .. Len(log'[a]) : n \in 1 .. Len(log[a]) \/
              \E tx \in Transactions :
                /\ log'[a][n] = [tx |-> tx, deps |-> recognized'[a]]
                /\ tx.type = "InitializeStorage" => a \in Commanders
                /\ tx.type \in {"StorageRequest", "Stored"} => mode[a] = "initialized"
<1>1. Len(log[a]) \in Nat /\ DOMAIN log[a] = 1 .. Len(log[a])
  BY LogType
<1>2. CASE log'[a] = log[a]
  BY <1>1, <1>2
<1>3. CASE log'[a] # log[a]
  <2>1. PICK tx \in Transactions :
          /\ log'[a] = Append(log[a], [tx |-> tx, deps |-> recognized'[a]])
          /\ tx.type = "InitializeStorage" => a \in Commanders
          /\ tx.type \in {"StorageRequest", "Stored"} => mode[a] = "initialized"
    BY <1>3 DEF LogStep
  <2> DEFINE e == [tx |-> tx, deps |-> recognized'[a]]
  <2>2. log'[a] = Append(log[a], e)
    BY <2>1
  <2> HIDE DEF e
  <2>3. /\ DOMAIN log'[a] = 1 .. (Len(log[a]) + 1)
        /\ Len(log'[a]) = Len(log[a]) + 1
        /\ \A n \in 1 .. Len(log[a]) : log'[a][n] = log[a][n]
        /\ log'[a][Len(log[a]) + 1] = e
    BY <2>2, Appended
  <2>4. \A n \in 1 .. Len(log'[a]) : n \in 1 .. Len(log[a]) \/ log'[a][n] = e
    BY <1>1, <2>3
  <2>5. \A n \in 1 .. Len(log'[a]) : n \in 1 .. Len(log[a]) \/
          \E t \in Transactions :
            /\ log'[a][n] = [tx |-> t, deps |-> recognized'[a]]
            /\ t.type = "InitializeStorage" => a \in Commanders
            /\ t.type \in {"StorageRequest", "Stored"} => mode[a] = "initialized"
    <3> SUFFICES ASSUME NEW n \in 1 .. Len(log'[a]), n \notin 1 .. Len(log[a])
                 PROVE  \E t \in Transactions :
                          /\ log'[a][n] = [tx |-> t, deps |-> recognized'[a]]
                          /\ t.type = "InitializeStorage" => a \in Commanders
                          /\ t.type \in {"StorageRequest", "Stored"} => mode[a] = "initialized"
      OBVIOUS
    <3>1. log'[a][n] = [tx |-> tx, deps |-> recognized'[a]]
      BY <2>4 DEF e
    <3> QED
      BY <2>1, <3>1
  <2>6. Len(log'[a]) \in Nat /\ Len(log[a]) <= Len(log'[a]) /\ DOMAIN log'[a] = 1 .. Len(log'[a])
    BY <1>1, <2>3
  <2> QED
    BY <2>3, <2>5, <2>6
<1> QED
  BY <1>2, <1>3

(* Positions are numbers, and move forward. *)
LEMMA PositionsGrow ==
  ASSUME TypeOK, PositionStep, NEW p \in Peers, NEW a \in Peers
  PROVE  /\ recognized[p][a] \in Nat /\ recognized'[p][a] \in Nat
         /\ recognized[p][a] <= recognized'[p][a]
<1>1. recognized[p][a] \in Nat
  BY DEF TypeOK
<1> QED
  BY <1>1 DEF PositionStep

(* Every step keeps the order of ancestry. *)
LEMMA AncestorsNext ==
  ASSUME TypeOK, AncestorsFirst, LogStep, PositionStep
  PROVE  AncestorsFirst'
<1> SUFFICES ASSUME NEW p \in Peers, NEW a \in Peers
             PROVE  /\ recognized'[p][a] <= Len(log'[a])
                    /\ \A n \in 1 .. recognized'[p][a], b \in Peers :
                         log'[a][n].deps[b] <= recognized'[p][b]
  BY DEF AncestorsFirst
<1>1. /\ Len(log[a]) \in Nat /\ Len(log'[a]) \in Nat /\ Len(log[a]) <= Len(log'[a])
      /\ \A n \in 1 .. Len(log[a]) : log'[a][n] = log[a][n]
  BY LogGrows, LogType
<1>2. recognized[p][a] \in Nat /\ recognized[p][a] <= Len(log[a])
  BY DEF AncestorsFirst, TypeOK
<1>3. /\ recognized'[p][a] \in {recognized[p][a], recognized[p][a] + 1}
      /\ recognized'[p][a] <= Len(log[a])
  BY <1>1, <1>2 DEF PositionStep
<1>4. ASSUME NEW n \in 1 .. recognized'[p][a], NEW b \in Peers
      PROVE  log'[a][n].deps[b] <= recognized'[p][b]
  <2>1. n \in 1 .. Len(log[a]) /\ log'[a][n] = log[a][n]
    BY <1>1, <1>2, <1>3, <1>4
  <2>2. log[a][n].deps[b] \in Nat
    BY <2>1, LogType
  <2>3. log[a][n].deps[b] <= recognized[p][b]
    <3>1. CASE n \in 1 .. recognized[p][a]
      BY <3>1 DEF AncestorsFirst
    <3>2. CASE n \notin 1 .. recognized[p][a]
      <4>1. n = recognized[p][a] + 1 /\ recognized'[p][a] # recognized[p][a]
        BY <1>2, <1>3, <1>4, <3>2
      <4> QED
        BY <4>1 DEF PositionStep, NextEntry
    <3> QED
      BY <3>1, <3>2
  <2>4. /\ recognized[p][b] \in Nat /\ recognized'[p][b] \in Nat
        /\ recognized[p][b] <= recognized'[p][b]
    BY PositionsGrow
  <2>5. log[a][n].deps[b] <= recognized'[p][b]
    BY <2>2, <2>3, <2>4
  <2> QED
    BY <2>1, <2>5
<1>5. recognized'[p][a] <= Len(log'[a])
  BY <1>1, <1>2, <1>3
<1> QED
  BY <1>4, <1>5

(* Nobody else starts to propose distributions. *)
LEMMA SoleNext ==
  ASSUME NEW c \in Peers, Commanders = {c}, TypeOK, SoleInitializer(c), LogStep
  PROVE  SoleInitializer(c)'
<1> SUFFICES ASSUME NEW a \in Peers, NEW n \in DOMAIN log'[a],
                    log'[a][n].tx.type = "InitializeStorage"
             PROVE  a = c
  BY DEF SoleInitializer
<1>1. n \in 1 .. Len(log'[a])
  BY LogGrows
<1>2. CASE n \in 1 .. Len(log[a])
  <2>1. n \in DOMAIN log[a] /\ log'[a][n] = log[a][n]
    BY <1>2, LogGrows, LogType
  <2> QED
    BY <2>1 DEF SoleInitializer
<1>3. CASE n \notin 1 .. Len(log[a])
  <2>1. PICK tx \in Transactions :
          /\ log'[a][n] = [tx |-> tx, deps |-> recognized'[a]]
          /\ tx.type = "InitializeStorage" => a \in Commanders
    BY <1>1, <1>3, LogGrows
  <2>2. log'[a][n].tx = tx
    BY <2>1
  <2> QED
    BY <2>1, <2>2
<1> QED
  BY <1>2, <1>3

(* A distribution adopted stays the first valid one. *)
LEMMA AdoptedKept ==
  ASSUME NEW c \in Peers, NEW p \in Peers, TypeOK, AncestorsFirst, LogStep, PositionStep,
         HasAdopted(c, p), distribution'[p] = distribution[p]
  PROVE  HasAdopted(c, p)'
<1>1. PICK n \in 1 .. recognized[p][c] :
        /\ IsValidInit(log[c][n].tx)
        /\ \A m \in 1 .. (n - 1) : ~IsValidInit(log[c][m].tx)
        /\ distribution[p] = log[c][n].tx.distribution
  BY DEF HasAdopted
<1>2. /\ recognized[p][c] \in Nat /\ recognized'[p][c] \in Nat
      /\ recognized[p][c] <= recognized'[p][c]
  BY PositionsGrow
<1>3. recognized[p][c] <= Len(log[c]) /\ Len(log[c]) \in Nat
  BY LogType DEF AncestorsFirst
<1>4. \A m \in 1 .. Len(log[c]) : log'[c][m] = log[c][m]
  BY LogGrows
<1>5. n \in 1 .. recognized'[p][c] /\ log'[c][n] = log[c][n]
  BY <1>2, <1>3, <1>4
<1>6. \A m \in 1 .. (n - 1) : log'[c][m] = log[c][m]
  BY <1>2, <1>3, <1>4
<1>7. \A m \in 1 .. (n - 1) : ~IsValidInit(log'[c][m].tx)
  BY <1>1, <1>6
<1>8. /\ IsValidInit(log'[c][n].tx)
      /\ distribution'[p] = log'[c][n].tx.distribution
  BY <1>1, <1>5
<1> QED
  BY <1>5, <1>7, <1>8 DEF HasAdopted, IsValidInit, verify_distribution

(* Every step keeps the adopted distributions the first valid one. *)
LEMMA AdoptionNext ==
  ASSUME NEW c \in Peers, TypeOK, AncestorsFirst, SoleInitializer(c), Adoption(c),
         LogStep, PositionStep, ModeStep
  PROVE  Adoption(c)'
<1> DEFINE Unset == [q \in Peers |-> NoSid]
<1> SUFFICES ASSUME NEW p \in Peers
             PROVE  /\ mode'[p] = "uninitialized" =>
                         /\ \A n \in 1 .. recognized'[p][c] : ~IsValidInit(log'[c][n].tx)
                         /\ distribution'[p] = Unset
                    /\ mode'[p] = "initialized" => HasAdopted(c, p)'
                    /\ distribution'[p] # Unset => HasAdopted(c, p)'
  BY DEF Adoption, IsValidInit, verify_distribution
<1>1. /\ mode[p] = "uninitialized" =>
           /\ \A n \in 1 .. recognized[p][c] : ~IsValidInit(log[c][n].tx)
           /\ distribution[p] = Unset
      /\ mode[p] = "initialized" => HasAdopted(c, p)
      /\ distribution[p] # Unset => HasAdopted(c, p)
  BY DEF Adoption
<1> HIDE DEF Unset
<1>2. \A m \in 1 .. Len(log[c]) : log'[c][m] = log[c][m]
  BY LogGrows
<1>3. /\ recognized[p][c] \in Nat /\ recognized[p][c] <= Len(log[c]) /\ Len(log[c]) \in Nat
  BY LogType DEF AncestorsFirst, TypeOK
<1>4. CASE /\ mode'[p] = mode[p] /\ distribution'[p] = distribution[p]
           /\ mode[p] = "uninitialized" => \A a \in Peers :
                recognized'[p][a] # recognized[p][a] => ~IsValidInit(NextEntry(p, a).tx)
  <2>1. HasAdopted(c, p) => HasAdopted(c, p)'
    BY <1>4, AdoptedKept
  <2>2. ASSUME mode'[p] = "uninitialized", NEW n \in 1 .. recognized'[p][c]
        PROVE  ~IsValidInit(log'[c][n].tx)
    <3>1. CASE n \in 1 .. recognized[p][c]
      <4>1. log'[c][n] = log[c][n]
        BY <1>2, <1>3, <3>1
      <4>2. ~IsValidInit(log[c][n].tx)
        BY <1>1, <1>4, <2>2, <3>1
      <4> QED
        BY <4>1, <4>2
    <3>2. CASE n \notin 1 .. recognized[p][c]
      <4>1. /\ recognized'[p][c] # recognized[p][c]
            /\ recognized'[p][c] = recognized[p][c] + 1 /\ recognized[p][c] < Len(log[c])
        BY <1>3, <2>2, <3>2 DEF PositionStep
      <4>2. n = recognized[p][c] + 1 /\ n \in 1 .. Len(log[c])
        BY <1>3, <2>2, <3>2, <4>1
      <4>3. ~IsValidInit(log[c][n].tx)
        BY <1>4, <2>2, <4>1, <4>2 DEF NextEntry
      <4>4. log'[c][n] = log[c][n]
        BY <1>2, <4>2
      <4> QED
        BY <4>3, <4>4
    <3> QED
      BY <3>1, <3>2
  <2> QED
    BY <1>1, <1>4, <2>1, <2>2
<1>5. CASE mode'[p] = "stopped" /\ distribution'[p] = distribution[p]
  <2>1. HasAdopted(c, p) => HasAdopted(c, p)'
    BY <1>5, AdoptedKept
  <2> QED
    BY <1>1, <1>5, <2>1
<1>6. CASE /\ mode[p] = "uninitialized" /\ mode'[p] = "initialized"
           /\ \E a \in Peers :
                /\ recognized'[p][a] = recognized[p][a] + 1
                /\ IsValidInit(NextEntry(p, a).tx)
                /\ distribution'[p] = NextEntry(p, a).tx.distribution
  <2>1. PICK a \in Peers :
          /\ recognized'[p][a] = recognized[p][a] + 1
          /\ IsValidInit(NextEntry(p, a).tx)
          /\ distribution'[p] = NextEntry(p, a).tx.distribution
    BY <1>6
  <2>2. recognized[p][a] \in Nat /\ recognized[p][a] < Len(log[a]) /\ Len(log[a]) \in Nat
    <3>1. recognized[p][a] \in Nat
      BY DEF TypeOK
    <3> QED
      BY <2>1, <3>1, LogType DEF PositionStep
  <2>3. recognized[p][a] + 1 \in DOMAIN log[a]
    BY <2>2, LogType
  <2>4. a = c
    BY <2>1, <2>3 DEF SoleInitializer, IsValidInit, NextEntry
  <2>5. PICK n : n = recognized[p][c] + 1
    OBVIOUS
  <2>6. /\ n \in 1 .. recognized'[p][c] /\ n \in 1 .. Len(log[c])
        /\ \A m \in 1 .. (n - 1) : m \in 1 .. recognized[p][c] /\ m \in 1 .. Len(log[c])
    BY <1>3, <2>1, <2>2, <2>4, <2>5
  <2>7. /\ IsValidInit(log'[c][n].tx) /\ distribution'[p] = log'[c][n].tx.distribution
    BY <1>2, <2>1, <2>4, <2>5, <2>6 DEF NextEntry
  <2>8. \A m \in 1 .. (n - 1) : ~IsValidInit(log'[c][m].tx)
    BY <1>1, <1>2, <1>6, <2>6
  <2>9. HasAdopted(c, p)'
    BY <2>6, <2>7, <2>8 DEF HasAdopted, IsValidInit, verify_distribution
  <2> QED
    BY <1>6, <2>9
<1> QED
  BY <1>4, <1>5, <1>6 DEF ModeStep

(* Every step keeps storage after a valid distribution. *)
LEMMA StorageNext ==
  ASSUME NEW c \in Peers, TypeOK, AncestorsFirst, Adoption(c), StorageAfterInit(c),
         LogStep, PositionStep
  PROVE  StorageAfterInit(c)'
<1> SUFFICES ASSUME NEW a \in Peers, NEW n \in DOMAIN log'[a],
                    log'[a][n].tx.type \in {"StorageRequest", "Stored"}
             PROVE  \E m \in 1 .. log'[a][n].deps[c] :
                      m \in DOMAIN log'[c] /\ IsValidInit(log'[c][m].tx)
  BY DEF StorageAfterInit, IsValidInit, verify_distribution
<1>1. n \in 1 .. Len(log'[a])
  BY LogGrows
<1>2. /\ \A m \in DOMAIN log[c] : m \in DOMAIN log'[c] /\ log'[c][m] = log[c][m]
      /\ DOMAIN log[c] = 1 .. Len(log[c]) /\ Len(log[c]) \in Nat
  <2>1. /\ DOMAIN log'[c] = 1 .. Len(log'[c]) /\ Len(log'[c]) \in Nat
        /\ Len(log[c]) <= Len(log'[c])
        /\ \A m \in 1 .. Len(log[c]) : log'[c][m] = log[c][m]
    BY LogGrows
  <2>2. DOMAIN log[c] = 1 .. Len(log[c]) /\ Len(log[c]) \in Nat
    BY LogType
  <2> QED
    BY <2>1, <2>2
<1>3. CASE n \in 1 .. Len(log[a])
  <2>1. n \in DOMAIN log[a] /\ log'[a][n] = log[a][n]
    BY <1>3, LogGrows, LogType
  <2>2. PICK m \in 1 .. log[a][n].deps[c] : m \in DOMAIN log[c] /\ IsValidInit(log[c][m].tx)
    BY <2>1 DEF StorageAfterInit
  <2> QED
    BY <1>2, <2>1, <2>2
<1>4. CASE n \notin 1 .. Len(log[a])
  <2>1. PICK tx \in Transactions :
          /\ log'[a][n] = [tx |-> tx, deps |-> recognized'[a]]
          /\ tx.type \in {"StorageRequest", "Stored"} => mode[a] = "initialized"
    BY <1>1, <1>4, LogGrows
  <2>2. log'[a][n].tx = tx /\ log'[a][n].deps = recognized'[a]
    BY <2>1
  <2>3. HasAdopted(c, a)
    BY <2>1, <2>2 DEF Adoption
  <2>4. PICK m \in 1 .. recognized[a][c] : IsValidInit(log[c][m].tx)
    BY <2>3 DEF HasAdopted
  <2>5. /\ recognized[a][c] \in Nat /\ recognized'[a][c] \in Nat
        /\ recognized[a][c] <= recognized'[a][c]
    BY PositionsGrow
  <2>6. recognized[a][c] <= Len(log[c])
    BY DEF AncestorsFirst
  <2>7. m \in DOMAIN log[c] /\ m \in 1 .. recognized'[a][c]
    BY <1>2, <2>5, <2>6
  <2> QED
    BY <1>2, <2>2, <2>4, <2>7
<1> QED
  BY <1>3, <1>4

(* There is one first valid distribution. *)
LEMMA SameAdopted ==
  ASSUME NEW c \in Peers, NEW p \in Peers, NEW q \in Peers, TypeOK,
         HasAdopted(c, p), HasAdopted(c, q)
  PROVE  distribution[p] = distribution[q]
<1>1. PICK n \in 1 .. recognized[p][c] :
        /\ IsValidInit(log[c][n].tx)
        /\ \A m \in 1 .. (n - 1) : ~IsValidInit(log[c][m].tx)
        /\ distribution[p] = log[c][n].tx.distribution
  BY DEF HasAdopted
<1>2. PICK k \in 1 .. recognized[q][c] :
        /\ IsValidInit(log[c][k].tx)
        /\ \A m \in 1 .. (k - 1) : ~IsValidInit(log[c][m].tx)
        /\ distribution[q] = log[c][k].tx.distribution
  BY DEF HasAdopted
<1>3. recognized[p][c] \in Nat /\ recognized[q][c] \in Nat
  BY DEF TypeOK
<1>4. n \in Nat /\ k \in Nat /\ n >= 1 /\ k >= 1
  BY <1>3
<1>5. ~(n < k) /\ ~(k < n)
  <2>1. n < k => n \in 1 .. (k - 1)
    BY <1>4
  <2>2. k < n => k \in 1 .. (n - 1)
    BY <1>4
  <2> QED
    BY <1>1, <1>2, <2>1, <2>2
<1>6. n = k
  BY <1>4, <1>5
<1> QED
  BY <1>1, <1>2, <1>6

(* The invariant holds in every reachable state. *)
LEMMA AgreementSafe ==
  ASSUME NEW c \in Peers, Commanders = {c}
  PROVE  Spec => [](TypeOK /\ AgreementInv(c))
<1>1. Init => AgreementInv(c)
  <2> SUFFICES ASSUME Init PROVE AgreementInv(c)
    OBVIOUS
  <2>1. /\ \A p \in Peers : /\ log[p] = <<>> /\ mode[p] = "uninitialized"
                            /\ distribution[p] = [q \in Peers |-> NoSid]
        /\ \A p, a \in Peers : recognized[p][a] = 0
    BY DEF Init
  <2>2. Len(<<>>) = 0 /\ DOMAIN <<>> = {} /\ 1 .. 0 = {}
    OBVIOUS
  <2>3. AncestorsFirst
    BY <2>1, <2>2 DEF AncestorsFirst
  <2>4. SoleInitializer(c) /\ StorageAfterInit(c)
    BY <2>1, <2>2 DEF SoleInitializer, StorageAfterInit
  <2>5. Adoption(c)
    BY <2>1, <2>2 DEF Adoption
  <2> QED
    BY <2>3, <2>4, <2>5 DEF AgreementInv
<1>2. TypeOK /\ AgreementInv(c) /\ [Next]_vars => AgreementInv(c)'
  <2> SUFFICES ASSUME TypeOK, AgreementInv(c), [Next]_vars PROVE AgreementInv(c)'
    OBVIOUS
  <2>1. LogStep /\ PositionStep /\ ModeStep
    BY StepShape
  <2>2. AncestorsFirst /\ SoleInitializer(c) /\ Adoption(c) /\ StorageAfterInit(c)
    BY DEF AgreementInv
  <2>3. AncestorsFirst'
    BY <2>1, <2>2, AncestorsNext
  <2>4. SoleInitializer(c)'
    BY <2>1, <2>2, SoleNext
  <2>5. Adoption(c)'
    BY <2>1, <2>2, AdoptionNext
  <2>6. StorageAfterInit(c)'
    BY <2>1, <2>2, StorageNext
  <2> QED
    BY <2>3, <2>4, <2>5, <2>6 DEF AgreementInv
<1> QED
  BY <1>1, <1>2, TypeInit, TypeNext, PTL DEF Spec

(* With one commander all initialized peers have the same distribution,    *)
(* for any number of peers and of InitializeStorage commands, valid or     *)
(* not: each adopts the first valid one it recognizes, which ancestry      *)
(* makes the first valid one in the commander's log.                       *)
THEOREM DistributionsAgree ==
  ASSUME NEW c \in Peers, Commanders = {c}
  PROVE  Spec => []DistributionAgreement
<1>1. TypeOK /\ AgreementInv(c) => DistributionAgreement
  <2> SUFFICES ASSUME TypeOK, AgreementInv(c), NEW p \in Peers, NEW q \in Peers,
                      mode[p] = "initialized", mode[q] = "initialized"
               PROVE  distribution[p] = distribution[q]
    BY DEF DistributionAgreement
  <2>1. HasAdopted(c, p) /\ HasAdopted(c, q)
    BY DEF AgreementInv, Adoption
  <2> QED
    BY <2>1, SameAdopted
<1> QED
  BY <1>1, AgreementSafe, PTL

(* With one commander no peer recognizes, and so loses for good, a storage *)
(* transaction before it is initialized: what the documentation says the   *)
(* InitializeStorage transaction is for.                                   *)
THEOREM InitializationFirst ==
  ASSUME NEW c \in Peers, Commanders = {c}
  PROVE  Spec => []NothingStoredBeforeInit
<1>1. TypeOK /\ AgreementInv(c) => NothingStoredBeforeInit
  <2> SUFFICES ASSUME TypeOK, AgreementInv(c), NEW p \in Peers, mode[p] = "uninitialized",
                      NEW a \in Peers, NEW n \in 1 .. recognized[p][a],
                      log[a][n].tx.type \in {"StorageRequest", "Stored"}
               PROVE  FALSE
    BY DEF NothingStoredBeforeInit
  <2>1. n \in 1 .. Len(log[a]) /\ n \in DOMAIN log[a]
    <3>1. recognized[p][a] \in Nat /\ Len(log[a]) \in Nat /\ recognized[p][a] <= Len(log[a])
      BY LogType DEF AgreementInv, AncestorsFirst, TypeOK
    <3> QED
      BY <3>1, LogType
  <2>2. PICK m \in 1 .. log[a][n].deps[c] : IsValidInit(log[c][m].tx)
    BY <2>1 DEF AgreementInv, StorageAfterInit
  <2>3. log[a][n].deps[c] \in Nat /\ log[a][n].deps[c] <= recognized[p][c]
    <3>1. log[a][n].deps \in [Peers -> Nat]
      BY <2>1, LogType
    <3> QED
      BY <3>1 DEF AgreementInv, AncestorsFirst
  <2>4. recognized[p][c] \in Nat
    BY DEF TypeOK
  <2>5. m \in 1 .. recognized[p][c]
    BY <2>3, <2>4
  <2> QED
    BY <2>2, <2>5 DEF AgreementInv, Adoption
<1> QED
  BY <1>1, AgreementSafe, PTL

-----------------------------------------------------------------------------
(* The way of a shard to the peer that stores it.                          *)

Pulls(q, v) == {r \in requests : r.kind = "serve" /\ r.from = q /\ r.vid = v}
Served(q, v) == {r \in responses : r.kind = "serve" /\ r.to = q /\ r.vid = v}
Announcements(q, v) == {n \in DOMAIN log[q] : log[q][n].tx.type = "Stored" /\ log[q][n].tx.vid = v}

(* What peer `q` has under way or done to store its shard of address `v`:  *)
(* requests, responses and announcements.                                  *)
Deliveries(q, v) ==
       {[at |-> "request", of |-> r, sid |-> r.sid] : r \in Pulls(q, v)}
  \cup {[at |-> "response", of |-> r, sid |-> r.sid] : r \in Served(q, v)}
  \cup {[at |-> "log", of |-> n, sid |-> log[q][n].tx.sid] : n \in Announcements(q, v)}

IsStorageRequest(tx, v) == tx.type = "StorageRequest" /\ tx.vid = v

(* A step ends deliveries, moves one on, or starts one when the peer       *)
(* recognizes a StorageRequest.                                            *)
DeliveryStep == \A q \in Peers, v \in Vids :
  \/ Deliveries(q, v)' \subseteq Deliveries(q, v)
  \/ \E x \in Deliveries(q, v) : \E y :
       /\ y.sid = x.sid
       /\ Deliveries(q, v)' \subseteq (Deliveries(q, v) \ {x}) \cup {y}
  \/ \E a \in Peers : \E y :
       /\ y.sid = assigned_shard_id(q) /\ y.sid \in Sids
       /\ Deliveries(q, v)' \subseteq Deliveries(q, v) \cup {y}
       /\ recognized'[q][a] = recognized[q][a] + 1
       /\ IsStorageRequest(NextEntry(q, a).tx, v)

(* Peer `q` has recognized a request to store address `v`. *)
AskedToStore(q, v) == \E a \in Peers : \E n \in 1 .. recognized[q][a] :
  IsStorageRequest(log[a][n].tx, v)

(* A peer pulls and announces the shard the distribution assigns to it. *)
PulledInv == \A q \in Peers, v \in Vids : \A x \in Deliveries(q, v) :
  x.sid = assigned_shard_id(q) /\ x.sid \in Sids

(* A location is known only with a distribution, and agrees with it. *)
LocatedInv == \A p \in Peers, v \in Vids, s \in Sids :
  data_known_locations[p][v][s] # NoPeer =>
    mode[p] # "uninitialized" /\ distribution[p][data_known_locations[p][v][s]] = s

(* An address is requested to be stored once, when it is put. *)
RequestedOnce ==
  /\ \A v \in Vids, a \in Peers : \A n \in DOMAIN log[a] :
       IsStorageRequest(log[a][n].tx, v) => spent.puts[v] # 0
  /\ \A v \in Vids, a, b \in Peers : \A n \in DOMAIN log[a], m \in DOMAIN log[b] :
       IsStorageRequest(log[a][n].tx, v) /\ IsStorageRequest(log[b][m].tx, v) => a = b /\ n = m

(* A peer stores an address once, when it was asked to. *)
DeliveredOnce == \A q \in Peers, v \in Vids :
  /\ Deliveries(q, v) # {} => AskedToStore(q, v)
  /\ \A x, y \in Deliveries(q, v) : x = y

(* A location of an address that no program computes is known from its     *)
(* announcement only.                                                      *)
LocatedIsAnnounced == \A p \in Peers, v \in Plain, s \in Sids :
  data_known_locations[p][v][s] # NoPeer =>
    \E n \in 1 .. recognized[p][data_known_locations[p][v][s]] :
      LET tx == log[data_known_locations[p][v][s]][n].tx
      IN  tx.type = "Stored" /\ tx.vid = v /\ tx.sid = s

(* A peer is told at most once that an address is stored. *)
ToldOnce == \A p \in Peers, v \in Vids : put_confirmed[p][v] <= 1

(* What scheduling adds to the announcements of an address. *)
LEMMA AnnouncementStep ==
  ASSUME TypeOK, NEW p \in Peers, NEW tx, ScheduleTx(p, tx), NEW q \in Peers, NEW v
  PROVE  /\ \A n \in Announcements(q, v)' :
              \/ n \in Announcements(q, v) /\ log'[q][n] = log[q][n]
              \/ /\ q = p /\ n = Len(log[p]) + 1 /\ tx.type = "Stored" /\ tx.vid = v
                 /\ log'[q][n].tx = tx
<1> DEFINE e == [tx |-> tx, deps |-> recognized'[p]]
<1>1. log' = [log EXCEPT ![p] = Append(log[p], e)]
  BY DEF ScheduleTx
<1>2. e.tx = tx
  OBVIOUS
<1>3. DOMAIN log = Peers
  BY DEF TypeOK
<1> HIDE DEF e
<1>4. CASE q # p
  <2>1. log'[q] = log[q]
    BY <1>1, <1>3, <1>4
  <2> QED
    BY <2>1 DEF Announcements
<1>5. CASE q = p
  <2>1. log'[p] = Append(log[p], e)
    BY <1>1, <1>3
  <2>2. /\ DOMAIN log'[p] = 1 .. (Len(log[p]) + 1)
        /\ \A n \in 1 .. Len(log[p]) : log'[p][n] = log[p][n]
        /\ log'[p][Len(log[p]) + 1] = e
    BY <2>1, Appended
  <2>3. Len(log[p]) \in Nat /\ DOMAIN log[p] = 1 .. Len(log[p])
    BY LogType
  <2>4. \A n \in DOMAIN log'[p] : n \in DOMAIN log[p] \/ n = Len(log[p]) + 1
    BY <2>2, <2>3
  <2> QED
    BY <1>2, <1>5, <2>2, <2>3, <2>4 DEF Announcements
<1> QED
  BY <1>4, <1>5

(* The members of Deliveries after a step. *)
LEMMA DeliveriesNext ==
  ASSUME NEW q, NEW v, NEW t \in Deliveries(q, v)'
  PROVE  \/ \E r \in Pulls(q, v)' : t = [at |-> "request", of |-> r, sid |-> r.sid]
         \/ \E r \in Served(q, v)' : t = [at |-> "response", of |-> r, sid |-> r.sid]
         \/ \E n \in Announcements(q, v)' :
              t = [at |-> "log", of |-> n, sid |-> log'[q][n].tx.sid]
BY DEF Deliveries

(* No request or response of a pull is added, and nothing is announced. *)
LEMMA QuietDelivery ==
  ASSUME TypeOK,
         \A r \in requests' : r \in requests \/ r.kind # "serve",
         \A r \in responses' : r \in responses \/ r.kind # "serve",
         \/ UNCHANGED log
         \/ \E p \in Peers, tx \in Transactions : ScheduleTx(p, tx) /\ tx.type # "Stored"
  PROVE  DeliveryStep
<1> SUFFICES ASSUME NEW q \in Peers, NEW v \in Vids, NEW t \in Deliveries(q, v)'
             PROVE  t \in Deliveries(q, v)
  BY DEF DeliveryStep
<1>1. Pulls(q, v)' \subseteq Pulls(q, v) /\ Served(q, v)' \subseteq Served(q, v)
  BY DEF Pulls, Served
<1>2. \A n \in Announcements(q, v)' : n \in Announcements(q, v) /\ log'[q][n] = log[q][n]
  <2>1. CASE UNCHANGED log
    BY <2>1 DEF Announcements
  <2>2. CASE \E p \in Peers, tx \in Transactions : ScheduleTx(p, tx) /\ tx.type # "Stored"
    BY <2>2, AnnouncementStep
  <2> QED
    BY <2>1, <2>2
<1>3. \/ \E r \in Pulls(q, v)' : t = [at |-> "request", of |-> r, sid |-> r.sid]
      \/ \E r \in Served(q, v)' : t = [at |-> "response", of |-> r, sid |-> r.sid]
      \/ \E n \in Announcements(q, v)' :
           t = [at |-> "log", of |-> n, sid |-> log'[q][n].tx.sid]
  BY DeliveriesNext
<1>4. \/ \E r \in Pulls(q, v) : t = [at |-> "request", of |-> r, sid |-> r.sid]
      \/ \E r \in Served(q, v) : t = [at |-> "response", of |-> r, sid |-> r.sid]
      \/ \E n \in Announcements(q, v) :
           t = [at |-> "log", of |-> n, sid |-> log[q][n].tx.sid]
  BY <1>1, <1>2, <1>3
<1> QED
  BY <1>4 DEF Deliveries

(* A delivery that moves on, or starts: of one peer, for one address. *)
LEMMA OneDelivery ==
  ASSUME TypeOK, NEW p \in Peers, NEW w \in Vids, NEW y,
         \A q \in Peers, v \in Vids : q # p \/ v # w => Deliveries(q, v)' \subseteq Deliveries(q, v),
         \/ \E x \in Deliveries(p, w) :
              /\ y.sid = x.sid
              /\ Deliveries(p, w)' \subseteq (Deliveries(p, w) \ {x}) \cup {y}
         \/ \E a \in Peers :
              /\ y.sid = assigned_shard_id(p) /\ y.sid \in Sids
              /\ Deliveries(p, w)' \subseteq Deliveries(p, w) \cup {y}
              /\ recognized'[p][a] = recognized[p][a] + 1
              /\ IsStorageRequest(NextEntry(p, a).tx, w)
  PROVE  DeliveryStep
<1> SUFFICES ASSUME NEW q \in Peers, NEW v \in Vids
             PROVE  \/ Deliveries(q, v)' \subseteq Deliveries(q, v)
                    \/ \E x \in Deliveries(q, v) : \E z :
                         /\ z.sid = x.sid
                         /\ Deliveries(q, v)' \subseteq (Deliveries(q, v) \ {x}) \cup {z}
                    \/ \E a \in Peers : \E z :
                         /\ z.sid = assigned_shard_id(q) /\ z.sid \in Sids
                         /\ Deliveries(q, v)' \subseteq Deliveries(q, v) \cup {z}
                         /\ recognized'[q][a] = recognized[q][a] + 1
                         /\ IsStorageRequest(NextEntry(q, a).tx, v)
  BY DEF DeliveryStep
<1>1. CASE q # p \/ v # w
  BY <1>1
<1>2. CASE q = p /\ v = w
  BY <1>2
<1> QED
  BY <1>1, <1>2

(* A request for a shard to store is answered. *)
LEMMA AnswerDelivery ==
  ASSUME TypeOK, NEW r \in requests, r.kind = "serve", NEW shard, Respond(r, shard), UNCHANGED log
  PROVE  DeliveryStep
<1> DEFINE new == [kind |-> r.kind, to |-> r.from, vid |-> r.vid, sid |-> r.sid,
                   id |-> r.id, shard |-> shard]
<1> DEFINE x == [at |-> "request", of |-> r, sid |-> r.sid]
<1> DEFINE y == [at |-> "response", of |-> new, sid |-> r.sid]
<1>1. r.from \in Peers /\ r.vid \in Vids
  BY DEF TypeOK, Requests
<1>2. requests' = requests \ {r} /\ responses' = responses \cup {new}
  BY DEF Respond
<1>3. new.to = r.from /\ new.vid = r.vid /\ new.sid = r.sid
  OBVIOUS
<1> HIDE DEF new
<1>4. \A q, v : Announcements(q, v)' = Announcements(q, v)
  BY DEF Announcements
<1>5. \A q, v : Pulls(q, v)' \subseteq Pulls(q, v) /\ r \notin Pulls(q, v)'
  BY <1>2 DEF Pulls
<1>6. \A q, v : \A m \in Served(q, v)' : m \in Served(q, v) \/ (m = new /\ q = r.from /\ v = r.vid)
  BY <1>2, <1>3 DEF Served
<1>7. ASSUME NEW q \in Peers, NEW v \in Vids, NEW t \in Deliveries(q, v)'
      PROVE  \/ t \in Deliveries(q, v) /\ t # x
             \/ t = y /\ q = r.from /\ v = r.vid
  <2>1. CASE \E m \in Pulls(q, v)' : t = [at |-> "request", of |-> m, sid |-> m.sid]
    <3>1. PICK m \in Pulls(q, v) : m # r /\ t = [at |-> "request", of |-> m, sid |-> m.sid]
      BY <1>5, <2>1
    <3>2. t.of = m /\ x.of = r
      BY <3>1
    <3> QED
      BY <3>1, <3>2 DEF Deliveries
  <2>2. CASE \E m \in Served(q, v)' : t = [at |-> "response", of |-> m, sid |-> m.sid]
    <3>1. PICK m \in Served(q, v)' : t = [at |-> "response", of |-> m, sid |-> m.sid]
      BY <2>2
    <3>2. t.at = "response" /\ x.at = "request"
      BY <3>1
    <3>3. CASE m = new /\ q = r.from /\ v = r.vid
      BY <1>3, <3>1, <3>3
    <3>4. CASE m \in Served(q, v)
      BY <3>1, <3>2, <3>4 DEF Deliveries
    <3> QED
      BY <1>6, <3>3, <3>4
  <2>3. CASE \E n \in Announcements(q, v)' :
               t = [at |-> "log", of |-> n, sid |-> log'[q][n].tx.sid]
    <3>1. PICK n \in Announcements(q, v) : t = [at |-> "log", of |-> n, sid |-> log[q][n].tx.sid]
      BY <1>4, <2>3
    <3>2. t.at = "log" /\ x.at = "request"
      BY <3>1
    <3> QED
      BY <3>1, <3>2 DEF Deliveries
  <2> QED
    BY <2>1, <2>2, <2>3, DeliveriesNext
<1>8. x \in Deliveries(r.from, r.vid)
  BY DEF Deliveries, Pulls
<1>9. y.sid = x.sid
  OBVIOUS
<1> HIDE DEF x, y
<1>10. Deliveries(r.from, r.vid)' \subseteq (Deliveries(r.from, r.vid) \ {x}) \cup {y}
  BY <1>1, <1>7
<1>11. \A q \in Peers, v \in Vids : q # r.from \/ v # r.vid =>
         Deliveries(q, v)' \subseteq Deliveries(q, v)
  BY <1>7
<1> QED
  BY <1>1, <1>8, <1>9, <1>10, <1>11, OneDelivery

(* A served shard is stored and announced. *)
LEMMA StoreDelivery ==
  ASSUME TypeOK, NEW r \in responses, r.kind = "serve", responses' = responses \ {r},
         UNCHANGED requests,
         ScheduleTx(r.to, [type |-> "Stored", vid |-> r.vid, sid |-> r.sid])
  PROVE  DeliveryStep
<1> DEFINE tx == [type |-> "Stored", vid |-> r.vid, sid |-> r.sid]
<1> DEFINE x == [at |-> "response", of |-> r, sid |-> r.sid]
<1>1. r.to \in Peers /\ r.vid \in Vids
  BY DEF TypeOK, Responses
<1>2. ScheduleTx(r.to, tx) /\ tx.vid = r.vid /\ tx.sid = r.sid
  OBVIOUS
<1> HIDE DEF tx
<1>3. PICK k : k = Len(log[r.to]) + 1
  OBVIOUS
<1> DEFINE y == [at |-> "log", of |-> k, sid |-> r.sid]
<1>4. \A q \in Peers, v \in Vids : \A n \in Announcements(q, v)' :
        \/ n \in Announcements(q, v) /\ log'[q][n] = log[q][n]
        \/ q = r.to /\ n = k /\ v = r.vid /\ log'[q][n].tx.sid = r.sid
  BY <1>1, <1>2, <1>3, AnnouncementStep
<1>5. \A q, v : Pulls(q, v)' = Pulls(q, v)
  BY DEF Pulls
<1>6. \A q, v : Served(q, v)' \subseteq Served(q, v) /\ r \notin Served(q, v)'
  BY DEF Served
<1>7. ASSUME NEW q \in Peers, NEW v \in Vids, NEW t \in Deliveries(q, v)'
      PROVE  \/ t \in Deliveries(q, v) /\ t # x
             \/ t = y /\ q = r.to /\ v = r.vid
  <2>1. CASE \E m \in Pulls(q, v)' : t = [at |-> "request", of |-> m, sid |-> m.sid]
    <3>1. PICK m \in Pulls(q, v) : t = [at |-> "request", of |-> m, sid |-> m.sid]
      BY <1>5, <2>1
    <3>2. t.at = "request" /\ x.at = "response"
      BY <3>1
    <3> QED
      BY <3>1, <3>2 DEF Deliveries
  <2>2. CASE \E m \in Served(q, v)' : t = [at |-> "response", of |-> m, sid |-> m.sid]
    <3>1. PICK m \in Served(q, v) : m # r /\ t = [at |-> "response", of |-> m, sid |-> m.sid]
      BY <1>6, <2>2
    <3>2. t.of = m /\ x.of = r
      BY <3>1
    <3> QED
      BY <3>1, <3>2 DEF Deliveries
  <2>3. CASE \E n \in Announcements(q, v)' :
               t = [at |-> "log", of |-> n, sid |-> log'[q][n].tx.sid]
    <3>1. PICK n \in Announcements(q, v)' : t = [at |-> "log", of |-> n, sid |-> log'[q][n].tx.sid]
      BY <2>3
    <3>2. t.at = "log" /\ x.at = "response"
      BY <3>1
    <3>3. CASE n \in Announcements(q, v) /\ log'[q][n] = log[q][n]
      BY <3>1, <3>2, <3>3 DEF Deliveries
    <3>4. CASE q = r.to /\ n = k /\ v = r.vid /\ log'[q][n].tx.sid = r.sid
      BY <3>1, <3>4
    <3> QED
      BY <1>4, <3>3, <3>4
  <2> QED
    BY <2>1, <2>2, <2>3, DeliveriesNext
<1>8. x \in Deliveries(r.to, r.vid)
  BY DEF Deliveries, Served
<1>9. y.sid = x.sid
  OBVIOUS
<1> HIDE DEF x, y
<1>10. Deliveries(r.to, r.vid)' \subseteq (Deliveries(r.to, r.vid) \ {x}) \cup {y}
  BY <1>1, <1>7
<1>11. \A q \in Peers, v \in Vids : q # r.to \/ v # r.vid =>
         Deliveries(q, v)' \subseteq Deliveries(q, v)
  BY <1>7
<1> QED
  BY <1>1, <1>8, <1>9, <1>10, <1>11, OneDelivery

(* A recognized StorageRequest: the author stores its own shard, the       *)
(* others ask for theirs.                                                  *)
LEMMA StartDelivery ==
  ASSUME TypeOK, NEW p \in Peers, NEW a \in Peers, NEW w \in Vids, NEW s \in Sids,
         s = assigned_shard_id(p), recognized'[p][a] = recognized[p][a] + 1,
         IsStorageRequest(NextEntry(p, a).tx, w), UNCHANGED responses,
         \/ /\ UNCHANGED requests
            /\ ScheduleTx(p, [type |-> "Stored", vid |-> w, sid |-> s])
         \/ /\ MakeRequests(p, "serve", w, {[to |-> a, sid |-> s]})
            /\ UNCHANGED log
  PROVE  DeliveryStep
<1>1. \A q, v : Served(q, v)' = Served(q, v)
  BY DEF Served
<1>2. CASE /\ UNCHANGED requests
           /\ ScheduleTx(p, [type |-> "Stored", vid |-> w, sid |-> s])
  <2> DEFINE tx == [type |-> "Stored", vid |-> w, sid |-> s]
  <2>1. ScheduleTx(p, tx) /\ tx.vid = w /\ tx.sid = s
    BY <1>2
  <2> HIDE DEF tx
  <2>2. PICK k : k = Len(log[p]) + 1
    OBVIOUS
  <2> DEFINE y == [at |-> "log", of |-> k, sid |-> s]
  <2>3. \A q \in Peers, v \in Vids : \A n \in Announcements(q, v)' :
          \/ n \in Announcements(q, v) /\ log'[q][n] = log[q][n]
          \/ q = p /\ n = k /\ v = w /\ log'[q][n].tx.sid = s
    BY <2>1, <2>2, AnnouncementStep
  <2>4. \A q, v : Pulls(q, v)' = Pulls(q, v)
    BY <1>2 DEF Pulls
  <2>5. ASSUME NEW q \in Peers, NEW v \in Vids, NEW t \in Deliveries(q, v)'
        PROVE  t \in Deliveries(q, v) \/ (t = y /\ q = p /\ v = w)
    <3>1. CASE \E m \in Pulls(q, v)' : t = [at |-> "request", of |-> m, sid |-> m.sid]
      BY <2>4, <3>1 DEF Deliveries
    <3>2. CASE \E m \in Served(q, v)' : t = [at |-> "response", of |-> m, sid |-> m.sid]
      BY <1>1, <3>2 DEF Deliveries
    <3>3. CASE \E n \in Announcements(q, v)' :
                 t = [at |-> "log", of |-> n, sid |-> log'[q][n].tx.sid]
      <4>1. PICK n \in Announcements(q, v)' : t = [at |-> "log", of |-> n, sid |-> log'[q][n].tx.sid]
        BY <3>3
      <4>2. CASE n \in Announcements(q, v) /\ log'[q][n] = log[q][n]
        BY <4>1, <4>2 DEF Deliveries
      <4>3. CASE q = p /\ n = k /\ v = w /\ log'[q][n].tx.sid = s
        BY <4>1, <4>3
      <4> QED
        BY <2>3, <4>2, <4>3
    <3> QED
      BY <3>1, <3>2, <3>3, DeliveriesNext
  <2>6. y.sid = s
    OBVIOUS
  <2> HIDE DEF y
  <2>7. Deliveries(p, w)' \subseteq Deliveries(p, w) \cup {y}
    BY <2>5
  <2>8. \A q \in Peers, v \in Vids : q # p \/ v # w => Deliveries(q, v)' \subseteq Deliveries(q, v)
    BY <2>5
  <2> QED
    BY <2>6, <2>7, <2>8, OneDelivery
<1>3. CASE /\ MakeRequests(p, "serve", w, {[to |-> a, sid |-> s]})
           /\ UNCHANGED log
  <2> DEFINE new == [kind |-> "serve", from |-> p, to |-> a, vid |-> w, sid |-> s,
                     id |-> request_id[p] + 1]
  <2> DEFINE y == [at |-> "request", of |-> new, sid |-> s]
  <2>1. requests' = requests \cup {new}
    BY <1>3 DEF MakeRequests
  <2>2. new.from = p /\ new.vid = w /\ new.sid = s
    OBVIOUS
  <2> HIDE DEF new
  <2>3. \A q, v : Announcements(q, v)' = Announcements(q, v)
    BY <1>3 DEF Announcements
  <2>4. \A q, v : \A m \in Pulls(q, v)' : m \in Pulls(q, v) \/ (m = new /\ q = p /\ v = w)
    BY <2>1, <2>2 DEF Pulls
  <2>5. ASSUME NEW q \in Peers, NEW v \in Vids, NEW t \in Deliveries(q, v)'
        PROVE  t \in Deliveries(q, v) \/ (t = y /\ q = p /\ v = w)
    <3>1. CASE \E m \in Pulls(q, v)' : t = [at |-> "request", of |-> m, sid |-> m.sid]
      <4>1. PICK m \in Pulls(q, v)' : t = [at |-> "request", of |-> m, sid |-> m.sid]
        BY <3>1
      <4>2. CASE m \in Pulls(q, v)
        BY <4>1, <4>2 DEF Deliveries
      <4>3. CASE m = new /\ q = p /\ v = w
        BY <2>2, <4>1, <4>3
      <4> QED
        BY <2>4, <4>2, <4>3
    <3>2. CASE \E m \in Served(q, v)' : t = [at |-> "response", of |-> m, sid |-> m.sid]
      BY <1>1, <3>2 DEF Deliveries
    <3>3. CASE \E n \in Announcements(q, v)' :
                 t = [at |-> "log", of |-> n, sid |-> log'[q][n].tx.sid]
      BY <1>3, <2>3, <3>3 DEF Deliveries
    <3> QED
      BY <3>1, <3>2, <3>3, DeliveriesNext
  <2>6. y.sid = s
    OBVIOUS
  <2> HIDE DEF y
  <2>7. Deliveries(p, w)' \subseteq Deliveries(p, w) \cup {y}
    BY <2>5
  <2>8. \A q \in Peers, v \in Vids : q # p \/ v # w => Deliveries(q, v)' \subseteq Deliveries(q, v)
    BY <2>5
  <2> QED
    BY <2>6, <2>7, <2>8, OneDelivery
<1> QED
  BY <1>2, <1>3

(* Every step has this shape; one step per action. *)
LEMMA DeliveryShape ==
  ASSUME TypeOK, [Next]_vars PROVE DeliveryStep
<1> USE DEF memory, network, users
<1>1. ASSUME NEW p \in Commanders, InitializeStorage(p) PROVE DeliveryStep
  <2>1. PICK d \in Enumerations : ScheduleTx(p, [type |-> "InitializeStorage", distribution |-> d])
    BY <1>1 DEF InitializeStorage
  <2> DEFINE tx == [type |-> "InitializeStorage", distribution |-> d]
  <2>2. tx \in Transactions /\ tx.type # "Stored" /\ ScheduleTx(p, tx) /\ p \in Peers
    BY <2>1, CommandAssumption DEF Transactions
  <2> HIDE DEF tx
  <2> QED
    BY <1>1, <2>2, QuietDelivery DEF InitializeStorage
<1>2. ASSUME NEW p \in Commanders, NEW v \in PutVids, NEW d \in Values, Put(p, v, d)
      PROVE  DeliveryStep
  <2> DEFINE tx == [type |-> "StorageRequest", vid |-> v]
  <2>1. tx \in Transactions /\ tx.type # "Stored" /\ ScheduleTx(p, tx) /\ p \in Peers
    BY <1>2, CommandAssumption DEF Put, Transactions
  <2> HIDE DEF tx
  <2> QED
    BY <1>2, <2>1, QuietDelivery DEF Put
<1>3. ASSUME NEW p \in Peers, NEW prog \in Programs, RunProgram(p, prog) PROVE DeliveryStep
  <2> DEFINE tx == [type |-> "Executed", vid |-> prog.result]
  <2>1. ScheduleTx(p, tx) /\ tx.type # "Stored" /\ tx \in Transactions
    BY <1>3, CommandAssumption DEF RunProgram, Transactions
  <2> HIDE DEF tx
  <2> QED
    BY <1>3, <2>1, QuietDelivery DEF RunProgram
<1>4. ASSUME NEW p \in Peers, NEW v \in Vids, Get(p, v) PROVE DeliveryStep
  <2>1. /\ UNCHANGED <<log, responses>>
        /\ \A r \in requests' : r \in requests \/ r.kind # "serve"
    BY <1>4 DEF Get, MakeRequests
  <2> QED
    BY <2>1, QuietDelivery
<1>5. ASSUME UNCHANGED <<log, requests, responses>> PROVE DeliveryStep
  BY <1>5, QuietDelivery
<1>6. ASSUME NEW p \in Peers, NEW a \in Peers,
             \/ RecognizeInitializeStorage(p, a) \/ RecognizeStored(p, a)
             \/ RecognizeExecuted(p, a)
      PROVE  DeliveryStep
  BY <1>5, <1>6 DEF RecognizeInitializeStorage, RecognizeStored, RecognizeExecuted
<1>7. ASSUME NEW p \in Peers, BusWrite(p) \/ Crash(p) PROVE DeliveryStep
  BY <1>5, <1>7 DEF BusWrite, Crash
<1>8. ASSUME NEW p \in Peers, NEW a \in Peers, RecognizeStorageRequest(p, a) PROVE DeliveryStep
  <2>0. PICK w, s : w = RecognizedTx(p, a).vid /\ s = assigned_shard_id(p)
    OBVIOUS
  <2>1. RecognizeTx(p, a, "StorageRequest")
    BY <1>8 DEF RecognizeStorageRequest
  <2>2. w \in Vids /\ s \in Sids \cup {NoSid}
    <3>1. w \in Vids
      BY <2>0, <2>1, RecognizedType, TransactionTypes
    <3> QED
      BY <2>0, <3>1 DEF assigned_shard_id, TypeOK
  <2>3. recognized'[p][a] = recognized[p][a] + 1
    BY <2>1, RecognizeShape
  <2>4. IsStorageRequest(NextEntry(p, a).tx, w)
    BY <2>0, <2>1 DEF IsStorageRequest, NextEntry, RecognizeTx, RecognizedTx
  <2>5. \/ UNCHANGED <<log, requests, responses>>
        \/ /\ s # NoSid /\ UNCHANGED <<requests, responses>>
           /\ handle_serve_shard_response(p, w, s, serve_shard(p, w, s))
        \/ /\ s # NoSid /\ UNCHANGED <<log, responses>>
           /\ MakeRequests(p, "serve", w, {[to |-> a, sid |-> s]})
    BY <1>8, <2>0 DEF RecognizeStorageRequest, MakeRequests
  <2>6. \/ UNCHANGED <<log, requests, responses>>
        \/ /\ s # NoSid /\ UNCHANGED <<requests, responses>>
           /\ ScheduleTx(p, [type |-> "Stored", vid |-> w, sid |-> s])
        \/ /\ s # NoSid /\ UNCHANGED <<log, responses>>
           /\ MakeRequests(p, "serve", w, {[to |-> a, sid |-> s]})
    BY <2>5 DEF handle_serve_shard_response
  <2>7. CASE UNCHANGED <<log, requests, responses>>
    BY <1>5, <2>7
  <2>8. CASE /\ s # NoSid /\ UNCHANGED <<requests, responses>>
             /\ ScheduleTx(p, [type |-> "Stored", vid |-> w, sid |-> s])
    BY <2>0, <2>2, <2>3, <2>4, <2>8, StartDelivery
  <2>9. CASE /\ s # NoSid /\ UNCHANGED <<log, responses>>
             /\ MakeRequests(p, "serve", w, {[to |-> a, sid |-> s]})
    BY <2>0, <2>2, <2>3, <2>4, <2>9, StartDelivery
  <2> QED
    BY <2>6, <2>7, <2>8, <2>9
<1>9. ASSUME NEW r \in requests, HandleRequest(r) PROVE DeliveryStep
  <2>1. /\ UNCHANGED log
        /\ \/ requests' = requests \ {r} /\ UNCHANGED responses
           \/ Respond(r, IF r.kind = "serve" THEN serve_shard(r.to, r.vid, r.sid)
                                             ELSE get_shard(r.to, r.vid, r.sid))
    BY <1>9 DEF HandleRequest
  <2>2. PICK shard : shard = IF r.kind = "serve" THEN serve_shard(r.to, r.vid, r.sid)
                                                ELSE get_shard(r.to, r.vid, r.sid)
    OBVIOUS
  <2>3. CASE requests' = requests \ {r} /\ UNCHANGED responses
    BY <2>1, <2>3, QuietDelivery
  <2>4. CASE Respond(r, shard) /\ r.kind = "serve"
    BY <2>1, <2>4, AnswerDelivery
  <2>5. CASE Respond(r, shard) /\ r.kind # "serve"
    <3>1. /\ \A x \in requests' : x \in requests
          /\ \A x \in responses' : x \in responses \/ x.kind # "serve"
      BY <2>5 DEF Respond
    <3> QED
      BY <2>1, <3>1, QuietDelivery
  <2> QED
    BY <2>1, <2>2, <2>3, <2>4, <2>5
<1>10. ASSUME NEW r \in responses, HandleServeShardResponse(r) PROVE DeliveryStep
  <2>1. /\ r.kind = "serve" /\ responses' = responses \ {r} /\ UNCHANGED requests
        /\ handle_serve_shard_response(r.to, r.vid, r.sid, r.shard)
    BY <1>10 DEF HandleServeShardResponse
  <2>2. CASE UNCHANGED log
    BY <2>1, <2>2, QuietDelivery
  <2>3. CASE ScheduleTx(r.to, [type |-> "Stored", vid |-> r.vid, sid |-> r.sid])
    BY <2>1, <2>3, StoreDelivery
  <2> QED
    BY <2>1, <2>2, <2>3 DEF handle_serve_shard_response
<1>11. ASSUME NEW r \in responses, HandleAssignedResponse(r) PROVE DeliveryStep
  BY <1>11, QuietDelivery DEF HandleAssignedResponse
<1>12. CASE LoseMessage
  BY <1>12, QuietDelivery DEF LoseMessage
<1>13. CASE UNCHANGED vars
  BY <1>5, <1>13 DEF vars
<1> QED
  BY <1>1, <1>2, <1>3, <1>4, <1>6, <1>7, <1>8, <1>9, <1>10, <1>11, <1>12, <1>13
  DEF Next, Recognize

(* An assigned shard id stays; only a peer without one gets one. *)
LEMMA AssignedKept ==
  ASSUME NEW c \in Peers, Adoption(c), ModeStep, NEW q \in Peers, NEW s \in Sids,
         assigned_shard_id(q) = s
  PROVE  mode[q] # "uninitialized" /\ distribution'[q] = distribution[q] /\ assigned_shard_id(q)' = s
<1>1. s # NoSid
  BY SentinelAssumption DEF Sids
<1>2. mode[q] # "uninitialized"
  BY <1>1 DEF Adoption, assigned_shard_id
<1> QED
  BY <1>2 DEF ModeStep, assigned_shard_id

(* Every step keeps pulls and announcements as assigned. *)
LEMMA PulledNext ==
  ASSUME NEW c \in Peers, TypeOK, Adoption(c), PulledInv, ModeStep, DeliveryStep
  PROVE  PulledInv'
<1> SUFFICES ASSUME NEW q \in Peers, NEW v \in Vids, NEW t \in Deliveries(q, v)'
             PROVE  t.sid = assigned_shard_id(q)' /\ t.sid \in Sids
  BY DEF PulledInv
<1>1. t.sid = assigned_shard_id(q) /\ t.sid \in Sids
  <2>1. CASE Deliveries(q, v)' \subseteq Deliveries(q, v)
    BY <2>1 DEF PulledInv
  <2>2. CASE \E x \in Deliveries(q, v) : \E y :
               /\ y.sid = x.sid
               /\ Deliveries(q, v)' \subseteq (Deliveries(q, v) \ {x}) \cup {y}
    BY <2>2 DEF PulledInv
  <2>3. CASE \E a \in Peers : \E y :
               /\ y.sid = assigned_shard_id(q) /\ y.sid \in Sids
               /\ Deliveries(q, v)' \subseteq Deliveries(q, v) \cup {y}
    BY <2>3 DEF PulledInv
  <2> QED
    BY <2>1, <2>2, <2>3 DEF DeliveryStep
<1> QED
  BY <1>1, AssignedKept

(* An announcement names the assigned shard id of its author. *)
LEMMA AnnouncedAssigned ==
  ASSUME PulledInv, NEW q \in Peers, NEW v \in Vids, NEW n \in DOMAIN log[q],
         log[q][n].tx.type = "Stored", log[q][n].tx.vid = v
  PROVE  /\ log[q][n].tx.sid = assigned_shard_id(q) /\ log[q][n].tx.sid \in Sids
         /\ [at |-> "log", of |-> n, sid |-> log[q][n].tx.sid] \in Deliveries(q, v)
<1> DEFINE x == [at |-> "log", of |-> n, sid |-> log[q][n].tx.sid]
<1>1. x \in Deliveries(q, v)
  BY DEF Deliveries, Announcements
<1>2. x.sid = log[q][n].tx.sid
  OBVIOUS
<1> HIDE DEF x
<1>3. log[q][n].tx.sid = assigned_shard_id(q) /\ log[q][n].tx.sid \in Sids
  BY <1>1, <1>2 DEF PulledInv
<1> QED
  BY <1>1, <1>3 DEF x

(* A peer with an assigned shard id has the distribution of `c`. *)
LEMMA AssignedAdopted ==
  ASSUME NEW c \in Peers, Adoption(c), NEW q \in Peers, NEW s \in Sids, assigned_shard_id(q) = s
  PROVE  HasAdopted(c, q)
<1>1. s # NoSid
  BY SentinelAssumption DEF Sids
<1>2. distribution[q] # [x \in Peers |-> NoSid]
  BY <1>1 DEF assigned_shard_id
<1> QED
  BY <1>2 DEF Adoption

(* A location once known stays in agreement with the distribution. *)
LEMMA LocationsKept ==
  ASSUME LocatedInv, ModeStep, NEW p \in Peers, NEW v \in Vids, NEW s \in Sids,
         data_known_locations[p][v][s] # NoPeer
  PROVE  /\ mode'[p] # "uninitialized"
         /\ distribution'[p][data_known_locations[p][v][s]] = s
<1>1. mode[p] # "uninitialized" /\ distribution[p][data_known_locations[p][v][s]] = s
  BY DEF LocatedInv
<1> QED
  BY <1>1 DEF ModeStep

(* Every step keeps the known locations in agreement with the distribution. *)
LEMMA LocatedNext ==
  ASSUME NEW c \in Peers, TypeOK, AgreementInv(c), PulledInv, LocatedInv, [Next]_vars
  PROVE  LocatedInv'
<1> USE DEF memory, network, users
<1>0. LogStep /\ PositionStep /\ ModeStep
  BY StepShape
<1>1. ASSUME UNCHANGED data_known_locations PROVE LocatedInv'
  BY <1>0, <1>1, LocationsKept DEF LocatedInv
<1>2. ASSUME NEW p \in Peers, NEW v \in Vids, NEW s \in Sids, NEW a \in Peers,
             UNCHANGED <<mode, distribution>>,
             mode[p] # "uninitialized", distribution[p][a] = s,
             data_known_locations' = [data_known_locations EXCEPT ![p][v][s] = a]
      PROVE  LocatedInv'
  <2>1. data_known_locations \in [Peers -> [Vids -> [Sids -> Peers \cup {NoPeer}]]]
    BY DEF TypeOK
  <2>2. \A q \in Peers, w \in Vids, u \in Sids : data_known_locations'[q][w][u] =
          IF q = p /\ w = v /\ u = s THEN a ELSE data_known_locations[q][w][u]
    BY <1>2, <2>1
  <2> QED
    BY <1>2, <2>2 DEF LocatedInv
<1>3. ASSUME NEW p \in Peers, NEW a \in Peers, RecognizeStored(p, a) PROVE LocatedInv'
  <2>0. PICK v, s : v = RecognizedTx(p, a).vid /\ s = RecognizedTx(p, a).sid
    OBVIOUS
  <2>1. RecognizeTx(p, a, "Stored") /\ UNCHANGED <<mode, distribution>>
    BY <1>3 DEF RecognizeStored
  <2>2. /\ v \in Vids /\ s \in Sids /\ recognized[p][a] + 1 \in DOMAIN log[a]
        /\ log[a][recognized[p][a] + 1].tx.type = "Stored"
    BY <2>0, <2>1, RecognizedType, TransactionTypes DEF RecognizedTx
  <2>3. \/ UNCHANGED data_known_locations
        \/ /\ mode[p] = "initialized"
           /\ data_known_locations' = [data_known_locations EXCEPT ![p][v][s] = a]
    BY <1>3, <2>0 DEF RecognizeStored, observe_new_location
  <2>4. assigned_shard_id(a) = s
    BY <2>0, <2>2, AnnouncedAssigned DEF RecognizedTx
  <2>5. CASE UNCHANGED data_known_locations
    BY <1>1, <2>5
  <2>6. CASE /\ mode[p] = "initialized"
             /\ data_known_locations' = [data_known_locations EXCEPT ![p][v][s] = a]
    <3>1. HasAdopted(c, a)
      BY <2>2, <2>4, AssignedAdopted DEF AgreementInv
    <3>2. HasAdopted(c, p)
      BY <2>6 DEF AgreementInv, Adoption
    <3>3. distribution[p] = distribution[a]
      BY <3>1, <3>2, SameAdopted
    <3>4. distribution[p][a] = s
      BY <2>4, <3>3 DEF assigned_shard_id
    <3> QED
      BY <1>2, <2>1, <2>2, <2>6, <3>4
  <2> QED
    BY <2>3, <2>5, <2>6
<1>4. ASSUME NEW p \in Peers, NEW a \in Peers, RecognizeExecuted(p, a) PROVE LocatedInv'
  <2>0. PICK v, s : v = RecognizedTx(p, a).vid /\ s = distribution[p][a]
    OBVIOUS
  <2>1. v \in Vids
    BY <1>4, <2>0, RecognizedType, TransactionTypes DEF RecognizeExecuted
  <2>2. s \in Sids \cup {NoSid}
    BY <2>0 DEF TypeOK
  <2>3. \/ UNCHANGED data_known_locations
        \/ /\ mode[p] # "uninitialized" /\ s # NoSid /\ UNCHANGED <<mode, distribution>>
           /\ data_known_locations' = [data_known_locations EXCEPT ![p][v][s] = a]
    BY <1>4, <2>0 DEF RecognizeExecuted
  <2> QED
    BY <1>1, <1>2, <2>0, <2>1, <2>2, <2>3
<1>5. ASSUME NEW p \in Peers,
             \/ InitializeStorage(p) \/ BusWrite(p) \/ Crash(p)
             \/ \E v \in Vids, d \in Values : Put(p, v, d)
             \/ \E v \in Vids : Get(p, v)
             \/ \E a \in Peers : RecognizeInitializeStorage(p, a) \/ RecognizeStorageRequest(p, a)
             \/ \E prog \in Programs : RunProgram(p, prog)
      PROVE  LocatedInv'
  BY <1>5, <1>1 DEF InitializeStorage, BusWrite, Crash, Put, Get, RecognizeInitializeStorage,
                    RecognizeStorageRequest, RunProgram
<1>6. ASSUME \/ \E r \in requests : HandleRequest(r)
             \/ \E r \in responses : HandleServeShardResponse(r) \/ HandleAssignedResponse(r)
             \/ LoseMessage
             \/ UNCHANGED vars
      PROVE  LocatedInv'
  BY <1>6, <1>1 DEF HandleRequest, HandleServeShardResponse, HandleAssignedResponse,
                    LoseMessage, vars
<1> QED
  BY <1>3, <1>4, <1>5, <1>6, CommandAssumption DEF Next, Recognize

(* The two invariants hold in every reachable state. *)
LEMMA LocatedSafe ==
  ASSUME NEW c \in Peers, Commanders = {c}
  PROVE  Spec => [](TypeOK /\ AgreementInv(c) /\ PulledInv /\ LocatedInv)
<1>1. Init => PulledInv /\ LocatedInv
  <2> SUFFICES ASSUME Init PROVE PulledInv /\ LocatedInv
    OBVIOUS
  <2>1. \A q \in Peers, v \in Vids : Pulls(q, v) = {} /\ Served(q, v) = {} /\ Announcements(q, v) = {}
    BY DEF Init, Pulls, Served, Announcements
  <2>2. \A q \in Peers, v \in Vids : Deliveries(q, v) = {}
    BY <2>1 DEF Deliveries
  <2> QED
    BY <2>2 DEF Init, PulledInv, LocatedInv
<1>2. TypeOK /\ AgreementInv(c) /\ PulledInv /\ LocatedInv /\ [Next]_vars
        => PulledInv' /\ LocatedInv'
  <2> SUFFICES ASSUME TypeOK, AgreementInv(c), PulledInv, LocatedInv, [Next]_vars
               PROVE  PulledInv' /\ LocatedInv'
    OBVIOUS
  <2>1. ModeStep /\ DeliveryStep /\ Adoption(c)
    BY StepShape, DeliveryShape DEF AgreementInv
  <2>2. PulledInv'
    BY <2>1, PulledNext
  <2>3. LocatedInv'
    BY LocatedNext
  <2> QED
    BY <2>2, <2>3
<1> QED
  BY <1>1, <1>2, AgreementSafe, PTL DEF Spec

(* With one commander every location a peer tracks, of a stored shard or   *)
(* of a computed one, is the peer its own distribution assigns the shard   *)
(* to; programs, repeated puts, losses and crashes included.               *)
THEOREM LocationsAssigned ==
  ASSUME NEW c \in Peers, Commanders = {c}
  PROVE  Spec => []KnownLocationIsAssigned
<1>1. LocatedInv => KnownLocationIsAssigned
  BY DEF LocatedInv, KnownLocationIsAssigned
<1> QED
  BY <1>1, LocatedSafe, PTL

-----------------------------------------------------------------------------
(* One confirmation for one put.                                           *)

(* The code numbers the peers: no two of them get the same shard id. *)
Numbered == \A d \in Enumerations : \A p, q \in Peers : d[p] # NoSid /\ d[p] = d[q] => p = q

OnceInv == RequestedOnce /\ DeliveredOnce /\ LocatedIsAnnounced /\ ToldOnce

(* The entries of all logs after scheduling a transaction. *)
LEMMA EntryStep ==
  ASSUME TypeOK, NEW p \in Peers, NEW tx, ScheduleTx(p, tx)
  PROVE  \A q \in Peers : \A n \in DOMAIN log'[q] :
           \/ n \in DOMAIN log[q] /\ log'[q][n] = log[q][n]
           \/ q = p /\ n = Len(log[p]) + 1 /\ log'[q][n].tx = tx
<1> DEFINE e == [tx |-> tx, deps |-> recognized'[p]]
<1>1. log' = [log EXCEPT ![p] = Append(log[p], e)]
  BY DEF ScheduleTx
<1>2. e.tx = tx
  OBVIOUS
<1>3. DOMAIN log = Peers
  BY DEF TypeOK
<1> HIDE DEF e
<1> SUFFICES ASSUME NEW q \in Peers, NEW n \in DOMAIN log'[q]
             PROVE  \/ n \in DOMAIN log[q] /\ log'[q][n] = log[q][n]
                    \/ q = p /\ n = Len(log[p]) + 1 /\ log'[q][n].tx = tx
  OBVIOUS
<1>4. CASE q # p
  <2>1. log'[q] = log[q]
    BY <1>1, <1>3, <1>4
  <2> QED
    BY <2>1
<1>5. CASE q = p
  <2>1. log'[p] = Append(log[p], e)
    BY <1>1, <1>3
  <2>2. /\ DOMAIN log'[p] = 1 .. (Len(log[p]) + 1)
        /\ \A m \in 1 .. Len(log[p]) : log'[p][m] = log[p][m]
        /\ log'[p][Len(log[p]) + 1] = e
    BY <2>1, Appended
  <2>3. Len(log[p]) \in Nat /\ DOMAIN log[p] = 1 .. Len(log[p])
    BY LogType
  <2>4. n \in DOMAIN log[p] \/ n = Len(log[p]) + 1
    BY <1>5, <2>2, <2>3
  <2> QED
    BY <1>2, <1>5, <2>2, <2>3, <2>4
<1> QED
  BY <1>4, <1>5

(* No put, no new request to store. *)
LEMMA RequestsKept ==
  ASSUME TypeOK, RequestedOnce,
         \A v \in Vids : spent'.puts[v] = spent.puts[v],
         \/ UNCHANGED log
         \/ \E p \in Peers, tx \in Transactions : ScheduleTx(p, tx) /\ tx.type # "StorageRequest"
  PROVE  RequestedOnce'
<1>1. \A q \in Peers : \A n \in DOMAIN log'[q] :
        \/ n \in DOMAIN log[q] /\ log'[q][n] = log[q][n]
        \/ log'[q][n].tx.type # "StorageRequest"
  <2>1. CASE UNCHANGED log
    BY <2>1
  <2>2. CASE \E p \in Peers, tx \in Transactions : ScheduleTx(p, tx) /\ tx.type # "StorageRequest"
    BY <2>2, EntryStep
  <2> QED
    BY <2>1, <2>2
<1>2. \A q \in Peers : \A n \in DOMAIN log'[q] : \A v \in Vids :
        IsStorageRequest(log'[q][n].tx, v) =>
          n \in DOMAIN log[q] /\ IsStorageRequest(log[q][n].tx, v)
  BY <1>1 DEF IsStorageRequest
<1>3. \A v \in Vids, a \in Peers : \A n \in DOMAIN log'[a] :
        IsStorageRequest(log'[a][n].tx, v) => spent'.puts[v] # 0
  BY <1>2 DEF RequestedOnce
<1>4. \A v \in Vids, a, b \in Peers : \A n \in DOMAIN log'[a], m \in DOMAIN log'[b] :
        IsStorageRequest(log'[a][n].tx, v) /\ IsStorageRequest(log'[b][m].tx, v) => a = b /\ n = m
  BY <1>2 DEF RequestedOnce
<1> QED
  BY <1>3, <1>4 DEF RequestedOnce, IsStorageRequest

(* Every action keeps one request per address; one step per action. *)
LEMMA RequestedNext ==
  ASSUME MaxPuts <= 1, TypeOK, RequestedOnce, [Next]_vars
  PROVE  RequestedOnce'
<1> USE DEF memory, network, users
<1>0. spent \in Budgets
  BY DEF TypeOK
<1>1. ASSUME NEW p \in Commanders, InitializeStorage(p) PROVE RequestedOnce'
  <2>1. PICK d \in Enumerations : ScheduleTx(p, [type |-> "InitializeStorage", distribution |-> d])
    BY <1>1 DEF InitializeStorage
  <2> DEFINE tx == [type |-> "InitializeStorage", distribution |-> d]
  <2>2. tx \in Transactions /\ tx.type # "StorageRequest" /\ ScheduleTx(p, tx) /\ p \in Peers
    BY <2>1, CommandAssumption DEF Transactions
  <2> HIDE DEF tx
  <2>3. spent'.puts = spent.puts
    BY <1>0, <1>1 DEF InitializeStorage, Budgets
  <2> QED
    BY <2>2, <2>3, RequestsKept
<1>2. ASSUME NEW p \in Commanders, NEW w \in PutVids, NEW d \in Values, Put(p, w, d)
      PROVE  RequestedOnce'
  <2> DEFINE tx == [type |-> "StorageRequest", vid |-> w]
  <2>1. tx.vid = w /\ ScheduleTx(p, tx) /\ p \in Peers /\ w \in Vids
    BY <1>2, CommandAssumption DEF Put
  <2> HIDE DEF tx
  <2>2. /\ spent.puts[w] = 0
        /\ \A v \in Vids : spent'.puts[v] = IF v = w THEN 1 ELSE spent.puts[v]
    <3>1. spent.puts \in [Vids -> Nat]
      BY <1>0 DEF Budgets
    <3>2. spent.puts[w] < MaxPuts /\ spent' = [spent EXCEPT !.puts[w] = @ + 1]
      BY <1>2 DEF Put
    <3>3. spent.puts[w] = 0
      BY <2>1, <3>1, <3>2, BoundAssumption
    <3>4. spent'.puts = [spent.puts EXCEPT ![w] = @ + 1]
      BY <1>0, <3>2 DEF Budgets
    <3> QED
      BY <2>1, <3>1, <3>3, <3>4
  <2>3. \A q \in Peers : \A n \in DOMAIN log'[q] :
          \/ n \in DOMAIN log[q] /\ log'[q][n] = log[q][n]
          \/ q = p /\ n = Len(log[p]) + 1 /\ log'[q][n].tx = tx
    BY <2>1, EntryStep
  <2>4. \A q \in Peers : \A n \in DOMAIN log'[q] : \A v \in Vids :
          IsStorageRequest(log'[q][n].tx, v) =>
            \/ v # w /\ n \in DOMAIN log[q] /\ IsStorageRequest(log[q][n].tx, v)
            \/ v = w /\ q = p /\ n = Len(log[p]) + 1
    <3> SUFFICES ASSUME NEW q \in Peers, NEW n \in DOMAIN log'[q], NEW v \in Vids,
                        IsStorageRequest(log'[q][n].tx, v)
                 PROVE  \/ v # w /\ n \in DOMAIN log[q] /\ IsStorageRequest(log[q][n].tx, v)
                        \/ v = w /\ q = p /\ n = Len(log[p]) + 1
      OBVIOUS
    <3>1. CASE n \in DOMAIN log[q] /\ log'[q][n] = log[q][n]
      BY <2>2, <3>1 DEF RequestedOnce
    <3>2. CASE q = p /\ n = Len(log[p]) + 1 /\ log'[q][n].tx = tx
      BY <2>1, <3>2 DEF IsStorageRequest
    <3> QED
      BY <2>3, <3>1, <3>2
  <2>5. \A v \in Vids, a \in Peers : \A n \in DOMAIN log'[a] :
          IsStorageRequest(log'[a][n].tx, v) => spent'.puts[v] # 0
    BY <2>2, <2>4 DEF RequestedOnce
  <2>6. \A v \in Vids, a, b \in Peers : \A n \in DOMAIN log'[a], m \in DOMAIN log'[b] :
          IsStorageRequest(log'[a][n].tx, v) /\ IsStorageRequest(log'[b][m].tx, v) => a = b /\ n = m
    BY <2>4 DEF RequestedOnce
  <2> QED
    BY <2>5, <2>6 DEF RequestedOnce, IsStorageRequest
<1>3. ASSUME NEW p \in Peers, NEW v \in Vids, NEW s \in Sids, NEW shard,
             handle_serve_shard_response(p, v, s, shard), UNCHANGED spent
      PROVE  RequestedOnce'
  <2>1. CASE UNCHANGED log
    BY <1>3, <2>1, RequestsKept
  <2>2. CASE ScheduleTx(p, [type |-> "Stored", vid |-> v, sid |-> s])
    <3> DEFINE tx == [type |-> "Stored", vid |-> v, sid |-> s]
    <3>1. tx \in Transactions /\ tx.type # "StorageRequest" /\ ScheduleTx(p, tx)
      BY <2>2 DEF Transactions
    <3> HIDE DEF tx
    <3> QED
      BY <1>3, <3>1, RequestsKept
  <2> QED
    BY <1>3, <2>1, <2>2 DEF handle_serve_shard_response
<1>4. ASSUME UNCHANGED log, UNCHANGED spent \/ spent'.puts = spent.puts PROVE RequestedOnce'
  BY <1>4, RequestsKept
<1>5. ASSUME NEW p \in Peers, NEW a \in Peers, RecognizeStorageRequest(p, a) PROVE RequestedOnce'
  <2>0. PICK w, s : w = RecognizedTx(p, a).vid /\ s = assigned_shard_id(p)
    OBVIOUS
  <2>1. w \in Vids /\ s \in Sids \cup {NoSid}
    <3>1. w \in Vids
      BY <1>5, <2>0, RecognizedType, TransactionTypes DEF RecognizeStorageRequest
    <3> QED
      BY <2>0, <3>1 DEF assigned_shard_id, TypeOK
  <2>2. /\ UNCHANGED spent
        /\ \/ UNCHANGED log
           \/ s # NoSid /\ handle_serve_shard_response(p, w, s, serve_shard(p, w, s))
    BY <1>5, <2>0 DEF RecognizeStorageRequest
  <2> QED
    BY <1>3, <1>4, <2>1, <2>2
<1>6. ASSUME NEW r \in responses, HandleServeShardResponse(r) PROVE RequestedOnce'
  <2>1. r.to \in Peers /\ r.vid \in Vids /\ r.sid \in Sids
    BY DEF TypeOK, Responses
  <2>2. handle_serve_shard_response(r.to, r.vid, r.sid, r.shard) /\ UNCHANGED spent
    BY <1>6 DEF HandleServeShardResponse
  <2> QED
    BY <1>3, <2>1, <2>2
<1>7. ASSUME NEW p \in Peers, NEW prog \in Programs, RunProgram(p, prog) PROVE RequestedOnce'
  <2> DEFINE tx == [type |-> "Executed", vid |-> prog.result]
  <2>1. /\ ScheduleTx(p, tx) /\ tx.type # "StorageRequest" /\ tx \in Transactions
        /\ UNCHANGED spent
    BY <1>7, CommandAssumption DEF RunProgram, Transactions
  <2> HIDE DEF tx
  <2> QED
    BY <2>1, RequestsKept
<1>8. ASSUME NEW p \in Peers, NEW v \in Vids, Get(p, v) PROVE RequestedOnce'
  <2>1. UNCHANGED log /\ spent'.puts = spent.puts
    BY <1>0, <1>8 DEF Get, Budgets
  <2> QED
    BY <1>4, <2>1
<1>9. ASSUME LoseMessage \/ \E p \in Peers : Crash(p) PROVE RequestedOnce'
  <2>1. UNCHANGED log /\ spent'.puts = spent.puts
    BY <1>0, <1>9 DEF LoseMessage, Crash, Budgets
  <2> QED
    BY <1>4, <2>1
<1>10. ASSUME NEW p \in Peers,
              \/ BusWrite(p)
              \/ \E a \in Peers : \/ RecognizeInitializeStorage(p, a) \/ RecognizeStored(p, a)
                                  \/ RecognizeExecuted(p, a)
       PROVE  RequestedOnce'
  BY <1>4, <1>10 DEF BusWrite, RecognizeInitializeStorage, RecognizeStored, RecognizeExecuted
<1>11. ASSUME \/ \E r \in requests : HandleRequest(r)
              \/ \E r \in responses : HandleAssignedResponse(r)
              \/ UNCHANGED vars
       PROVE  RequestedOnce'
  BY <1>4, <1>11 DEF HandleRequest, HandleAssignedResponse, vars
<1> QED
  BY <1>1, <1>2, <1>5, <1>6, <1>7, <1>8, <1>9, <1>10, <1>11 DEF Next, Recognize

(* A peer that was asked stays asked. *)
LEMMA AskedKept ==
  ASSUME TypeOK, AncestorsFirst, LogStep, PositionStep, NEW q \in Peers, NEW v,
         AskedToStore(q, v)
  PROVE  AskedToStore(q, v)'
<1>0. PICK a \in Peers : \E n \in 1 .. recognized[q][a] : IsStorageRequest(log[a][n].tx, v)
  BY DEF AskedToStore
<1>1. PICK n \in 1 .. recognized[q][a] : IsStorageRequest(log[a][n].tx, v)
  BY <1>0
<1>2. /\ recognized[q][a] \in Nat /\ recognized'[q][a] \in Nat
      /\ recognized[q][a] <= recognized'[q][a]
  BY PositionsGrow
<1>3. recognized[q][a] <= Len(log[a]) /\ Len(log[a]) \in Nat
  BY LogType DEF AncestorsFirst
<1>4. n \in 1 .. recognized'[q][a] /\ n \in 1 .. Len(log[a])
  BY <1>2, <1>3
<1>5. log'[a][n] = log[a][n]
  BY <1>4, LogGrows
<1> QED
  BY <1>1, <1>4, <1>5 DEF AskedToStore, IsStorageRequest

(* Every step keeps one delivery per peer and address. *)
LEMMA DeliveredNext ==
  ASSUME TypeOK, AncestorsFirst, RequestedOnce, DeliveredOnce,
         LogStep, PositionStep, DeliveryStep
  PROVE  DeliveredOnce'
<1> SUFFICES ASSUME NEW q \in Peers, NEW v \in Vids
             PROVE  /\ Deliveries(q, v)' # {} => AskedToStore(q, v)'
                    /\ \A x, y \in Deliveries(q, v)' : x = y
  BY DEF DeliveredOnce
<1>1. AskedToStore(q, v) => AskedToStore(q, v)'
  BY AskedKept
<1>2. /\ Deliveries(q, v) # {} => AskedToStore(q, v)
      /\ \A x, y \in Deliveries(q, v) : x = y
  BY DEF DeliveredOnce
<1>3. CASE Deliveries(q, v)' \subseteq Deliveries(q, v)
  BY <1>1, <1>2, <1>3
<1>4. CASE \E x \in Deliveries(q, v) : \E y :
             Deliveries(q, v)' \subseteq (Deliveries(q, v) \ {x}) \cup {y}
  BY <1>1, <1>2, <1>4
<1>5. CASE \E a \in Peers : \E y :
             /\ Deliveries(q, v)' \subseteq Deliveries(q, v) \cup {y}
             /\ recognized'[q][a] = recognized[q][a] + 1
             /\ IsStorageRequest(NextEntry(q, a).tx, v)
  <2>2. PICK b \in Peers : /\ \E y : Deliveries(q, v)' \subseteq Deliveries(q, v) \cup {y}
                           /\ recognized'[q][b] = recognized[q][b] + 1
                           /\ IsStorageRequest(NextEntry(q, b).tx, v)
    BY <1>5
  <2>3. /\ recognized[q][b] \in Nat /\ Len(log[b]) \in Nat
        /\ recognized[q][b] < Len(log[b])
    <3>1. recognized[q][b] \in Nat
      BY DEF TypeOK
    <3> QED
      BY <2>2, <3>1, LogType DEF PositionStep
  <2>4. PICK k : k = recognized[q][b] + 1
    OBVIOUS
  <2>5. /\ k \in 1 .. recognized'[q][b] /\ k \in 1 .. Len(log[b]) /\ k \in DOMAIN log[b]
        /\ k \notin 1 .. recognized[q][b]
    BY <2>2, <2>3, <2>4, LogType
  <2>6. IsStorageRequest(log[b][k].tx, v) /\ log'[b][k] = log[b][k]
    BY <2>2, <2>4, <2>5, LogGrows DEF NextEntry
  <2>7. AskedToStore(q, v)'
    BY <2>5, <2>6 DEF AskedToStore, IsStorageRequest
  <2>8. ~AskedToStore(q, v)
    <3> SUFFICES ASSUME NEW d \in Peers, NEW n \in 1 .. recognized[q][d],
                        IsStorageRequest(log[d][n].tx, v)
                 PROVE  FALSE
      BY DEF AskedToStore
    <3>1. n \in DOMAIN log[d]
      <4>1. recognized[q][d] \in Nat /\ recognized[q][d] <= Len(log[d]) /\ Len(log[d]) \in Nat
        BY LogType DEF AncestorsFirst, TypeOK
      <4> QED
        BY <4>1, LogType
    <3>2. d = b /\ n = k
      BY <2>5, <2>6, <3>1 DEF RequestedOnce
    <3> QED
      BY <2>5, <3>2
  <2>9. Deliveries(q, v) = {}
    BY <1>2, <2>8
  <2> QED
    BY <2>2, <2>7, <2>9
<1> QED
  BY <1>3, <1>4, <1>5 DEF DeliveryStep

(* Peer `p` has recognized that `q` stores shard `s` of address `v`. *)
SeenStored(p, q, v, s) == \E n \in 1 .. recognized[p][q] :
  log[q][n].tx.type = "Stored" /\ log[q][n].tx.vid = v /\ log[q][n].tx.sid = s

(* What was recognized stays recognized. *)
LEMMA SeenKept ==
  ASSUME TypeOK, AncestorsFirst, LogStep, PositionStep,
         NEW p \in Peers, NEW q \in Peers, NEW v, NEW s, SeenStored(p, q, v, s)
  PROVE  SeenStored(p, q, v, s)'
<1>1. PICK n \in 1 .. recognized[p][q] :
        log[q][n].tx.type = "Stored" /\ log[q][n].tx.vid = v /\ log[q][n].tx.sid = s
  BY DEF SeenStored
<1>2. /\ recognized[p][q] \in Nat /\ recognized'[p][q] \in Nat
      /\ recognized[p][q] <= recognized'[p][q]
  BY PositionsGrow
<1>3. recognized[p][q] <= Len(log[q]) /\ Len(log[q]) \in Nat
  BY LogType DEF AncestorsFirst
<1>4. n \in 1 .. recognized'[p][q] /\ n \in 1 .. Len(log[q])
  BY <1>2, <1>3
<1>5. log'[q][n] = log[q][n]
  BY <1>4, LogGrows
<1> QED
  BY <1>1, <1>4, <1>5 DEF SeenStored

(* A known location was recognized as such. *)
LEMMA LocatedMeansSeen ==
  LocatedIsAnnounced <=>
    \A p \in Peers, v \in Plain, s \in Sids :
      data_known_locations[p][v][s] # NoPeer =>
        SeenStored(p, data_known_locations[p][v][s], v, s)
BY DEF LocatedIsAnnounced, SeenStored

(* The same after a step. *)
LEMMA LocatedMeansSeenNext ==
  LocatedIsAnnounced' <=>
    \A p \in Peers, v \in Plain, s \in Sids :
      data_known_locations'[p][v][s] # NoPeer =>
        SeenStored(p, data_known_locations[p][v][s], v, s)'
BY DEF LocatedIsAnnounced, SeenStored

(* By name of the peer. *)
LEMMA LocatedSeen ==
  ASSUME LocatedIsAnnounced, NEW p \in Peers, NEW v \in Plain, NEW s \in Sids, NEW q \in Peers,
         q = data_known_locations[p][v][s]
  PROVE  SeenStored(p, q, v, s)
<1>1. q # NoPeer
  BY SentinelAssumption
<1> QED
  BY <1>1, LocatedMeansSeen

(* A shard that a peer recognizes as stored was not located before: every  *)
(* shard is announced once, by the one peer it is assigned to.             *)
LEMMA LocationIsNew ==
  ASSUME NEW c \in Peers, Numbered, TypeOK, AgreementInv(c), PulledInv, OnceInv,
         NEW p \in Peers, NEW a \in Peers, RecognizeTx(p, a, "Stored"),
         NEW v \in Plain, NEW s \in Sids,
         v = RecognizedTx(p, a).vid, s = RecognizedTx(p, a).sid
  PROVE  data_known_locations[p][v][s] = NoPeer
<1> SUFFICES ASSUME data_known_locations[p][v][s] # NoPeer PROVE FALSE
  OBVIOUS
<1>1. PICK q : q = data_known_locations[p][v][s]
  OBVIOUS
<1>2. q \in Peers /\ q # NoPeer
  <2>1. data_known_locations[p][v][s] \in Peers \cup {NoPeer}
    <3>1. data_known_locations \in [Peers -> [Vids -> [Sids -> Peers \cup {NoPeer}]]]
      BY DEF TypeOK
    <3> QED
      BY <3>1, PlainVids
  <2> QED
    BY <1>1, <2>1
<1>3. PICK n \in 1 .. recognized[p][q] :
        log[q][n].tx.type = "Stored" /\ log[q][n].tx.vid = v /\ log[q][n].tx.sid = s
  <2>1. LocatedIsAnnounced
    BY DEF OnceInv
  <2>2. SeenStored(p, q, v, s)
    BY <1>1, <1>2, <2>1, LocatedSeen
  <2> QED
    BY <2>2 DEF SeenStored
<1>4. PICK k : k = recognized[p][a] + 1
  OBVIOUS
<1>5. /\ k \in DOMAIN log[a] /\ log[a][k].tx.type = "Stored"
      /\ log[a][k].tx.vid = v /\ log[a][k].tx.sid = s
  BY <1>4, RecognizedType DEF RecognizedTx
<1>6. n \in DOMAIN log[q]
  <2>1. recognized[p][q] \in Nat /\ recognized[p][q] <= Len(log[q]) /\ Len(log[q]) \in Nat
    BY <1>2, LogType DEF AgreementInv, AncestorsFirst, TypeOK
  <2> QED
    BY <1>2, <2>1, LogType
<1> v \in Vids
  BY PlainVids
<1>7. /\ assigned_shard_id(q) = s /\ [at |-> "log", of |-> n, sid |-> s] \in Deliveries(q, v)
  BY <1>2, <1>3, <1>6, AnnouncedAssigned
<1>8. /\ assigned_shard_id(a) = s /\ [at |-> "log", of |-> k, sid |-> s] \in Deliveries(a, v)
  BY <1>5, AnnouncedAssigned
<1>9. HasAdopted(c, q) /\ HasAdopted(c, a)
  BY <1>2, <1>7, <1>8, AssignedAdopted DEF AgreementInv
<1>10. distribution[q] = distribution[a] /\ distribution[a] \in Enumerations
  <2>1. distribution[q] = distribution[a]
    BY <1>2, <1>9, SameAdopted
  <2>2. PICK m \in 1 .. recognized[a][c] :
          IsValidInit(log[c][m].tx) /\ distribution[a] = log[c][m].tx.distribution
    BY <1>9 DEF HasAdopted
  <2>3. recognized[a][c] \in Nat /\ recognized[a][c] <= Len(log[c]) /\ Len(log[c]) \in Nat
    BY LogType DEF AgreementInv, AncestorsFirst, TypeOK
  <2>4. m \in 1 .. Len(log[c])
    BY <2>3
  <2>5. log[c][m].tx \in Transactions
    BY <2>4, LogType
  <2>6. log[c][m].tx.distribution \in Enumerations
    BY <2>2, <2>5, TransactionTypes DEF IsValidInit
  <2> QED
    BY <2>1, <2>2, <2>6
<1>11. q = a
  <2>1. s # NoSid
    BY SentinelAssumption DEF Sids
  <2> QED
    BY <1>2, <1>7, <1>8, <1>10, <2>1 DEF Numbered, assigned_shard_id
<1>12. [at |-> "log", of |-> n, sid |-> s] = [at |-> "log", of |-> k, sid |-> s]
  BY <1>7, <1>8, <1>11 DEF OnceInv, DeliveredOnce
<1>13. n = k
  BY <1>12
<1>14. recognized[p][a] \in Nat
  BY DEF TypeOK
<1> QED
  BY <1>4, <1>11, <1>13, <1>14

(* Every step keeps the locations announced and the confirmations single. *)
LEMMA ToldNext ==
  ASSUME NEW c \in Peers, Numbered, TypeOK, WriteOnceInv, AgreementInv(c),
         PulledInv, OnceInv, [Next]_vars
  PROVE  LocatedIsAnnounced' /\ ToldOnce'
<1> USE DEF memory, network, users
<1>0. LogStep /\ PositionStep /\ AncestorsFirst
  BY StepShape DEF AgreementInv
<1>1. \A p \in Peers, v \in Plain, s \in Sids : \A q \in Peers :
        q = data_known_locations[p][v][s] => SeenStored(p, q, v, s)'
  <2> SUFFICES ASSUME NEW p \in Peers, NEW v \in Plain, NEW s \in Sids, NEW q \in Peers,
                      q = data_known_locations[p][v][s]
               PROVE  SeenStored(p, q, v, s)'
    OBVIOUS
  <2>1. SeenStored(p, q, v, s)
    BY LocatedSeen DEF OnceInv
  <2> QED
    BY <1>0, <2>1, SeenKept
<1>2. ASSUME \A p \in Peers, v \in Plain, s \in Sids :
               \/ data_known_locations'[p][v][s] = NoPeer
               \/ \E q \in Peers : data_known_locations'[p][v][s] = q /\ SeenStored(p, q, v, s)'
      PROVE  LocatedIsAnnounced'
  <2> SUFFICES ASSUME NEW p \in Peers, NEW v \in Plain, NEW s \in Sids,
                      data_known_locations'[p][v][s] # NoPeer
               PROVE  SeenStored(p, data_known_locations[p][v][s], v, s)'
    BY LocatedMeansSeenNext
  <2>1. PICK q \in Peers : data_known_locations'[p][v][s] = q /\ SeenStored(p, q, v, s)'
    BY <1>2
  <2> QED
    BY <2>1 DEF SeenStored
<1>3. ASSUME UNCHANGED <<data_known_locations, put_confirmed>>
      PROVE  LocatedIsAnnounced' /\ ToldOnce'
  <2>1. \A p \in Peers, v \in Plain, s \in Sids :
          data_known_locations[p][v][s] \in Peers \cup {NoPeer}
    BY PlainVids DEF TypeOK
  <2>2. LocatedIsAnnounced'
    BY <1>1, <1>2, <1>3, <2>1
  <2>3. ToldOnce'
    BY <1>3 DEF OnceInv, ToldOnce
  <2> QED
    BY <2>2, <2>3
<1>4. ASSUME NEW p \in Peers, NEW a \in Peers, RecognizeStored(p, a)
      PROVE  LocatedIsAnnounced' /\ ToldOnce'
  <2>0. PICK v, s : v = RecognizedTx(p, a).vid /\ s = RecognizedTx(p, a).sid
    OBVIOUS
  <2>1. RecognizeTx(p, a, "Stored") /\ UNCHANGED log
    BY <1>4 DEF RecognizeStored
  <2>2. /\ v \in Vids /\ s \in Sids /\ recognized[p][a] + 1 \in DOMAIN log[a]
        /\ log[a][recognized[p][a] + 1].tx.type = "Stored"
    BY <2>0, <2>1, RecognizedType, TransactionTypes DEF RecognizedTx
  <2>v. v \in Plain
    BY <2>0, <2>2 DEF WriteOnceInv, Announced, TrueTx, RecognizedTx
  <2>3. \/ UNCHANGED <<data_known_locations, put_confirmed>>
        \/ /\ data_known_locations' = [data_known_locations EXCEPT ![p][v][s] = a]
           /\ \/ UNCHANGED put_confirmed
              \/ put_confirmed' = [put_confirmed EXCEPT ![p][v] = @ + 1]
    BY <1>4, <2>0 DEF RecognizeStored, observe_new_location
  <2>4. CASE UNCHANGED <<data_known_locations, put_confirmed>>
    BY <1>3, <2>4
  <2>5. CASE /\ data_known_locations' = [data_known_locations EXCEPT ![p][v][s] = a]
             /\ \/ UNCHANGED put_confirmed
                \/ put_confirmed' = [put_confirmed EXCEPT ![p][v] = @ + 1]
    <3>1. /\ data_known_locations \in [Peers -> [Vids -> [Sids -> Peers \cup {NoPeer}]]]
          /\ put_confirmed \in [Peers -> [Vids -> Nat]]
      BY DEF TypeOK
    <3>2. \A q \in Peers, w \in Vids, u \in Sids : data_known_locations'[q][w][u] =
            IF q = p /\ w = v /\ u = s THEN a ELSE data_known_locations[q][w][u]
      BY <2>2, <2>5, <3>1
    <3>3. SeenStored(p, a, v, s)'
      <4>1. PICK k : k = recognized[p][a] + 1
        OBVIOUS
      <4>2. recognized'[p][a] = k /\ k \in 1 .. k
        <5>1. recognized[p][a] \in Nat
          BY DEF TypeOK
        <5>2. recognized'[p][a] = recognized[p][a] + 1
          BY <2>1, RecognizeShape
        <5> QED
          BY <4>1, <5>1, <5>2
      <4>3. log[a][k].tx.type = "Stored" /\ log[a][k].tx.vid = v /\ log[a][k].tx.sid = s
        BY <2>0, <2>2, <4>1 DEF RecognizedTx
      <4> QED
        BY <2>1, <4>2, <4>3 DEF SeenStored
    <3>4. LocatedIsAnnounced'
      <4>1. \A q \in Peers, w \in Plain, u \in Sids :
              data_known_locations[q][w][u] \in Peers \cup {NoPeer}
        BY <3>1, PlainVids
      <4>2. ASSUME NEW q \in Peers, NEW w \in Plain, NEW u \in Sids
            PROVE  \/ data_known_locations'[q][w][u] = NoPeer
                   \/ \E x \in Peers : data_known_locations'[q][w][u] = x /\ SeenStored(q, x, w, u)'
        <5>1. CASE q = p /\ w = v /\ u = s
          BY <3>2, <3>3, <5>1, PlainVids
        <5>2. CASE ~(q = p /\ w = v /\ u = s)
          <6>1. data_known_locations'[q][w][u] = data_known_locations[q][w][u]
            BY <3>2, <5>2, PlainVids
          <6> QED
            BY <1>1, <4>1, <6>1
        <5> QED
          BY <5>1, <5>2
      <4> QED
        BY <1>2, <4>2
    <3>5. put_confirmed[p][v] = 0
      <4>1. data_known_locations[p][v][s] = NoPeer
        BY <2>0, <2>1, <2>2, <2>v, LocationIsNew
      <4>2. ~(put_confirmed[p][v] > 0)
        BY <2>2, <4>1 DEF WriteOnceInv, ConfirmedIsKnown
      <4>3. put_confirmed[p][v] \in Nat
        BY <2>2, <3>1
      <4> QED
        BY <4>2, <4>3
    <3>6. \A q \in Peers, w \in Vids : \/ put_confirmed'[q][w] = put_confirmed[q][w]
                                       \/ put_confirmed'[q][w] = 1
      <4>1. CASE UNCHANGED put_confirmed
        BY <4>1
      <4>2. CASE put_confirmed' = [put_confirmed EXCEPT ![p][v] = @ + 1]
        <5>1. \A q \in Peers, w \in Vids : put_confirmed'[q][w] =
                IF q = p /\ w = v THEN put_confirmed[q][w] + 1 ELSE put_confirmed[q][w]
          BY <2>2, <3>1, <4>2
        <5> QED
          BY <3>5, <5>1
      <4> QED
        BY <2>5, <4>1, <4>2
    <3>7. ToldOnce'
      <4>1. \A q \in Peers, w \in Vids : put_confirmed[q][w] <= 1
        BY DEF OnceInv, ToldOnce
      <4>2. \A q \in Peers, w \in Vids : put_confirmed'[q][w] <= 1
        BY <3>6, <4>1
      <4> QED
        BY <4>2 DEF ToldOnce
    <3> QED
      BY <3>4, <3>7
  <2> QED
    BY <2>3, <2>4, <2>5
<1>5. ASSUME NEW p \in Peers, NEW a \in Peers, RecognizeExecuted(p, a)
      PROVE  LocatedIsAnnounced' /\ ToldOnce'
  <2>0. PICK v, s : v = RecognizedTx(p, a).vid /\ s = distribution[p][a]
    OBVIOUS
  <2>1. /\ recognized[p][a] + 1 \in DOMAIN log[a]
        /\ log[a][recognized[p][a] + 1].tx.type = "Executed" /\ v \in Vids
    <3>1. RecognizeTx(p, a, "Executed")
      BY <1>5 DEF RecognizeExecuted
    <3>2. /\ recognized[p][a] + 1 \in DOMAIN log[a]
          /\ RecognizedTx(p, a) \in Transactions /\ RecognizedTx(p, a).type = "Executed"
      BY <3>1, RecognizedType
    <3>3. v \in Vids
      BY <2>0, <3>2, TransactionTypes
    <3> QED
      BY <3>2, <3>3 DEF RecognizedTx
  <2>2. v \notin Plain
    BY <2>0, <2>1 DEF WriteOnceInv, Announced, TrueTx, RecognizedTx
  <2>3. /\ UNCHANGED put_confirmed
        /\ \/ UNCHANGED data_known_locations
           \/ /\ s # NoSid
              /\ data_known_locations' = [data_known_locations EXCEPT ![p][v][s] = a]
    <3>1. UNCHANGED put_confirmed
      BY <1>5 DEF RecognizeExecuted
    <3>2. \/ UNCHANGED data_known_locations
          \/ /\ distribution[p][a] # NoSid
             /\ data_known_locations' = [data_known_locations EXCEPT
                  ![p][RecognizedTx(p, a).vid][distribution[p][a]] = a]
      BY <1>5 DEF RecognizeExecuted
    <3> QED
      BY <2>0, <3>1, <3>2
  <2>4. /\ data_known_locations \in [Peers -> [Vids -> [Sids -> Peers \cup {NoPeer}]]]
        /\ s \in Sids \cup {NoSid}
    <3>1. /\ data_known_locations \in [Peers -> [Vids -> [Sids -> Peers \cup {NoPeer}]]]
          /\ distribution \in [Peers -> [Peers -> Sids \cup {NoSid}]]
      BY DEF TypeOK
    <3> QED
      BY <2>0, <3>1
  <2>5. \A q \in Peers, w \in Plain, u \in Sids :
          data_known_locations'[q][w][u] = data_known_locations[q][w][u]
    <3>1. CASE UNCHANGED data_known_locations
      BY <3>1
    <3>2. CASE /\ s # NoSid
               /\ data_known_locations' = [data_known_locations EXCEPT ![p][v][s] = a]
      <4>1. \A q \in Peers, w \in Vids, u \in Sids : data_known_locations'[q][w][u] =
              IF q = p /\ w = v /\ u = s THEN a ELSE data_known_locations[q][w][u]
        BY <2>1, <2>4, <3>2
      <4> QED
        BY <2>2, <4>1, PlainVids
    <3> QED
      BY <2>3, <3>1, <3>2
  <2>6. \A q \in Peers, w \in Plain, u \in Sids :
          data_known_locations[q][w][u] \in Peers \cup {NoPeer}
    BY <2>4, PlainVids
  <2>7. LocatedIsAnnounced'
    BY <1>1, <1>2, <2>5, <2>6
  <2>8. ToldOnce'
    BY <2>3 DEF OnceInv, ToldOnce
  <2> QED
    BY <2>7, <2>8
<1>6. ASSUME NEW p \in Peers,
             \/ InitializeStorage(p) \/ BusWrite(p) \/ Crash(p)
             \/ \E v \in Vids, d \in Values : Put(p, v, d)
             \/ \E v \in Vids : Get(p, v)
             \/ \E a \in Peers : RecognizeInitializeStorage(p, a) \/ RecognizeStorageRequest(p, a)
             \/ \E prog \in Programs : RunProgram(p, prog)
      PROVE  LocatedIsAnnounced' /\ ToldOnce'
  BY <1>6, <1>3 DEF InitializeStorage, BusWrite, Crash, Put, Get, RecognizeInitializeStorage,
                    RecognizeStorageRequest, RunProgram
<1>7. ASSUME \/ \E r \in requests : HandleRequest(r)
             \/ \E r \in responses : HandleServeShardResponse(r) \/ HandleAssignedResponse(r)
             \/ LoseMessage
             \/ UNCHANGED vars
      PROVE  LocatedIsAnnounced' /\ ToldOnce'
  BY <1>7, <1>3 DEF HandleRequest, HandleServeShardResponse, HandleAssignedResponse,
                    LoseMessage, vars
<1> QED
  BY <1>4, <1>5, <1>6, <1>7, CommandAssumption DEF Next, Recognize

(* If one peer commands, every address is put at most once, programs       *)
(* compute other addresses than the ones that are put and the shard ids    *)
(* are numbers of peers (no two peers get the same), a peer is told        *)
(* PutConfirmed once for a put, and never for a computed address: each     *)
(* shard is announced once, by the one peer it is assigned to, so only one *)
(* recognition can complete the map of locations.                          *)
THEOREM ConfirmedAtMostOnce ==
  ASSUME NEW c \in Peers, Commanders = {c}, MaxPuts <= 1, Separate, Numbered
  PROVE  Spec => []ConfirmedOnce
<1> DEFINE I == TypeOK /\ WriteOnceInv /\ AgreementInv(c) /\ PulledInv
<1>1. Spec => []I
  BY WriteOnceSafe, LocatedSafe, PTL
<1>2. Init => OnceInv
  <2> SUFFICES ASSUME Init PROVE OnceInv
    OBVIOUS
  <2>1. \A q \in Peers : log[q] = <<>> /\ DOMAIN log[q] = {}
    BY DEF Init
  <2>2. \A q \in Peers, v \in Vids : Pulls(q, v) = {} /\ Served(q, v) = {} /\ Announcements(q, v) = {}
    BY DEF Init, Pulls, Served, Announcements
  <2>3. \A q \in Peers, v \in Vids : Deliveries(q, v) = {}
    BY <2>2 DEF Deliveries
  <2>4. RequestedOnce /\ DeliveredOnce
    BY <2>1, <2>3 DEF RequestedOnce, DeliveredOnce
  <2>5. LocatedIsAnnounced /\ ToldOnce
    BY PlainVids DEF Init, LocatedIsAnnounced, ToldOnce
  <2> QED
    BY <2>4, <2>5 DEF OnceInv
<1>3. I /\ OnceInv /\ [Next]_vars => OnceInv'
  <2> SUFFICES ASSUME I, OnceInv, [Next]_vars PROVE OnceInv'
    OBVIOUS
  <2>1. LogStep /\ PositionStep /\ DeliveryStep /\ AncestorsFirst
    BY StepShape, DeliveryShape DEF AgreementInv
  <2>2. RequestedOnce /\ DeliveredOnce
    BY DEF OnceInv
  <2>3. RequestedOnce'
    BY <2>2, RequestedNext
  <2>4. DeliveredOnce'
    BY <2>1, <2>2, DeliveredNext
  <2>5. LocatedIsAnnounced' /\ ToldOnce'
    BY ToldNext
  <2> QED
    BY <2>3, <2>4, <2>5 DEF OnceInv
<1>4. I /\ OnceInv => ConfirmedOnce
  <2> SUFFICES ASSUME I, OnceInv, NEW p \in Peers, NEW v \in Vids
               PROVE  put_confirmed[p][v] <= spent.puts[v]
    BY DEF ConfirmedOnce
  <2>1. put_confirmed[p][v] \in Nat /\ put_confirmed[p][v] <= 1 /\ spent.puts[v] \in Nat
    <3>1. spent.puts[v] \in Nat
      BY DEF TypeOK, Budgets
    <3> QED
      BY <3>1 DEF TypeOK, OnceInv, ToldOnce
  <2>2. put_confirmed[p][v] > 0 => spent.puts[v] # 0
    <3> SUFFICES ASSUME put_confirmed[p][v] > 0 PROVE spent.puts[v] # 0
      OBVIOUS
    <3>1. 0 \in Sids
      BY CodeAssumption DEF Sids
    <3>2. PICK q : q = data_known_locations[p][v][0]
      OBVIOUS
    <3>0. v \in Plain
      BY DEF WriteOnceInv, ConfirmedIsKnown
    <3>3. q \in Peers /\ q # NoPeer
      BY <3>1, <3>2 DEF WriteOnceInv, ConfirmedIsKnown, TypeOK
    <3>4. local_storage[q][v][0] # NoShard
      BY <3>0, <3>1, <3>2, <3>3 DEF WriteOnceInv, KnownIsStored
    <3>5. put_value[v] # NoShard
      BY <3>0, <3>1, <3>3, <3>4 DEF WriteOnceInv, HeldIsPut
    <3> QED
      BY <3>5 DEF WriteOnceInv, PutHistory
  <2> QED
    BY <2>1, <2>2
<1> HIDE DEF I
<1> QED
  BY <1>1, <1>2, <1>3, <1>4, PTL DEF Spec

-----------------------------------------------------------------------------
(* The panic of the data memory.                                           *)

(* Every distribution that a peer would adopt names every peer. *)
EveryoneAssigned == \A d \in Enumerations :
  verify_distribution(d) => \A q \in Peers : d[q] # NoSid

(* A running peer with a distribution finds everyone in it, and one that   *)
(* stopped has crashed.                                                    *)
GoesOnInv ==
  /\ \A p, q \in Peers : mode[p] = "initialized" => distribution[p][q] # NoSid
  /\ \A p \in Peers : mode[p] = "stopped" => spent.crashes > 0

(* Steps that leave mode and distribution alone and take no crash back. *)
LEMMA GoesOnKept ==
  ASSUME GoesOnInv, UNCHANGED <<mode, distribution>>, spent'.crashes = spent.crashes
  PROVE  GoesOnInv'
BY DEF GoesOnInv

(* Every step keeps that. *)
LEMMA GoesOnNext ==
  ASSUME EveryoneAssigned, TypeOK, GoesOnInv, [Next]_vars
  PROVE  GoesOnInv'
<1> USE DEF memory, network, users
<1>t. /\ mode \in [Peers -> {"uninitialized", "initialized", "stopped"}]
      /\ distribution \in [Peers -> [Peers -> Sids \cup {NoSid}]]
      /\ spent \in Budgets /\ spent.crashes \in Nat
  BY DEF TypeOK, Budgets
<1>1. ASSUME NEW p \in Peers, NEW a \in Peers, RecognizeInitializeStorage(p, a)
      PROVE  GoesOnInv'
  <2>0. PICK d : d = RecognizedTx(p, a).distribution
    OBVIOUS
  <2>1. RecognizeTx(p, a, "InitializeStorage") /\ UNCHANGED spent
    BY <1>1 DEF RecognizeInitializeStorage
  <2>2. d \in Enumerations
    BY <2>0, <2>1, RecognizedType, TransactionTypes
  <2>3. \/ UNCHANGED <<mode, distribution>>
        \/ /\ verify_distribution(d)
           /\ mode' = [mode EXCEPT ![p] = "initialized"]
           /\ distribution' = [distribution EXCEPT ![p] = d]
    BY <1>1, <2>0 DEF RecognizeInitializeStorage
  <2>4. CASE UNCHANGED <<mode, distribution>>
    BY <2>1, <2>4, GoesOnKept
  <2>5. CASE /\ verify_distribution(d)
             /\ mode' = [mode EXCEPT ![p] = "initialized"]
             /\ distribution' = [distribution EXCEPT ![p] = d]
    <3>1. \A q \in Peers : d[q] # NoSid
      BY <2>2, <2>5 DEF EveryoneAssigned
    <3>2. \A q \in Peers : /\ mode'[q] = IF q = p THEN "initialized" ELSE mode[q]
                           /\ distribution'[q] = IF q = p THEN d ELSE distribution[q]
      BY <1>t, <2>5
    <3> QED
      BY <2>1, <3>1, <3>2 DEF GoesOnInv
  <2> QED
    BY <2>3, <2>4, <2>5
<1>2. ASSUME NEW p \in Peers, NEW a \in Peers, RecognizeExecuted(p, a)
      PROVE  GoesOnInv'
  <2>1. RecognizeTx(p, a, "Executed") /\ UNCHANGED <<distribution, spent>>
    BY <1>2 DEF RecognizeExecuted
  <2>2. mode[p] # "stopped"
    BY <2>1 DEF RecognizeTx
  <2>3. mode[p] = "uninitialized" \/ distribution[p][a] # NoSid
    BY <1>t, <2>2 DEF GoesOnInv
  <2>4. UNCHANGED mode
    BY <1>2, <2>3 DEF RecognizeExecuted
  <2> QED
    BY <2>1, <2>4, GoesOnKept
<1>3. ASSUME NEW p \in Peers, Crash(p) PROVE GoesOnInv'
  <2>1. /\ \A q \in Peers : mode'[q] = IF q = p THEN "stopped" ELSE mode[q]
        /\ UNCHANGED distribution
    BY <1>3, <1>t DEF Crash
  <2>2. spent'.crashes = spent.crashes + 1
    BY <1>3, <1>t DEF Crash, Budgets
  <2>3. spent'.crashes > 0
    BY <1>t, <2>2
  <2> QED
    BY <2>1, <2>3 DEF GoesOnInv
<1>4. ASSUME \/ \E p \in Commanders : InitializeStorage(p)
             \/ \E p \in Commanders, v \in PutVids, d \in Values : Put(p, v, d)
             \/ \E p \in Peers, v \in Vids : Get(p, v)
             \/ LoseMessage
      PROVE  GoesOnInv'
  <2>1. spent'.crashes = spent.crashes
    BY <1>4, <1>t DEF InitializeStorage, Put, Get, LoseMessage, Budgets
  <2>2. UNCHANGED <<mode, distribution>>
    BY <1>4 DEF InitializeStorage, Put, Get, LoseMessage
  <2> QED
    BY <2>1, <2>2, GoesOnKept
<1>5. ASSUME \/ \E p, a \in Peers : RecognizeStorageRequest(p, a) \/ RecognizeStored(p, a)
             \/ \E r \in requests : HandleRequest(r)
             \/ \E r \in responses : HandleServeShardResponse(r) \/ HandleAssignedResponse(r)
             \/ \E p \in Peers, prog \in Programs : RunProgram(p, prog)
             \/ \E p \in Peers : BusWrite(p)
             \/ UNCHANGED vars
      PROVE  GoesOnInv'
  <2>1. UNCHANGED <<mode, distribution, spent>>
    BY <1>5 DEF RecognizeStorageRequest, RecognizeStored, HandleRequest,
                HandleServeShardResponse, HandleAssignedResponse, RunProgram, BusWrite, vars
  <2> QED
    BY <2>1, GoesOnKept
<1> QED
  BY <1>1, <1>2, <1>3, <1>4, <1>5 DEF Next, Recognize

(* If every distribution that can be adopted names every peer, the data    *)
(* memory never stops of itself: it finds a shard id for the author of     *)
(* every Executed transaction. So a peer left out of a valid distribution, *)
(* the case that the run dm_unassigned shows, is the only way to the panic *)
(* that shouldn't've been reached.                                         *)
THEOREM MemoryGoesOn ==
  ASSUME EveryoneAssigned
  PROVE  Spec => []MemoryNeverStops
<1>1. Spec => []TypeOK
  BY TypeCorrect
<1>2. Init => GoesOnInv
  BY DEF Init, GoesOnInv
<1>3. TypeOK /\ GoesOnInv /\ [Next]_vars => GoesOnInv'
  BY GoesOnNext
<1>4. TypeOK /\ GoesOnInv => MemoryNeverStops
  BY DEF GoesOnInv, MemoryNeverStops, TypeOK, Budgets
<1> QED
  BY <1>1, <1>2, <1>3, <1>4, PTL DEF Spec

=============================================================================
