-------------------------- MODULE DataMemoryProofs --------------------------
(* Theorems about the data memory, for any number of peers, addresses and  *)
(* values, any code 0 < K <= N and any budgets.                            *)
EXTENDS DataMemory, FiniteSetTheorems, TLAPS

-----------------------------------------------------------------------------
(* Facts about the operators.                                              *)

(* Updating nested maps. *)
LEMMA Update2 ==
  ASSUME NEW A, NEW B, NEW D, NEW f \in [A -> [B -> D]], NEW x \in A, NEW y \in B, NEW d \in D
  PROVE  [f EXCEPT ![x][y] = d] \in [A -> [B -> D]]
OBVIOUS

(* Updating maps nested three deep: peer, address, shard id. *)
LEMMA Update3 ==
  ASSUME NEW A, NEW B, NEW C, NEW D, NEW f \in [A -> [B -> [C -> D]]],
         NEW x \in A, NEW y \in B, NEW z \in C, NEW d \in D
  PROVE  [f EXCEPT ![x][y][z] = d] \in [A -> [B -> [C -> D]]]
OBVIOUS

(* A valid distribution assigns only shard ids of the code. *)
LEMMA ValidDistribution ==
  ASSUME NEW d \in Distributions, verify_distribution(d)
  PROVE  d \in [Peers -> Sids \cup {NoSid}]
BY DEF verify_distribution, Distributions

(* Decoding yields a value or Mixed. *)
LEMMA DecodeType ==
  ASSUME NEW shards PROVE decode(shards) \in Values \cup {Mixed}
BY DEF decode

(* Scheduling keeps the logs typed, whatever the transaction. *)
LEMMA ScheduleType ==
  ASSUME TypeOK, NEW p \in Peers, NEW tx \in Transactions,
         recognized' \in [Peers -> [Peers -> Nat]], ScheduleTx(p, tx)
  PROVE  log' \in [Peers -> Seq([tx : Transactions, deps : [Peers -> Nat]])]
<1> DEFINE E == [tx : Transactions, deps : [Peers -> Nat]]
<1>1. [tx |-> tx, deps |-> recognized'[p]] \in E
  OBVIOUS
<1>2. log \in [Peers -> Seq(E)]
  BY DEF TypeOK
<1> HIDE DEF E
<1>3. Append(log[p], [tx |-> tx, deps |-> recognized'[p]]) \in Seq(E)
  BY <1>1, <1>2
<1>4. log' \in [Peers -> Seq(E)]
  BY <1>2, <1>3 DEF ScheduleTx
<1> QED
  BY <1>4 DEF E

(* The transaction a peer recognizes is a transaction. *)
LEMMA RecognizedType ==
  ASSUME TypeOK, NEW p \in Peers, NEW a \in Peers, NEW type, RecognizeTx(p, a, type)
  PROVE  /\ recognized' \in [Peers -> [Peers -> Nat]]
         /\ recognized[p][a] + 1 \in DOMAIN log[a]
         /\ RecognizedTx(p, a) \in Transactions
         /\ RecognizedTx(p, a).type = type
         /\ mode[p] # "stopped"
<1> DEFINE E == [tx : Transactions, deps : [Peers -> Nat]]
<1> DEFINE i == recognized[p][a] + 1
<1>1. log[a] \in Seq(E) /\ recognized[p][a] \in Nat
  <2>1. log \in [Peers -> Seq(E)]
    BY DEF TypeOK
  <2>2. recognized \in [Peers -> [Peers -> Nat]]
    BY DEF TypeOK
  <2> HIDE DEF E
  <2> QED
    BY <2>1, <2>2
<1>2. recognized[p][a] < Len(log[a])
  BY DEF RecognizeTx
<1> HIDE DEF E
<1>3. i \in DOMAIN log[a] /\ log[a][i] \in E
  BY <1>1, <1>2
<1>4. log[a][i].tx \in Transactions
  BY <1>3 DEF E
<1>5. recognized' \in [Peers -> [Peers -> Nat]]
  <2>1. recognized \in [Peers -> [Peers -> Nat]]
    BY DEF TypeOK
  <2> QED
    BY <2>1 DEF RecognizeTx
<1>6. log[a][i].tx.type = type /\ mode[p] # "stopped"
  BY DEF RecognizeTx
<1> QED
  BY <1>3, <1>4, <1>5, <1>6 DEF RecognizedTx

(* The transactions by type. *)
LEMMA TransactionTypes ==
  /\ \A t \in Transactions : t.type = "InitializeStorage" => t.distribution \in Enumerations
  /\ \A t \in Transactions : t.type = "StorageRequest" => t.vid \in Vids
  /\ \A t \in Transactions : t.type = "Stored" => t.vid \in Vids /\ t.sid \in Sids
  /\ \A t \in Transactions : t.type = "Executed" => t.vid \in Vids
BY DEF Transactions

(* Collecting shards keeps the recollection and its answers typed. *)
LEMMA CollectType ==
  ASSUME TypeOK, NEW p \in Peers, NEW v \in Vids, NEW shards \in [Sids -> Shards],
         collect(p, v, shards)
  PROVE  /\ currently_assembled' \in [Peers -> [Vids -> [Sids -> Shards] \cup {Vacant}]]
         /\ get_responses' \in [Peers -> SUBSET (Vids \X (Values \cup {Mixed}))]
<1> DEFINE A == [Sids -> Shards] \cup {Vacant}
<1> DEFINE R == Vids \X (Values \cup {Mixed})
<1>1. currently_assembled \in [Peers -> [Vids -> A]] /\ get_responses \in [Peers -> SUBSET R]
  BY DEF TypeOK
<1>2. shards \in A /\ Vacant \in A /\ <<v, decode(shards)>> \in R
  BY DecodeType
<1> HIDE DEF A, R
<1>3. currently_assembled' \in [Peers -> [Vids -> A]]
  <2>1. \E x \in A : currently_assembled' = [currently_assembled EXCEPT ![p][v] = x]
    BY <1>2 DEF collect
  <2> QED
    BY <1>1, <2>1
<1>4. get_responses' \in [Peers -> SUBSET R]
  <2>1. get_responses[p] \cup {<<v, decode(shards)>>} \in SUBSET R
    BY <1>1, <1>2
  <2>2. \/ get_responses' = [get_responses EXCEPT ![p] = @ \cup {<<v, decode(shards)>>}]
        \/ get_responses' = get_responses
    BY DEF collect
  <2> QED
    BY <1>1, <2>1, <2>2
<1> QED
  BY <1>3, <1>4 DEF A, R

(* Storing keeps the local storage typed. *)
LEMMA StoreType ==
  ASSUME TypeOK, NEW p \in Peers, NEW v \in Vids, NEW s \in Sids, NEW shard \in Shards,
         store_shard(p, v, s, shard)
  PROVE  local_storage' \in [Peers -> [Vids -> [Sids -> Shards]]]
<1>1. local_storage \in [Peers -> [Vids -> [Sids -> Shards]]]
  BY DEF TypeOK
<1> QED
  BY <1>1 DEF store_shard

(* A response to a serve request keeps storage and logs typed. *)
LEMMA ServeResponseType ==
  ASSUME TypeOK, NEW p \in Peers, NEW v \in Vids, NEW s \in Sids, NEW shard \in Shards,
         recognized' \in [Peers -> [Peers -> Nat]],
         handle_serve_shard_response(p, v, s, shard)
  PROVE  /\ local_storage' \in [Peers -> [Vids -> [Sids -> Shards]]]
         /\ log' \in [Peers -> Seq([tx : Transactions, deps : [Peers -> Nat]])]
<1>1. CASE shard = NoShard
  BY <1>1 DEF handle_serve_shard_response, TypeOK
<1>2. CASE shard # NoShard
  <2>1. /\ store_shard(p, v, s, shard)
        /\ ScheduleTx(p, [type |-> "Stored", vid |-> v, sid |-> s])
    BY <1>2 DEF handle_serve_shard_response
  <2>2. [type |-> "Stored", vid |-> v, sid |-> s] \in Transactions
    BY DEF Transactions
  <2> QED
    BY <2>1, <2>2, StoreType, ScheduleType
<1> QED
  BY <1>1, <1>2

(* Requests are sent to peers and for shard ids. *)
LEMMA MakeRequestsType ==
  ASSUME TypeOK, NEW p \in Peers, NEW kind \in {"serve", "assigned"}, NEW v \in Vids,
         NEW targets, \A t \in targets : t.to \in Peers /\ t.sid \in Sids,
         MakeRequests(p, kind, v, targets)
  PROVE  /\ requests' \subseteq Requests
         /\ request_id' \in [Peers -> Nat]
         /\ responses' = responses
<1>1. requests \subseteq Requests /\ request_id \in [Peers -> Nat]
  BY DEF TypeOK
<1>2. \A t \in targets :
        [kind |-> kind, from |-> p, to |-> t.to, vid |-> v, sid |-> t.sid,
         id |-> request_id[p] + 1] \in Requests
  BY <1>1 DEF Requests
<1> QED
  BY <1>1, <1>2 DEF MakeRequests

-----------------------------------------------------------------------------
(* Type correctness.                                                       *)

(* The initial state is typed. *)
LEMMA TypeInit == Init => TypeOK
BY SMTT(60) DEF Init, TypeOK, NoShards, Shards, Budgets

(* Every action keeps the types; one step per action. *)
LEMMA TypeNext == TypeOK /\ [Next]_vars => TypeOK'
<1> SUFFICES ASSUME TypeOK, [Next]_vars PROVE TypeOK'
  OBVIOUS
<1> USE DEF memory, network, users
<1>1. ASSUME NEW p \in Commanders, InitializeStorage(p) PROVE TypeOK'
  <2>1. p \in Peers
    BY CommandAssumption
  <2>2. PICK d \in Enumerations :
          ScheduleTx(p, [type |-> "InitializeStorage", distribution |-> d])
    BY <1>1 DEF InitializeStorage
  <2>3. [type |-> "InitializeStorage", distribution |-> d] \in Transactions
    BY DEF Transactions
  <2>4. recognized' \in [Peers -> [Peers -> Nat]]
    BY <1>1 DEF InitializeStorage, TypeOK
  <2>5. log' \in [Peers -> Seq([tx : Transactions, deps : [Peers -> Nat]])]
    BY <2>1, <2>2, <2>3, <2>4, ScheduleType
  <2>6. spent' \in Budgets
    <3>1. spent \in Budgets
      BY DEF TypeOK
    <3> QED
      BY <1>1, <2>1, <3>1 DEF InitializeStorage, Budgets
  <2> QED
    BY <1>1, <2>5, <2>6 DEF InitializeStorage, TypeOK
<1>2. ASSUME NEW p \in Commanders, NEW v \in PutVids, NEW d \in Values, Put(p, v, d)
      PROVE  TypeOK'
  <2>1. p \in Peers /\ v \in Vids
    BY CommandAssumption
  <2>2. [type |-> "StorageRequest", vid |-> v] \in Transactions
    BY <2>1 DEF Transactions
  <2>3. recognized' \in [Peers -> [Peers -> Nat]]
    BY <1>2 DEF Put, TypeOK
  <2>4. log' \in [Peers -> Seq([tx : Transactions, deps : [Peers -> Nat]])]
    BY <1>2, <2>1, <2>2, <2>3, ScheduleType DEF Put
  <2>5. spent' \in Budgets
    <3>1. spent \in Budgets
      BY DEF TypeOK
    <3> QED
      BY <1>2, <3>1 DEF Put, Budgets
  <2>6. to_distribute' \in [Peers -> [Vids -> [Sids -> Shards]]]
    <3>1. encode(d) \in [Sids -> Shards]
      BY DEF encode, Shards
    <3>2. to_distribute \in [Peers -> [Vids -> [Sids -> Shards]]]
      BY DEF TypeOK
    <3> QED
      BY <1>2, <3>1, <3>2 DEF Put, prepare_to_serve_shards
  <2>7. put_value' \in [Vids -> Shards] /\ put_author' \in [Vids -> Peers \cup {NoPeer}]
    BY <1>2, <2>1 DEF Put, TypeOK, Shards
  <2> QED
    BY <1>2, <2>3, <2>4, <2>5, <2>6, <2>7 DEF Put, TypeOK
<1>3. ASSUME NEW p \in Peers, NEW v \in Vids, Get(p, v) PROVE TypeOK'
  <2> DEFINE shards == [s \in Sids |-> IF data_known_locations[p][v][s] = p
                                       THEN get_shard(p, v, s) ELSE NoShard]
  <2> DEFINE targets == {[to |-> data_known_locations[p][v][s], sid |-> s] :
                 s \in {t \in KnownSids(p, v) : data_known_locations[p][v][t] # p}}
  <2>1. collect(p, v, shards) /\ MakeRequests(p, "assigned", v, targets)
    BY <1>3 DEF Get
  <2>2. shards \in [Sids -> Shards]
    BY DEF TypeOK, get_shard, Shards
  <2>3. \A t \in targets : t.to \in Peers /\ t.sid \in Sids
    BY DEF TypeOK, KnownSids
  <2> HIDE DEF shards, targets
  <2>4. /\ currently_assembled' \in [Peers -> [Vids -> [Sids -> Shards] \cup {Vacant}]]
        /\ get_responses' \in [Peers -> SUBSET (Vids \X (Values \cup {Mixed}))]
    BY <2>1, <2>2, CollectType
  <2>5. /\ requests' \subseteq Requests
        /\ request_id' \in [Peers -> Nat]
        /\ responses' = responses
    BY <2>1, <2>3, MakeRequestsType
  <2>6. spent' \in Budgets
    <3>1. spent \in Budgets
      BY DEF TypeOK
    <3> QED
      BY <1>3, <3>1 DEF Get, Budgets
  <2> QED
    BY <1>3, <2>4, <2>5, <2>6 DEF Get, TypeOK
<1>4. ASSUME NEW p \in Peers, NEW a \in Peers, RecognizeInitializeStorage(p, a)
      PROVE  TypeOK'
  <2> DEFINE d == RecognizedTx(p, a).distribution
  <2>1. recognized' \in [Peers -> [Peers -> Nat]] /\ d \in Enumerations
    BY <1>4, RecognizedType, TransactionTypes DEF RecognizeInitializeStorage
  <2>2. verify_distribution(d) => d \in [Peers -> Sids \cup {NoSid}]
    BY <2>1, EnumerationAssumption, ValidDistribution
  <2> HIDE DEF d
  <2>3. \/ /\ verify_distribution(d)
           /\ mode' = [mode EXCEPT ![p] = "initialized"]
           /\ distribution' = [distribution EXCEPT ![p] = d]
        \/ mode' = mode /\ distribution' = distribution
    BY <1>4 DEF RecognizeInitializeStorage, d
  <2>4. /\ mode' \in [Peers -> {"uninitialized", "initialized", "stopped"}]
        /\ distribution' \in [Peers -> [Peers -> Sids \cup {NoSid}]]
    <3>1. /\ mode \in [Peers -> {"uninitialized", "initialized", "stopped"}]
          /\ distribution \in [Peers -> [Peers -> Sids \cup {NoSid}]]
      BY DEF TypeOK
    <3> QED
      BY <2>2, <2>3, <3>1
  <2> QED
    BY <1>4, <2>1, <2>4 DEF RecognizeInitializeStorage, TypeOK
<1>5. ASSUME NEW p \in Peers, NEW a \in Peers, RecognizeStorageRequest(p, a)
      PROVE  TypeOK'
  <2> DEFINE v == RecognizedTx(p, a).vid
  <2> DEFINE s == assigned_shard_id(p)
  <2>1. recognized' \in [Peers -> [Peers -> Nat]] /\ v \in Vids
    BY <1>5, RecognizedType, TransactionTypes DEF RecognizeStorageRequest
  <2>2. s \in Sids \cup {NoSid}
    BY DEF assigned_shard_id, TypeOK
  <2>3. serve_shard(p, v, s) \in Shards \/ s = NoSid
    BY <2>1, <2>2 DEF serve_shard, TypeOK
  <2> HIDE DEF v, s
  <2>4. /\ local_storage' \in [Peers -> [Vids -> [Sids -> Shards]]]
        /\ log' \in [Peers -> Seq([tx : Transactions, deps : [Peers -> Nat]])]
        /\ requests' \subseteq Requests
        /\ request_id' \in [Peers -> Nat]
        /\ responses' = responses
    <3>1. CASE UNCHANGED <<local_storage, log, network>>
      BY <3>1 DEF TypeOK
    <3>2. CASE /\ s # NoSid /\ UNCHANGED network
               /\ handle_serve_shard_response(p, v, s, serve_shard(p, v, s))
      BY <3>2, <2>1, <2>2, <2>3, ServeResponseType DEF TypeOK
    <3>3. CASE /\ s # NoSid /\ UNCHANGED <<local_storage, log>>
               /\ MakeRequests(p, "serve", v, {[to |-> a, sid |-> s]})
      <4>1. \A t \in {[to |-> a, sid |-> s]} : t.to \in Peers /\ t.sid \in Sids
        BY <3>3, <2>2
      <4> QED
        <5>1. /\ requests' \subseteq Requests
              /\ request_id' \in [Peers -> Nat]
              /\ responses' = responses
          BY <3>3, <4>1, <2>1, MakeRequestsType
        <5> QED
          BY <3>3, <5>1 DEF TypeOK
    <3> QED
      BY <1>5, <3>1, <3>2, <3>3 DEF RecognizeStorageRequest, v, s
  <2> QED
    BY <1>5, <2>1, <2>4 DEF RecognizeStorageRequest, TypeOK
<1>6. ASSUME NEW p \in Peers, NEW a \in Peers, RecognizeStored(p, a) PROVE TypeOK'
  <2> DEFINE v == RecognizedTx(p, a).vid
  <2> DEFINE s == RecognizedTx(p, a).sid
  <2>1. recognized' \in [Peers -> [Peers -> Nat]] /\ v \in Vids /\ s \in Sids
    BY <1>6, RecognizedType, TransactionTypes DEF RecognizeStored
  <2> HIDE DEF v, s
  <2>2. \/ UNCHANGED <<to_distribute, data_known_locations, put_confirmed>>
        \/ /\ observe_new_location(p, v, s, a)
           /\ \/ put_confirmed' = [put_confirmed EXCEPT ![p][v] = @ + 1]
              \/ put_confirmed' = put_confirmed
    BY <1>6 DEF RecognizeStored, v, s
  <2>3. put_confirmed' \in [Peers -> [Vids -> Nat]]
    <3>1. put_confirmed \in [Peers -> [Vids -> Nat]]
      BY DEF TypeOK
    <3> QED
      BY <2>1, <2>2, <3>1, SMTT(30)
  <2>4. data_known_locations' \in [Peers -> [Vids -> [Sids -> Peers \cup {NoPeer}]]]
    <3>1. data_known_locations \in [Peers -> [Vids -> [Sids -> Peers \cup {NoPeer}]]]
      BY DEF TypeOK
    <3>2. a \in Peers \cup {NoPeer}
      OBVIOUS
    <3>3. [data_known_locations EXCEPT ![p][v][s] = a]
             \in [Peers -> [Vids -> [Sids -> Peers \cup {NoPeer}]]]
      BY <2>1, <3>1, <3>2, Update3
    <3> QED
      BY <2>2, <3>1, <3>3 DEF observe_new_location
  <2>5. to_distribute' \in [Peers -> [Vids -> [Sids -> Shards]]]
    <3>1. to_distribute \in [Peers -> [Vids -> [Sids -> Shards]]]
      BY DEF TypeOK
    <3>2. /\ NoShards \in [Sids -> Shards]
          /\ [to_distribute[p][v] EXCEPT ![s] = NoShard] \in [Sids -> Shards]
      BY <2>1, <3>1 DEF NoShards, Shards
    <3>3. \/ to_distribute' = to_distribute
          \/ \E x \in [Sids -> Shards] : to_distribute' = [to_distribute EXCEPT ![p][v] = x]
      BY <2>2, <3>2 DEF observe_new_location
    <3>4. \A x \in [Sids -> Shards] :
            [to_distribute EXCEPT ![p][v] = x] \in [Peers -> [Vids -> [Sids -> Shards]]]
      BY <2>1, <3>1, Update2
    <3> QED
      BY <3>1, <3>3, <3>4
  <2> QED
    BY <1>6, <2>1, <2>3, <2>4, <2>5 DEF RecognizeStored, TypeOK
<1>7. ASSUME NEW p \in Peers, NEW a \in Peers, RecognizeExecuted(p, a) PROVE TypeOK'
  <2> DEFINE v == RecognizedTx(p, a).vid
  <2> DEFINE s == distribution[p][a]
  <2>1. recognized' \in [Peers -> [Peers -> Nat]] /\ v \in Vids
    BY <1>7, RecognizedType, TransactionTypes DEF RecognizeExecuted
  <2>2. s \in Sids \cup {NoSid}
    BY DEF TypeOK
  <2> HIDE DEF v, s
  <2>3. \/ mode' = mode /\ data_known_locations' = data_known_locations
        \/ /\ mode' = [mode EXCEPT ![p] = "stopped"]
           /\ data_known_locations' = data_known_locations
        \/ /\ s # NoSid /\ mode' = mode
           /\ data_known_locations' = [data_known_locations EXCEPT ![p][v][s] = a]
    BY <1>7 DEF RecognizeExecuted, v, s
  <2>4. mode' \in [Peers -> {"uninitialized", "initialized", "stopped"}]
    BY <2>3 DEF TypeOK
  <2>5. data_known_locations' \in [Peers -> [Vids -> [Sids -> Peers \cup {NoPeer}]]]
    <3>1. data_known_locations \in [Peers -> [Vids -> [Sids -> Peers \cup {NoPeer}]]]
      BY DEF TypeOK
    <3>2. a \in Peers \cup {NoPeer}
      OBVIOUS
    <3>3. s # NoSid => [data_known_locations EXCEPT ![p][v][s] = a]
             \in [Peers -> [Vids -> [Sids -> Peers \cup {NoPeer}]]]
      BY <2>1, <2>2, <3>1, <3>2, Update3
    <3> QED
      BY <2>3, <3>1, <3>3
  <2> QED
    BY <1>7, <2>1, <2>4, <2>5 DEF RecognizeExecuted, TypeOK
<1>8. ASSUME NEW r \in requests, HandleRequest(r) PROVE TypeOK'
  <2>1. r \in Requests
    BY DEF TypeOK
  <2>2. /\ serve_shard(r.to, r.vid, r.sid) \in Shards
        /\ get_shard(r.to, r.vid, r.sid) \in Shards
    BY <2>1 DEF serve_shard, get_shard, TypeOK, Requests
  <2>3. \/ \E shard \in Shards : Respond(r, shard)
        \/ requests' = requests \ {r} /\ UNCHANGED <<responses, request_id>>
    BY <1>8, <2>2 DEF HandleRequest
  <2>4. /\ requests' \subseteq Requests
        /\ responses' \subseteq Responses
        /\ request_id' = request_id
    <3>1. \A shard \in Shards :
            [kind |-> r.kind, to |-> r.from, vid |-> r.vid, sid |-> r.sid,
             id |-> r.id, shard |-> shard] \in Responses
      BY <2>1 DEF Requests, Responses
    <3> QED
      BY <2>3, <3>1 DEF Respond, TypeOK
  <2> QED
    BY <1>8, <2>4 DEF HandleRequest, TypeOK
<1>9. ASSUME NEW r \in responses, HandleServeShardResponse(r) PROVE TypeOK'
  <2>1. r \in Responses
    BY DEF TypeOK
  <2>2. /\ r.to \in Peers /\ r.vid \in Vids /\ r.sid \in Sids /\ r.shard \in Shards
    BY <2>1 DEF Responses
  <2>3. recognized' \in [Peers -> [Peers -> Nat]]
    BY <1>9 DEF HandleServeShardResponse, TypeOK
  <2>4. handle_serve_shard_response(r.to, r.vid, r.sid, r.shard)
    BY <1>9 DEF HandleServeShardResponse
  <2>5. /\ local_storage' \in [Peers -> [Vids -> [Sids -> Shards]]]
        /\ log' \in [Peers -> Seq([tx : Transactions, deps : [Peers -> Nat]])]
    BY <2>2, <2>3, <2>4, ServeResponseType
  <2>6. responses' \subseteq Responses
    BY <1>9 DEF HandleServeShardResponse, TypeOK
  <2> QED
    BY <1>9, <2>5, <2>6 DEF HandleServeShardResponse, TypeOK
<1>10. ASSUME NEW r \in responses, HandleAssignedResponse(r) PROVE TypeOK'
  <2>1. r \in Responses
    BY DEF TypeOK
  <2>2. /\ r.to \in Peers /\ r.vid \in Vids /\ r.sid \in Sids /\ r.shard \in Shards
    BY <2>1 DEF Responses
  <2> DEFINE entry == currently_assembled[r.to][r.vid]
  <2>3. entry # Vacant => [entry EXCEPT ![r.sid] = r.shard] \in [Sids -> Shards]
    BY <2>2 DEF TypeOK
  <2>4. \/ UNCHANGED <<currently_assembled, get_responses>>
        \/ /\ entry # Vacant
           /\ collect(r.to, r.vid, [entry EXCEPT ![r.sid] = r.shard])
    BY <1>10 DEF HandleAssignedResponse, handle_assigned_response
  <2> HIDE DEF entry
  <2>5. /\ currently_assembled' \in [Peers -> [Vids -> [Sids -> Shards] \cup {Vacant}]]
        /\ get_responses' \in [Peers -> SUBSET (Vids \X (Values \cup {Mixed}))]
    <3>1. CASE UNCHANGED <<currently_assembled, get_responses>>
      BY <3>1 DEF TypeOK
    <3>2. CASE entry # Vacant /\ collect(r.to, r.vid, [entry EXCEPT ![r.sid] = r.shard])
      BY <3>2, <2>2, <2>3, CollectType
    <3> QED
      BY <2>4, <3>1, <3>2
  <2>6. responses' \subseteq Responses
    BY <1>10 DEF HandleAssignedResponse, TypeOK
  <2> QED
    BY <1>10, <2>5, <2>6 DEF HandleAssignedResponse, TypeOK
<1>11. CASE LoseMessage
  <2>1. requests' \subseteq Requests /\ responses' \subseteq Responses
    BY <1>11 DEF LoseMessage, TypeOK
  <2>2. spent' \in Budgets
    <3>1. spent \in Budgets
      BY DEF TypeOK
    <3> QED
      BY <1>11, <3>1 DEF LoseMessage, Budgets
  <2> QED
    BY <1>11, <2>1, <2>2 DEF LoseMessage, TypeOK
<1>12. ASSUME NEW p \in Peers, NEW prog \in Programs, RunProgram(p, prog) PROVE TypeOK'
  <2>1. /\ prog.operand \in Vids /\ prog.result \in Vids
        /\ prog.calculate \in [Values -> Values]
    BY CommandAssumption
  <2>2. [type |-> "Executed", vid |-> prog.result] \in Transactions
    BY <2>1 DEF Transactions
  <2>3. recognized' \in [Peers -> [Peers -> Nat]]
    BY <1>12 DEF RunProgram, TypeOK
  <2>4. log' \in [Peers -> Seq([tx : Transactions, deps : [Peers -> Nat]])]
    BY <1>12, <2>2, <2>3, ScheduleType DEF RunProgram
  <2>5. executed' \in [Peers -> SUBSET Programs]
    BY <1>12 DEF RunProgram, TypeOK
  <2>6. bus_writes' \in [Peers -> Seq(Vids \X Values)]
    <3> DEFINE operand == prepare_context(p, prog)
               W == Vids \X Values
    <3>1. operand \in Values \cup {NoShard}
      <4>1. distribution[p][p] \in Sids \cup {NoSid}
        BY DEF TypeOK
      <4> QED
        BY <2>1, <4>1 DEF prepare_context, assigned_shard_id, get_shard, TypeOK, Shards
    <3> HIDE DEF operand
    <3>2. stored_context(prog, operand) \subseteq Seq(W)
      <4>1. CASE operand = NoShard
        BY <4>1 DEF stored_context
      <4>2. CASE operand # NoShard
        <5> DEFINE read == <<prog.operand, operand>>
                   result == <<prog.result, prog.calculate[operand]>>
        <5>1. read \in W /\ result \in W
          BY <2>1, <3>1, <4>2
        <5>2. stored_context(prog, operand) \subseteq
                {<<result>>, <<read, result>>, <<result, read>>}
          BY <4>2 DEF stored_context
        <5> HIDE DEF W, read, result
        <5>3. {<<result>>, <<read, result>>, <<result, read>>} \subseteq Seq(W)
          BY <5>1
        <5> QED
          BY <5>2, <5>3
      <4> QED
        BY <4>1, <4>2
    <3>3. PICK writes \in stored_context(prog, operand) :
            bus_writes' = [bus_writes EXCEPT ![p] = @ \o writes]
      BY <1>12 DEF RunProgram, operand
    <3>4. bus_writes \in [Peers -> Seq(W)]
      BY DEF TypeOK
    <3> HIDE DEF W
    <3>5. bus_writes[p] \o writes \in Seq(W)
      BY <3>2, <3>3, <3>4
    <3>6. bus_writes' \in [Peers -> Seq(W)]
      BY <3>3, <3>4, <3>5
    <3> QED
      BY <3>6 DEF W
  <2> QED
    BY <1>12, <2>3, <2>4, <2>5, <2>6 DEF RunProgram, TypeOK
<1>13. ASSUME NEW p \in Peers, BusWrite(p) PROVE TypeOK'
  <2> DEFINE W == Vids \X Values
  <2> DEFINE w == Head(bus_writes[p])
  <2>1. bus_writes \in [Peers -> Seq(W)] /\ bus_writes[p] # <<>>
    BY <1>13 DEF BusWrite, TypeOK
  <2> HIDE DEF W
  <2>2. bus_writes' \in [Peers -> Seq(W)] /\ w \in W
    <3>1. Tail(bus_writes[p]) \in Seq(W) /\ w \in W
      BY <2>1
    <3> QED
      BY <1>13, <2>1, <3>1 DEF BusWrite
  <2>3. w[1] \in Vids /\ w[2] \in Shards
    BY <2>2 DEF W, Shards
  <2>4. local_storage' \in [Peers -> [Vids -> [Sids -> Shards]]]
    <3>1. assigned_shard_id(p) \in Sids \cup {NoSid}
      BY DEF assigned_shard_id, TypeOK
    <3>2. CASE local_storage' = local_storage
      BY <3>2 DEF TypeOK
    <3>3. CASE /\ assigned_shard_id(p) # NoSid
               /\ store_shard(p, w[1], assigned_shard_id(p), w[2])
      BY <3>1, <3>3, <2>3, StoreType
    <3> QED
      BY <1>13, <3>2, <3>3 DEF BusWrite
  <2>5. bus_writes' \in [Peers -> Seq(Vids \X Values)]
    BY <2>2 DEF W
  <2> QED
    BY <1>13, <2>4, <2>5 DEF BusWrite, TypeOK
<1>14. ASSUME NEW p \in Peers, Crash(p) PROVE TypeOK'
  <2>1. spent' \in Budgets
    <3>1. spent \in Budgets
      BY DEF TypeOK
    <3> QED
      BY <1>14, <3>1 DEF Crash, Budgets
  <2>2. mode' \in [Peers -> {"uninitialized", "initialized", "stopped"}]
    <3>1. mode \in [Peers -> {"uninitialized", "initialized", "stopped"}]
      BY DEF TypeOK
    <3> QED
      BY <1>14, <3>1 DEF Crash
  <2> QED
    BY <1>14, <2>1, <2>2 DEF Crash, TypeOK
<1>15. CASE UNCHANGED vars
  BY <1>15 DEF vars, TypeOK
<1> QED
  BY <1>1, <1>2, <1>3, <1>4, <1>5, <1>6, <1>7, <1>8, <1>9, <1>10, <1>11,
     <1>12, <1>13, <1>14, <1>15 DEF Next, Recognize

(* Every variable keeps its type: in particular requests go to peers, and  *)
(* only shard ids of the code are assigned, stored, served and tracked.    *)
THEOREM TypeCorrect == Spec => []TypeOK
BY TypeInit, TypeNext, PTL DEF Spec

-----------------------------------------------------------------------------
(* One put per address, and programs that compute other addresses.         *)

(* Programs compute none of the addresses that are put. *)
Separate == PutVids \subseteq Plain

(* Whoever holds a shard of a plain address holds one of the value put     *)
(* there, the writes that wait in a memory bus included.                   *)
HeldIsPut ==
  /\ \A p \in Peers, v \in Plain, s \in Sids :
       /\ local_storage[p][v][s] \in {NoShard, put_value[v]}
       /\ to_distribute[p][v][s] \in {NoShard, put_value[v]}
       /\ currently_assembled[p][v] # Vacant =>
            currently_assembled[p][v][s] \in {NoShard, put_value[v]}
  /\ \A r \in responses : r.vid \in Plain => r.shard \in {NoShard, put_value[r.vid]}
  /\ \A p \in Peers : \A r \in get_responses[p] : r[1] \in Plain => r[2] = put_value[r[1]]
WritesArePut == \A p \in Peers : \A i \in 1 .. Len(bus_writes[p]) :
  bus_writes[p][i][1] \in Plain => bus_writes[p][i][2] = put_value[bus_writes[p][i][1]]

(* The history variables of puts agree. *)
PutHistory == \A v \in Vids :
  /\ spent.puts[v] = 0 => put_value[v] = NoShard
  /\ put_value[v] # NoShard => put_author[v] \in Peers

(* A peer stores only its assigned shard, and pulls it from authors only   *)
(* of addresses that are put.                                              *)
OwnShards ==
  /\ \A p \in Peers : mode[p] = "uninitialized" => assigned_shard_id(p) = NoSid
  /\ \A p \in Peers, v \in Vids, s \in Sids :
       local_storage[p][v][s] # NoShard => assigned_shard_id(p) = s
  /\ \A r \in requests : r.kind = "serve" =>
       assigned_shard_id(r.from) = r.sid /\ r.vid \in Plain
  /\ \A r \in responses : r.kind = "serve" =>
       assigned_shard_id(r.to) = r.sid /\ r.vid \in Plain
  /\ \A v \in Vids : put_value[v] # NoShard => v \in Plain

(* A shard announced as stored is stored; what is put is never announced   *)
(* as computed, nor the other way round.                                   *)
TrueTx(storage, tx) ==
  /\ tx.type = "Stored" => storage[tx.vid][tx.sid] # NoShard
  /\ tx.type \in {"StorageRequest", "Stored"} => tx.vid \in Plain
  /\ tx.type = "Executed" => tx.vid \notin Plain
Announced == \A q \in Peers : \A n \in DOMAIN log[q] : TrueTx(local_storage[q], log[q][n].tx)

(* A location is known only of a stored shard. *)
KnownIsStored == \A p \in Peers, v \in Plain, s \in Sids :
  data_known_locations[p][v][s] # NoPeer =>
    local_storage[data_known_locations[p][v][s]][v][s] # NoShard

(* A peer that confirmed a put knows where all shards are. *)
ConfirmedIsKnown == \A p \in Peers, v \in Vids :
  put_confirmed[p][v] > 0 =>
    v \in Plain /\ \A s \in Sids : data_known_locations[p][v][s] # NoPeer

WriteOnceInv == /\ HeldIsPut /\ PutHistory /\ OwnShards /\ Announced
                /\ KnownIsStored /\ ConfirmedIsKnown /\ WritesArePut /\ NoShardLost

(* Shards of one value decode to that value. *)
LEMMA DecodeValue ==
  ASSUME NEW d \in Values, NEW shards \in [Sids -> {NoShard, d}],
         Cardinality(Present(shards)) >= K
  PROVE  decode(shards) = d
<1>1. Present(shards) # {}
  BY FS_EmptySet, CodeAssumption
<1>2. \A s \in Present(shards) : shards[s] = d
  BY DEF Present
<1>3. \A e \in Values : (\A s \in Present(shards) : shards[s] = e) => e = d
  BY <1>1, <1>2
<1> QED
  BY <1>2, <1>3 DEF decode

(* N located shard ids are all of them. *)
LEMMA AllLocated ==
  ASSUME NEW p, NEW v, NEW s \in Sids, fully_distributed(p, v, s)
  PROVE  KnownSids(p, v) \cup {s} = Sids
<1> DEFINE S == KnownSids(p, v) \cup {s}
<1>1. S \subseteq Sids
  BY DEF KnownSids
<1>2. IsFiniteSet(Sids) /\ Cardinality(Sids) = N
  BY FS_Interval, CodeAssumption DEF Sids
<1>3. Cardinality(S) = N
  BY DEF fully_distributed
<1> HIDE DEF S
<1>4. S = Sids
  BY <1>1, <1>2, <1>3, FS_Subset
<1> QED
  BY <1>4 DEF S

(* Addresses no program computes are addresses; without programs, all are. *)
LEMMA PlainVids == Plain \subseteq Vids /\ (Programs = {} => Plain = Vids)
  BY DEF Plain

(* Initially nothing is put, held, announced, located or confirmed. *)
LEMMA WriteOnceInit == Init => WriteOnceInv
<1> SUFFICES ASSUME Init PROVE WriteOnceInv
  OBVIOUS
<1>1. HeldIsPut
  BY PlainVids DEF Init, HeldIsPut, NoShards
<1>2. PutHistory /\ NoShardLost /\ WritesArePut
  BY DEF Init, PutHistory, NoShardLost, WritesArePut
<1>3. OwnShards
  BY DEF Init, OwnShards, assigned_shard_id, NoShards
<1>4. Announced
  BY DEF Init, Announced
<1>5. KnownIsStored /\ ConfirmedIsKnown
  BY PlainVids DEF Init, KnownIsStored, ConfirmedIsKnown
<1> QED
  BY <1>1, <1>2, <1>3, <1>4, <1>5 DEF WriteOnceInv

(* What a step leaves alone stays true. *)
LEMMA HeldKept ==
  ASSUME HeldIsPut, responses' \subseteq responses,
         UNCHANGED <<local_storage, to_distribute, currently_assembled, put_value, get_responses>>
  PROVE  HeldIsPut'
BY DEF HeldIsPut

(* Storage and distributions that do not change keep OwnShards true. *)
LEMMA OwnKept ==
  ASSUME OwnShards, UNCHANGED <<distribution, local_storage, put_value>>,
         \A p \in Peers : mode'[p] = "uninitialized" => mode[p] = "uninitialized",
         requests' \subseteq requests, responses' \subseteq responses
  PROVE  OwnShards'
BY DEF OwnShards, assigned_shard_id

(* No step removes a stored shard. *)
NothingRemoved == \A q \in Peers, v \in Vids, s \in Sids :
  local_storage[q][v][s] # NoShard => local_storage'[q][v][s] # NoShard

(* Known locations stay stored if nothing is removed from any storage. *)
LEMMA KnownKept ==
  ASSUME TypeOK, KnownIsStored, NothingRemoved, UNCHANGED data_known_locations
  PROVE  KnownIsStored'
BY PlainVids DEF KnownIsStored, NothingRemoved, TypeOK

(* Every entry of a log holds a transaction. *)
LEMMA LogEntries ==
  ASSUME TypeOK
  PROVE  \A q \in Peers : \A n \in DOMAIN log[q] : log[q][n].tx \in Transactions
<1> DEFINE E == [tx : Transactions, deps : [Peers -> Nat]]
<1>1. log \in [Peers -> Seq(E)]
  BY DEF TypeOK
<1> HIDE DEF E
<1>2. \A q \in Peers : \A n \in DOMAIN log[q] : log[q][n] \in E
  BY <1>1
<1> QED
  BY <1>2 DEF E

(* Announcements stay true if nothing is removed from any storage. *)
LEMMA TrueTxKept ==
  ASSUME TypeOK, Announced, NothingRemoved, NEW q \in Peers, NEW n \in DOMAIN log[q]
  PROVE  TrueTx(local_storage'[q], log[q][n].tx)
<1>1. log[q][n].tx \in Transactions /\ TrueTx(local_storage[q], log[q][n].tx)
  BY LogEntries DEF Announced
<1>2. log[q][n].tx.type = "Stored" => log[q][n].tx.vid \in Vids /\ log[q][n].tx.sid \in Sids
  BY <1>1, TransactionTypes
<1> QED
  BY <1>1, <1>2 DEF TrueTx, NothingRemoved

(* The same for a step that schedules nothing. *)
LEMMA AnnouncedKept ==
  ASSUME TypeOK, Announced, NothingRemoved, UNCHANGED log
  PROVE  Announced'
BY TrueTxKept DEF Announced

(* Scheduling a transaction that is itself true keeps announcements true. *)
LEMMA AnnouncedScheduled ==
  ASSUME TypeOK, Announced, NothingRemoved, NEW p \in Peers, NEW tx,
         ScheduleTx(p, tx), TrueTx(local_storage'[p], tx)
  PROVE  Announced'
<1> DEFINE e == [tx |-> tx, deps |-> recognized'[p]]
<1> DEFINE Good(q, x) == TrueTx(local_storage'[q], x.tx)
<1>1. \A q \in Peers : \A n \in DOMAIN log[q] : Good(q, log[q][n])
  BY TrueTxKept
<1>2. Good(p, e)
  OBVIOUS
<1>3. log \in [Peers -> Seq([tx : Transactions, deps : [Peers -> Nat]])]
  BY DEF TypeOK
<1>4. log' = [log EXCEPT ![p] = Append(log[p], e)]
  BY DEF ScheduleTx
<1> HIDE DEF Good, e
<1>5. \A q \in Peers : \A n \in DOMAIN log'[q] : Good(q, log'[q][n])
  <2> SUFFICES ASSUME NEW q \in Peers, NEW n \in DOMAIN log'[q] PROVE Good(q, log'[q][n])
    OBVIOUS
  <2>1. CASE q # p
    BY <2>1, <1>1, <1>3, <1>4
  <2>2. CASE q = p
    <3> DEFINE E == [tx : Transactions, deps : [Peers -> Nat]]
    <3>1. log[p] \in Seq(E) /\ log'[p] = Append(log[p], e)
      BY <1>3, <1>4
    <3> HIDE DEF E
    <3>2. n \in 1 .. (Len(log[p]) + 1)
      BY <2>2, <3>1
    <3>3. CASE n = Len(log[p]) + 1
      BY <3>1, <3>3, <2>2, <1>2
    <3>4. CASE n # Len(log[p]) + 1
      <4>1. n \in DOMAIN log[p] /\ log'[p][n] = log[p][n]
        BY <3>1, <3>2, <3>4
      <4> QED
        BY <4>1, <2>2, <1>1
    <3> QED
      BY <3>3, <3>4
  <2> QED
    BY <2>1, <2>2
<1> QED
  BY <1>5 DEF Announced, Good

(* Shards stay held by somebody if none is removed and none is dropped. *)
LEMMA LostKept ==
  ASSUME TypeOK, NoShardLost, NothingRemoved, PutHistory,
         OwnShards,
         \A q \in Peers, v \in Plain, s \in Sids : local_storage'[q][v][s] \in {NoShard, put_value[v]},
         UNCHANGED <<put_value, put_author, to_distribute>>
  PROVE  NoShardLost'
<1> SUFFICES ASSUME NEW v \in Vids, put_value[v] # NoShard, NEW s \in Sids
             PROVE  \/ to_distribute[put_author[v]][v][s] = put_value[v]
                    \/ \E q \in Peers : local_storage'[q][v][s] = put_value[v]
  BY DEF NoShardLost
<1>1. \A q \in Peers : local_storage[q][v][s] = put_value[v] => local_storage'[q][v][s] = put_value[v]
  BY DEF NothingRemoved, OwnShards
<1> QED
  BY <1>1 DEF NoShardLost

(* What a step that stores shards leaves in storages: values put, under    *)
(* assigned shard ids.                                                     *)
OnlyOwn == \A q \in Peers, w \in Vids, u \in Sids :
  /\ w \in Plain => local_storage'[q][w][u] \in {NoShard, put_value[w]}
  /\ local_storage'[q][w][u] # NoShard => assigned_shard_id(q) = u

(* Storing the shard a peer is assigned, and announcing it. *)
LEMMA StoreStep ==
  ASSUME TypeOK, WriteOnceInv, NEW p \in Peers, NEW v \in Plain, NEW s \in Sids,
         NEW shard \in {NoShard, put_value[v]}, assigned_shard_id(p) = s,
         handle_serve_shard_response(p, v, s, shard)
  PROVE  NothingRemoved /\ OnlyOwn /\ Announced'
<1>1. CASE shard = NoShard
  <2>1. UNCHANGED <<local_storage, log>>
    BY <1>1 DEF handle_serve_shard_response
  <2>2. NothingRemoved
    BY <2>1 DEF NothingRemoved
  <2> QED
    BY <2>1, <2>2, AnnouncedKept DEF WriteOnceInv, HeldIsPut, OwnShards, OnlyOwn
<1>2. CASE shard # NoShard
  <2> DEFINE tx == [type |-> "Stored", vid |-> v, sid |-> s]
  <2>1. /\ local_storage' = [local_storage EXCEPT ![p][v][s] = shard]
        /\ ScheduleTx(p, tx)
    BY <1>2 DEF handle_serve_shard_response, store_shard
  <2>2. local_storage \in [Peers -> [Vids -> [Sids -> Shards]]]
    BY DEF TypeOK
  <2>3. \A q \in Peers, w \in Vids, u \in Sids :
          local_storage'[q][w][u] = IF q = p /\ w = v /\ u = s THEN shard
                                    ELSE local_storage[q][w][u]
    BY <2>1, <2>2, PlainVids
  <2>4. NothingRemoved
    BY <1>2, <2>3 DEF NothingRemoved
  <2>5. Announced'
    <3>1. TrueTx(local_storage'[p], tx)
      BY <1>2, <2>3, PlainVids DEF TrueTx
    <3> HIDE DEF tx
    <3> QED
      BY <2>1, <2>4, <3>1, AnnouncedScheduled DEF WriteOnceInv
  <2>6. OnlyOwn
    BY <2>3 DEF WriteOnceInv, HeldIsPut, OwnShards, OnlyOwn
  <2> QED
    BY <2>4, <2>5, <2>6
<1> QED
  BY <1>1, <1>2

(* Collecting shards of the value put answers with that value. *)
LEMMA CollectStep ==
  ASSUME TypeOK, WriteOnceInv, NEW p \in Peers, NEW v \in Vids,
         NEW shards \in [Sids -> Shards],
         v \in Plain => \A s \in Sids : shards[s] \in {NoShard, put_value[v]},
         collect(p, v, shards)
  PROVE  /\ \A q \in Peers, w \in Plain, s \in Sids : currently_assembled'[q][w] # Vacant =>
              currently_assembled'[q][w][s] \in {NoShard, put_value[w]}
         /\ \A q \in Peers : \A r \in get_responses'[q] :
              r[1] \in Plain => r[2] = put_value[r[1]]
<1>1. currently_assembled \in [Peers -> [Vids -> [Sids -> Shards] \cup {Vacant}]]
  BY DEF TypeOK
<1>2. \A q \in Peers, w \in Plain, s \in Sids : currently_assembled'[q][w] # Vacant =>
              currently_assembled'[q][w][s] \in {NoShard, put_value[w]}
  <2>1. \E x \in {shards, Vacant} : currently_assembled' = [currently_assembled EXCEPT ![p][v] = x]
    BY DEF collect
  <2>2. \A q \in Peers, w \in Vids : (q # p \/ w # v) =>
          currently_assembled'[q][w] = currently_assembled[q][w]
    BY <1>1, <2>1
  <2>3. currently_assembled'[p][v] \in {shards, Vacant}
    BY <1>1, <2>1
  <2> QED
    BY <2>2, <2>3, PlainVids DEF WriteOnceInv, HeldIsPut
<1>3. v \in Plain /\ Cardinality(Present(shards)) >= K => decode(shards) = put_value[v]
  <2> SUFFICES ASSUME v \in Plain, Cardinality(Present(shards)) >= K
               PROVE  decode(shards) = put_value[v]
    OBVIOUS
  <2>1. Present(shards) # {}
    BY FS_EmptySet, CodeAssumption
  <2>2. put_value[v] # NoShard
    BY <2>1 DEF Present
  <2>3. put_value[v] \in Values
    BY <2>2 DEF TypeOK, Shards
  <2>4. shards \in [Sids -> {NoShard, put_value[v]}]
    OBVIOUS
  <2> QED
    BY <2>3, <2>4, DecodeValue
<1>4. \A q \in Peers : \A r \in get_responses'[q] : r[1] \in Plain => r[2] = put_value[r[1]]
  <2>1. get_responses \in [Peers -> SUBSET (Vids \X (Values \cup {Mixed}))]
    BY DEF TypeOK
  <2>2. \/ get_responses' = get_responses
        \/ /\ Cardinality(Present(shards)) >= K
           /\ get_responses' = [get_responses EXCEPT ![p] = @ \cup {<<v, decode(shards)>>}]
    BY DEF collect
  <2>3. \A q \in Peers : \A r \in get_responses[q] :
          r[1] \in Plain => r[2] = put_value[r[1]]
    BY DEF WriteOnceInv, HeldIsPut
  <2>4. \A q \in Peers : \A r \in get_responses'[q] :
          \/ r \in get_responses[q]
          \/ r[1] = v /\ (v \in Plain => r = <<v, put_value[v]>>)
    BY <1>3, <2>1, <2>2
  <2> QED
    BY <2>3, <2>4
<1> QED
  BY <1>2, <1>4

(* A write that waits in a memory bus has an address and a value. *)
LEMMA WriteType ==
  ASSUME TypeOK
  PROVE  \A p \in Peers : \A n \in 1 .. Len(bus_writes[p]) :
           bus_writes[p][n][1] \in Vids /\ bus_writes[p][n][2] \in Values
<1> DEFINE W == Vids \X Values
<1>1. \A p \in Peers : bus_writes[p] \in Seq(W)
  BY DEF TypeOK
<1> HIDE DEF W
<1>2. \A p \in Peers : \A n \in 1 .. Len(bus_writes[p]) : bus_writes[p][n] \in W
  BY <1>1
<1> QED
  BY <1>2 DEF W

(* A program writes back what it read of an address nobody computes, and   *)
(* that is the value put.                                                  *)
LEMMA ProgramWrites ==
  ASSUME TypeOK, HeldIsPut, WritesArePut, NEW p \in Peers, NEW prog \in Programs,
         RunProgram(p, prog), UNCHANGED put_value
  PROVE  WritesArePut'
<1> DEFINE operand == prepare_context(p, prog)
           W == Vids \X Values
           Good(w) == w[1] \in Plain => w[2] = put_value[w[1]]
<1>1. /\ prog.operand \in Vids /\ prog.result \in Vids
      /\ prog.calculate \in [Values -> Values] /\ prog.result \notin Plain
  BY CommandAssumption DEF Plain
<1>2. prog.operand \in Plain => operand \in {NoShard, put_value[prog.operand]}
  <2>1. distribution[p][p] \in Sids \cup {NoSid}
    BY DEF TypeOK
  <2> QED
    BY <1>1, <2>1 DEF prepare_context, assigned_shard_id, get_shard, HeldIsPut
<1>3. PICK writes \in stored_context(prog, operand) :
        bus_writes' = [bus_writes EXCEPT ![p] = @ \o writes]
  BY DEF RunProgram
<1> HIDE DEF operand
<1> DEFINE read == <<prog.operand, operand>>
           output == <<prog.result, prog.calculate[operand]>>
<1>4. writes \in {<<>>, <<output>>, <<read, output>>, <<output, read>>}
  BY <1>3 DEF stored_context
<1>5. writes # <<>> => operand # NoShard
  BY <1>3 DEF stored_context
<1>6. Good(output) /\ (writes # <<>> => Good(read))
  BY <1>1, <1>2, <1>5
<1> HIDE DEF read, output, Good
<1>7. writes \in Seq({read, output}) /\ \A n \in 1 .. Len(writes) : Good(writes[n])
  <2>1. CASE writes = <<>>
    BY <2>1
  <2>2. CASE writes = <<output>>
    <3>1. writes \in Seq({read, output}) /\ Len(writes) = 1 /\ writes[1] = output
      BY <2>2
    <3> QED
      BY <1>6, <3>1
  <2>3. CASE writes \in {<<read, output>>, <<output, read>>}
    <3>1. /\ writes \in Seq({read, output}) /\ Len(writes) = 2 /\ writes # <<>>
          /\ writes[1] \in {read, output} /\ writes[2] \in {read, output}
      <4>1. CASE writes = <<read, output>>
        BY <4>1
      <4>2. CASE writes = <<output, read>>
        BY <4>2
      <4> QED
        BY <2>3, <4>1, <4>2
    <3>2. Good(writes[1]) /\ Good(writes[2])
      BY <1>6, <3>1, Zenon
    <3>3. \A n \in 1 .. Len(writes) : n = 1 \/ n = 2
      BY <3>1
    <3> QED
      BY <3>1, <3>2, <3>3
  <2> QED
    BY <1>4, <2>1, <2>2, <2>3
<1>8. \A q \in Peers : \A n \in 1 .. Len(bus_writes[q]) : Good(bus_writes[q][n])
  BY DEF WritesArePut, Good
<1>9. \A q \in Peers : \A n \in 1 .. Len(bus_writes'[q]) : Good(bus_writes'[q][n])
  <2>1. bus_writes \in [Peers -> Seq(W)]
    BY DEF TypeOK
  <2> HIDE DEF W
  <2> SUFFICES ASSUME NEW q \in Peers, NEW n \in 1 .. Len(bus_writes'[q])
               PROVE  Good(bus_writes'[q][n])
    OBVIOUS
  <2>2. CASE q # p
    BY <1>3, <1>8, <2>1, <2>2
  <2>3. CASE q = p
    <3>1. bus_writes'[q] = bus_writes[p] \o writes /\ bus_writes[p] \in Seq(W)
      BY <1>3, <2>1, <2>3
    <3>2. /\ Len(bus_writes[p]) \in Nat /\ Len(writes) \in Nat
          /\ n \in 1 .. (Len(bus_writes[p]) + Len(writes))
      BY <1>7, <3>1
    <3>3. CASE n <= Len(bus_writes[p])
      <4>1. n \in 1 .. Len(bus_writes[p]) /\ bus_writes'[q][n] = bus_writes[p][n]
        BY <1>7, <3>1, <3>2, <3>3
      <4> QED
        BY <1>8, <4>1
    <3>4. CASE n > Len(bus_writes[p])
      <4>1. /\ n - Len(bus_writes[p]) \in 1 .. Len(writes)
            /\ bus_writes'[q][n] = writes[n - Len(bus_writes[p])]
        BY <1>7, <3>1, <3>2, <3>4
      <4> QED
        BY <1>7, <4>1
    <3> QED
      BY <3>2, <3>3, <3>4
  <2> QED
    BY <2>2, <2>3
<1> QED
  BY <1>9 DEF WritesArePut, Good

(* What the memory bus stores is a value put, or of an address somebody    *)
(* computes, under the assigned shard id.                                  *)
LEMMA BusStores ==
  ASSUME TypeOK, HeldIsPut, OwnShards, WritesArePut, NEW p \in Peers, BusWrite(p),
         UNCHANGED put_value
  PROVE  WritesArePut' /\ NothingRemoved /\ OnlyOwn
<1> DEFINE W == Vids \X Values
           w == Head(bus_writes[p])
<1>1. bus_writes \in [Peers -> Seq(W)] /\ bus_writes[p] # <<>>
  BY DEF BusWrite, TypeOK
<1>2. bus_writes' = [bus_writes EXCEPT ![p] = Tail(@)]
  BY DEF BusWrite
<1>3. /\ w = bus_writes[p][1] /\ 1 \in 1 .. Len(bus_writes[p])
      /\ \A n \in 1 .. Len(bus_writes'[p]) : /\ bus_writes'[p][n] = bus_writes[p][n + 1]
                                             /\ n + 1 \in 1 .. Len(bus_writes[p])
      /\ \A q \in Peers : q # p => bus_writes'[q] = bus_writes[q]
  <2> HIDE DEF W
  <2> QED
    BY <1>1, <1>2
<1>4. w[1] \in Vids /\ w[2] \in Values /\ (w[1] \in Plain => w[2] = put_value[w[1]])
  BY <1>3, WriteType DEF WritesArePut
<1>5. WritesArePut'
  <2> SUFFICES ASSUME NEW q \in Peers, NEW n \in 1 .. Len(bus_writes'[q])
               PROVE  bus_writes'[q][n][1] \in Plain =>
                        bus_writes'[q][n][2] = put_value[bus_writes'[q][n][1]]
    BY DEF WritesArePut
  <2>1. CASE q = p
    BY <1>3, <2>1 DEF WritesArePut
  <2>2. CASE q # p
    BY <1>3, <2>2 DEF WritesArePut
  <2> QED
    BY <2>1, <2>2
<1> HIDE DEF w
<1>6. \/ local_storage' = local_storage
      \/ /\ assigned_shard_id(p) \in Sids
         /\ local_storage' = [local_storage EXCEPT ![p][w[1]][assigned_shard_id(p)] = w[2]]
  BY DEF BusWrite, store_shard, assigned_shard_id, TypeOK, w
<1>7. \A q \in Peers, v \in Vids, s \in Sids :
        \/ local_storage'[q][v][s] = local_storage[q][v][s]
        \/ q = p /\ v = w[1] /\ s = assigned_shard_id(p) /\ local_storage'[q][v][s] = w[2]
  <2>1. local_storage \in [Peers -> [Vids -> [Sids -> Shards]]]
    BY DEF TypeOK
  <2> QED
    BY <1>4, <1>6, <2>1
<1>8. NothingRemoved
  BY <1>4, <1>7, SentinelAssumption DEF NothingRemoved
<1>9. OnlyOwn
  BY <1>4, <1>7 DEF OnlyOwn, HeldIsPut, OwnShards
<1> QED
  BY <1>5, <1>8, <1>9

(* Every action keeps the inductive invariant; one step per action. *)
LEMMA WriteOnceNext ==
  ASSUME MaxPuts <= 1, Separate, TypeOK, WriteOnceInv, [Next]_vars
  PROVE  WriteOnceInv'
<1> USE DEF memory, network, users
<1>0. HeldIsPut /\ PutHistory /\ OwnShards /\ Announced /\ KnownIsStored
      /\ ConfirmedIsKnown /\ WritesArePut /\ NoShardLost
  BY DEF WriteOnceInv
<1>a. local_storage' = local_storage => NothingRemoved
  BY DEF NothingRemoved
<1>1. ASSUME NEW p \in Commanders, InitializeStorage(p) PROVE WriteOnceInv'
  <2>1. UNCHANGED <<memory, bus_writes, network, users>>
    BY <1>1 DEF InitializeStorage
  <2>2. HeldIsPut' /\ OwnShards'
    BY <1>0, <2>1, HeldKept, OwnKept
  <2>3. PutHistory'
    <3>1. spent'.puts = spent.puts
      BY <1>1 DEF InitializeStorage, TypeOK, Budgets
    <3> QED
      BY <1>0, <2>1, <3>1 DEF PutHistory
  <2>4. Announced'
    <3>1. PICK d \in Enumerations :
            ScheduleTx(p, [type |-> "InitializeStorage", distribution |-> d])
      BY <1>1 DEF InitializeStorage
    <3> DEFINE tx == [type |-> "InitializeStorage", distribution |-> d]
    <3>2. TrueTx(local_storage'[p], tx) /\ p \in Peers
      BY CommandAssumption DEF TrueTx
    <3>3. ScheduleTx(p, tx)
      BY <3>1
    <3> HIDE DEF tx
    <3> QED
      BY <1>0, <1>a, <2>1, <3>2, <3>3, AnnouncedScheduled
  <2>5. KnownIsStored' /\ ConfirmedIsKnown' /\ WritesArePut' /\ NoShardLost'
    BY <1>0, <2>1 DEF KnownIsStored, ConfirmedIsKnown, WritesArePut, NoShardLost
  <2> QED
    BY <2>2, <2>3, <2>4, <2>5 DEF WriteOnceInv
<1>2. ASSUME NEW p \in Commanders, NEW v \in PutVids, NEW d \in Values, Put(p, v, d)
      PROVE  WriteOnceInv'
  <2>1. /\ UNCHANGED <<mode, distribution, local_storage, currently_assembled,
                       data_known_locations, bus_writes, network, put_confirmed, get_responses>>
        /\ p \in Peers /\ v \in Vids /\ v \in Plain
    BY <1>2, CommandAssumption DEF Put, Separate
  <2>2. put_value[v] = NoShard
    <3>1. spent.puts[v] = 0
      BY <1>2, <2>1, BoundAssumption, SMTT(30) DEF Put, TypeOK, Budgets
    <3> QED
      BY <1>0, <2>1, <3>1 DEF PutHistory
  <2>3. /\ put_value' = [put_value EXCEPT ![v] = d]
        /\ put_author' = [put_author EXCEPT ![v] = p]
        /\ to_distribute' = [to_distribute EXCEPT ![p][v] = encode(d)]
    BY <1>2 DEF Put, prepare_to_serve_shards
  <2>4. /\ put_value'[v] = d /\ d # NoShard /\ put_author'[v] = p
        /\ \A w \in Vids : w # v => put_value'[w] = put_value[w] /\ put_author'[w] = put_author[w]
    BY <2>1, <2>3, SentinelAssumption DEF TypeOK
  <2>5. \A q \in Peers, w \in Vids, s \in Sids :
          to_distribute'[q][w][s] = IF q = p /\ w = v THEN d ELSE to_distribute[q][w][s]
    <3>1. to_distribute \in [Peers -> [Vids -> [Sids -> Shards]]]
      BY DEF TypeOK
    <3> QED
      BY <2>1, <2>3, <3>1 DEF encode
  <2>6. HeldIsPut'
    <3>1. \A r \in responses : r.vid \in Vids
      BY DEF TypeOK, Responses
    <3>2. \A q \in Peers : \A r \in get_responses[q] : r[1] \in Vids /\ r[2] # NoShard
      BY SentinelAssumption DEF TypeOK
    <3>3. \A r \in responses : r.vid \in Plain => r.shard \in {NoShard, put_value'[r.vid]}
      BY <1>0, <2>2, <2>4, <3>1 DEF HeldIsPut
    <3>4. \A q \in Peers : \A r \in get_responses[q] : r[1] \in Plain => r[2] = put_value'[r[1]]
      BY <1>0, <2>2, <2>4, <3>2 DEF HeldIsPut
    <3>5. \A q \in Peers, w \in Plain, s \in Sids :
            /\ local_storage[q][w][s] \in {NoShard, put_value'[w]}
            /\ to_distribute'[q][w][s] \in {NoShard, put_value'[w]}
            /\ currently_assembled[q][w] # Vacant =>
                 currently_assembled[q][w][s] \in {NoShard, put_value'[w]}
      BY <1>0, <2>2, <2>4, <2>5, PlainVids DEF HeldIsPut
    <3> QED
      BY <2>1, <3>3, <3>4, <3>5 DEF HeldIsPut
  <2>7. PutHistory'
    <3>1. \A w \in Vids : spent'.puts[w] = IF w = v THEN spent.puts[v] + 1 ELSE spent.puts[w]
      BY <1>2 DEF Put, TypeOK, Budgets
    <3>2. \A w \in Vids : spent.puts[w] \in Nat
      BY DEF TypeOK, Budgets
    <3> QED
      BY <1>0, <2>1, <2>4, <3>1, <3>2 DEF PutHistory
  <2>8. OwnShards'
    BY <1>0, <2>1, <2>4 DEF OwnShards, assigned_shard_id
  <2>9. Announced'
    <3> DEFINE tx == [type |-> "StorageRequest", vid |-> v]
    <3>1. TrueTx(local_storage'[p], tx) /\ ScheduleTx(p, tx)
      BY <1>2, <2>1 DEF Put, TrueTx
    <3> HIDE DEF tx
    <3> QED
      BY <1>0, <1>a, <2>1, <3>1, AnnouncedScheduled
  <2>10. KnownIsStored' /\ ConfirmedIsKnown' /\ WritesArePut'
    <3>1. KnownIsStored' /\ ConfirmedIsKnown'
      BY <1>0, <2>1 DEF KnownIsStored, ConfirmedIsKnown
    <3>2. \A q \in Peers : \A n \in 1 .. Len(bus_writes[q]) :
            bus_writes[q][n][1] \in Vids /\ bus_writes[q][n][2] # NoShard
      BY WriteType, SentinelAssumption
    <3>3. WritesArePut'
      BY <1>0, <2>1, <2>2, <2>4, <3>2 DEF WritesArePut
    <3> QED
      BY <3>1, <3>3
  <2>11. NoShardLost'
    <3> SUFFICES ASSUME NEW w \in Vids, put_value'[w] # NoShard, NEW s \in Sids
                 PROVE  \/ to_distribute'[put_author'[w]][w][s] = put_value'[w]
                        \/ \E q \in Peers : local_storage'[q][w][s] = put_value'[w]
      BY DEF NoShardLost
    <3>1. CASE w = v
      BY <3>1, <2>1, <2>4, <2>5
    <3>2. CASE w # v
      <4>1. put_author[w] \in Peers
        BY <1>0, <3>2, <2>4 DEF PutHistory
      <4> QED
        BY <1>0, <3>2, <4>1, <2>1, <2>4, <2>5 DEF NoShardLost
    <3> QED
      BY <3>1, <3>2
  <2> QED
    BY <2>6, <2>7, <2>8, <2>9, <2>10, <2>11 DEF WriteOnceInv
<1>3. ASSUME NEW p \in Peers, NEW v \in Vids, Get(p, v) PROVE WriteOnceInv'
  <2> DEFINE shards == [s \in Sids |-> IF data_known_locations[p][v][s] = p
                                       THEN get_shard(p, v, s) ELSE NoShard]
  <2>1. UNCHANGED <<mode, distribution, local_storage, to_distribute, data_known_locations,
                    bus_writes, log, put_value, put_author, put_confirmed, responses>>
    BY <1>3 DEF Get, MakeRequests
  <2>2. collect(p, v, shards)
    BY <1>3 DEF Get
  <2>3. shards \in [Sids -> Shards]
    BY DEF TypeOK, get_shard, Shards
  <2>4. v \in Plain => \A s \in Sids : shards[s] \in {NoShard, put_value[v]}
    BY <1>0 DEF HeldIsPut, get_shard
  <2> HIDE DEF shards
  <2>5. HeldIsPut'
    BY <1>0, <2>1, <2>2, <2>3, <2>4, CollectStep DEF HeldIsPut
  <2>6. PutHistory'
    <3>1. spent'.puts = spent.puts
      BY <1>3 DEF Get, TypeOK, Budgets
    <3> QED
      BY <1>0, <2>1, <3>1 DEF PutHistory
  <2>7. OwnShards'
    <3>1. \A r \in requests' : r \in requests \/ r.kind = "assigned"
      BY <1>3 DEF Get, MakeRequests
    <3> QED
      BY <1>0, <2>1, <3>1 DEF OwnShards, assigned_shard_id
  <2>8. Announced' /\ KnownIsStored' /\ ConfirmedIsKnown' /\ WritesArePut' /\ NoShardLost'
    <3>1. Announced' /\ KnownIsStored'
      BY <1>0, <2>1 DEF Announced, KnownIsStored
    <3>2. ConfirmedIsKnown' /\ WritesArePut' /\ NoShardLost'
      BY <1>0, <2>1 DEF ConfirmedIsKnown, WritesArePut, NoShardLost
    <3> QED
      BY <3>1, <3>2
  <2> QED
    BY <2>5, <2>6, <2>7, <2>8 DEF WriteOnceInv
<1>4. ASSUME NEW p \in Peers, NEW a \in Peers, RecognizeInitializeStorage(p, a)
      PROVE  WriteOnceInv'
  <2>1. UNCHANGED <<local_storage, to_distribute, currently_assembled,
                    data_known_locations, bus_writes, log, network, users, spent>>
    BY <1>4 DEF RecognizeInitializeStorage
  <2>2. \A q \in Peers : /\ mode'[q] = "uninitialized" => mode[q] = "uninitialized"
                         /\ \/ distribution'[q] = distribution[q]
                            \/ mode[q] = "uninitialized" /\ mode'[q] = "initialized"
    <3>1. /\ mode \in [Peers -> {"uninitialized", "initialized", "stopped"}]
          /\ distribution \in [Peers -> [Peers -> Sids \cup {NoSid}]]
      BY DEF TypeOK
    <3> DEFINE d == RecognizedTx(p, a).distribution
    <3>2. \/ /\ mode[p] = "uninitialized" /\ mode' = [mode EXCEPT ![p] = "initialized"]
             /\ distribution' = [distribution EXCEPT ![p] = d]
          \/ mode' = mode /\ distribution' = distribution
      BY <1>4 DEF RecognizeInitializeStorage
    <3> HIDE DEF d
    <3> QED
      BY <3>1, <3>2
  <2>3. OwnShards'
    <3>1. NoSid \notin Sids
      BY SentinelAssumption DEF Sids
    <3>2. \A q \in Peers : \/ assigned_shard_id(q)' = assigned_shard_id(q)
                           \/ assigned_shard_id(q) = NoSid /\ mode'[q] # "uninitialized"
      BY <1>0, <2>2 DEF OwnShards, assigned_shard_id
    <3>3. /\ \A r \in requests : r.from \in Peers /\ r.sid \in Sids
          /\ \A r \in responses : r.to \in Peers /\ r.sid \in Sids
      BY DEF TypeOK, Requests, Responses
    <3> QED
      BY <1>0, <2>1, <2>2, <3>1, <3>2, <3>3 DEF OwnShards
  <2>4. HeldIsPut'
    BY <1>0, <2>1, HeldKept
  <2>5. PutHistory' /\ Announced' /\ KnownIsStored'
    BY <1>0, <2>1 DEF PutHistory, Announced, KnownIsStored
  <2>6. ConfirmedIsKnown' /\ WritesArePut' /\ NoShardLost'
    BY <1>0, <2>1 DEF ConfirmedIsKnown, WritesArePut, NoShardLost
  <2> QED
    BY <2>3, <2>4, <2>5, <2>6 DEF WriteOnceInv
<1>5. ASSUME NEW p \in Peers, NEW a \in Peers, RecognizeStorageRequest(p, a)
      PROVE  WriteOnceInv'
  <2> DEFINE v == RecognizedTx(p, a).vid
  <2> DEFINE s == assigned_shard_id(p)
  <2>1. UNCHANGED <<mode, distribution, to_distribute, currently_assembled,
                    data_known_locations, bus_writes, users, spent, responses>>
    BY <1>5 DEF RecognizeStorageRequest, MakeRequests
  <2>2. v \in Plain /\ v \in Vids /\ s \in Sids \cup {NoSid}
    <3>1. v \in Plain /\ v \in Vids
      <4>1. /\ recognized[p][a] + 1 \in DOMAIN log[a]
            /\ log[a][recognized[p][a] + 1].tx.type = "StorageRequest"
        BY <1>5, RecognizedType DEF RecognizeStorageRequest, RecognizedTx
      <4> QED
        BY <1>0, <4>1, PlainVids DEF Announced, RecognizedTx, TrueTx
    <3>2. s \in Sids \cup {NoSid}
      BY DEF assigned_shard_id, TypeOK
    <3> QED
      BY <3>1, <3>2
  <2>3. \/ UNCHANGED <<local_storage, log, requests>>
        \/ /\ s # NoSid /\ UNCHANGED requests
           /\ handle_serve_shard_response(p, v, s, serve_shard(p, v, s))
        \/ /\ s # NoSid /\ UNCHANGED <<local_storage, log>>
           /\ MakeRequests(p, "serve", v, {[to |-> a, sid |-> s]})
    BY <1>5 DEF RecognizeStorageRequest
  <2>4. assigned_shard_id(p) = s
    OBVIOUS
  <2> HIDE DEF v, s
  <2>5. NothingRemoved /\ OnlyOwn /\ Announced'
    <3>1. CASE UNCHANGED <<local_storage, log>>
      BY <1>0, <1>a, <3>1, AnnouncedKept DEF HeldIsPut, OwnShards, OnlyOwn
    <3>2. CASE /\ s # NoSid
               /\ handle_serve_shard_response(p, v, s, serve_shard(p, v, s))
      <4>1. serve_shard(p, v, s) \in {NoShard, put_value[v]}
        BY <1>0, <2>2, <3>2 DEF HeldIsPut, serve_shard
      <4> QED
        BY <2>2, <2>4, <3>2, <4>1, StoreStep
    <3> QED
      BY <2>3, <3>1, <3>2
  <2>6. OwnShards'
    <3>1. \A r \in requests' : r \in requests \/ (r.from = p /\ r.sid = s /\ r.vid = v)
      <4>1. CASE UNCHANGED requests
        BY <4>1
      <4>2. CASE MakeRequests(p, "serve", v, {[to |-> a, sid |-> s]})
        BY <4>2 DEF MakeRequests
      <4> QED
        BY <2>3, <4>1, <4>2
    <3>2. \A q \in Peers : assigned_shard_id(q)' = assigned_shard_id(q)
      BY <2>1 DEF assigned_shard_id
    <3>3. /\ \A r \in requests : r.from \in Peers
          /\ \A r \in responses : r.to \in Peers
      BY DEF TypeOK, Requests, Responses
    <3>4. \A r \in requests' : r.kind = "serve" =>
            assigned_shard_id(r.from)' = r.sid /\ r.vid \in Plain
      BY <1>0, <2>2, <2>4, <3>1, <3>2, <3>3 DEF OwnShards
    <3>5. \A r \in responses' : r.kind = "serve" =>
            assigned_shard_id(r.to)' = r.sid /\ r.vid \in Plain
      BY <1>0, <2>1, <3>2, <3>3 DEF OwnShards
    <3>6. \A q \in Peers : mode'[q] = "uninitialized" => assigned_shard_id(q)' = NoSid
      BY <1>0, <2>1, <3>2 DEF OwnShards
    <3>7. \A q \in Peers, w \in Vids, u \in Sids :
            local_storage'[q][w][u] # NoShard => assigned_shard_id(q)' = u
      BY <2>5, <3>2 DEF OnlyOwn
    <3>8. \A w \in Vids : put_value'[w] # NoShard => w \in Plain
      BY <1>0, <2>1 DEF OwnShards
    <3> QED
      BY <3>4, <3>5, <3>6, <3>7, <3>8 DEF OwnShards
  <2>7. HeldIsPut'
    BY <1>0, <2>1, <2>5, PlainVids DEF HeldIsPut, OnlyOwn
  <2>8. PutHistory' /\ ConfirmedIsKnown' /\ WritesArePut'
    BY <1>0, <2>1 DEF PutHistory, ConfirmedIsKnown, WritesArePut
  <2>9. KnownIsStored' /\ NoShardLost'
    BY <1>0, <2>1, <2>5, PlainVids, KnownKept, LostKept DEF OnlyOwn
  <2> QED
    BY <2>5, <2>6, <2>7, <2>8, <2>9 DEF WriteOnceInv
<1>6. ASSUME NEW p \in Peers, NEW a \in Peers, RecognizeStored(p, a) PROVE WriteOnceInv'
  <2> DEFINE v == RecognizedTx(p, a).vid
  <2> DEFINE s == RecognizedTx(p, a).sid
  <2>1. UNCHANGED <<mode, distribution, local_storage, currently_assembled,
                    bus_writes, log, network, put_value, put_author, get_responses, spent>>
    BY <1>6 DEF RecognizeStored
  <2>2. v \in Vids /\ s \in Sids
    BY <1>6, RecognizedType, TransactionTypes DEF RecognizeStored
  <2>3. local_storage[a][v][s] # NoShard /\ v \in Plain
    <3>1. /\ recognized[p][a] + 1 \in DOMAIN log[a]
          /\ log[a][recognized[p][a] + 1].tx.type = "Stored"
      BY <1>6, RecognizedType DEF RecognizeStored, RecognizedTx
    <3> QED
      BY <1>0, <3>1 DEF Announced, RecognizedTx, TrueTx
  <2>4. \/ UNCHANGED <<to_distribute, data_known_locations, put_confirmed>>
        \/ /\ observe_new_location(p, v, s, a)
           /\ put_confirmed' = IF fully_distributed(p, v, s)
                               THEN [put_confirmed EXCEPT ![p][v] = @ + 1]
                               ELSE put_confirmed
    BY <1>6 DEF RecognizeStored
  <2> HIDE DEF v, s
  <2>5. CASE UNCHANGED <<to_distribute, data_known_locations, put_confirmed>>
    <3>1. HeldIsPut' /\ OwnShards'
      BY <1>0, <2>1, <2>5, HeldKept, OwnKept
    <3>2. PutHistory' /\ Announced' /\ KnownIsStored'
      BY <1>0, <2>1, <2>5 DEF PutHistory, Announced, KnownIsStored
    <3>3. ConfirmedIsKnown' /\ WritesArePut' /\ NoShardLost'
      BY <1>0, <2>1, <2>5 DEF ConfirmedIsKnown, WritesArePut, NoShardLost
    <3> QED
      BY <3>1, <3>2, <3>3 DEF WriteOnceInv
  <2>6. CASE /\ observe_new_location(p, v, s, a)
             /\ put_confirmed' = IF fully_distributed(p, v, s)
                                 THEN [put_confirmed EXCEPT ![p][v] = @ + 1]
                                 ELSE put_confirmed
    <3>1. \A q \in Peers, w \in Vids, u \in Sids : data_known_locations'[q][w][u] =
            IF q = p /\ w = v /\ u = s THEN a ELSE data_known_locations[q][w][u]
      <4>1. data_known_locations \in [Peers -> [Vids -> [Sids -> Peers \cup {NoPeer}]]]
        BY DEF TypeOK
      <4> QED
        BY <2>2, <2>6, <4>1 DEF observe_new_location
    <3>2. a # NoPeer
      BY SentinelAssumption
    <3>3. KnownIsStored'
      BY <1>0, <2>1, <2>3, <3>1, <3>2, PlainVids DEF KnownIsStored
    <3>4. fully_distributed(p, v, s) => \A u \in Sids : data_known_locations'[p][v][u] # NoPeer
      <4>1. fully_distributed(p, v, s) => KnownSids(p, v) \cup {s} = Sids
        BY <2>2, AllLocated
      <4> QED
        BY <2>2, <3>1, <3>2, <4>1 DEF KnownSids
    <3>5. ConfirmedIsKnown'
      <4>1. put_confirmed \in [Peers -> [Vids -> Nat]]
        BY DEF TypeOK
      <4>2. \A q \in Peers, w \in Vids :
              \/ put_confirmed'[q][w] = put_confirmed[q][w]
              \/ q = p /\ w = v /\ fully_distributed(p, v, s)
        BY <2>2, <2>6, <4>1
      <4> QED
        BY <1>0, <2>3, <3>1, <3>2, <3>4, <4>2 DEF ConfirmedIsKnown
    <3>6. \A q \in Peers, w \in Vids, u \in Sids :
            \/ to_distribute'[q][w][u] = to_distribute[q][w][u]
            \/ /\ q = p /\ w = v /\ to_distribute'[q][w][u] = NoShard
               /\ data_known_locations'[p][v][u] # NoPeer
      <4>1. to_distribute \in [Peers -> [Vids -> [Sids -> Shards]]]
        BY DEF TypeOK
      <4>2. CASE fully_distributed(p, v, s)
        <5>1. to_distribute' = [to_distribute EXCEPT ![p][v] = NoShards]
          BY <2>6, <4>2 DEF observe_new_location
        <5>2. \A u \in Sids : NoShards[u] = NoShard
          BY DEF NoShards
        <5> QED
          BY <2>2, <3>4, <4>1, <4>2, <5>1, <5>2
      <4>3. CASE ~fully_distributed(p, v, s)
        <5>1. to_distribute' = [to_distribute EXCEPT ![p][v] = [@ EXCEPT ![s] = NoShard]]
          BY <2>6, <4>3 DEF observe_new_location
        <5> QED
          BY <2>2, <3>1, <3>2, <4>1, <5>1
      <4> QED
        BY <4>2, <4>3
    <3>7. NoShardLost'
      <4> SUFFICES ASSUME NEW w \in Vids, put_value[w] # NoShard, NEW u \in Sids
                   PROVE  \/ to_distribute'[put_author[w]][w][u] = put_value[w]
                          \/ \E q \in Peers : local_storage[q][w][u] = put_value[w]
        BY <2>1 DEF NoShardLost
      <4>1. put_author[w] \in Peers
        BY <1>0 DEF PutHistory
      <4>2. CASE to_distribute'[put_author[w]][w][u] = to_distribute[put_author[w]][w][u]
        BY <1>0, <4>2 DEF NoShardLost
      <4>3. CASE w = v /\ data_known_locations'[p][v][u] # NoPeer
        <5>1. data_known_locations'[p][v][u] \in Peers
          <6>1. data_known_locations[p][v][u] \in Peers \cup {NoPeer}
            BY <2>2 DEF TypeOK
          <6>2. data_known_locations'[p][v][u] \in {a, data_known_locations[p][v][u]}
            BY <2>2, <3>1
          <6> QED
            BY <4>3, <6>1, <6>2
        <5>2. local_storage[data_known_locations'[p][v][u]][v][u] # NoShard
          BY <2>1, <2>3, <3>3, <4>3 DEF KnownIsStored
        <5> QED
          BY <1>0, <2>3, <4>3, <5>1, <5>2 DEF HeldIsPut
      <4> QED
        BY <3>6, <4>1, <4>2, <4>3
    <3>8. HeldIsPut'
      BY <1>0, <2>1, <3>6, PlainVids DEF HeldIsPut
    <3>9. PutHistory' /\ Announced' /\ WritesArePut'
      BY <1>0, <2>1 DEF PutHistory, Announced, WritesArePut
    <3>10. OwnShards'
      BY <1>0, <2>1, OwnKept
    <3> QED
      BY <3>3, <3>5, <3>7, <3>8, <3>9, <3>10 DEF WriteOnceInv
  <2> QED
    BY <2>4, <2>5, <2>6
<1>7. ASSUME NEW p \in Peers, NEW a \in Peers, RecognizeExecuted(p, a) PROVE WriteOnceInv'
  <2>1. /\ recognized[p][a] + 1 \in DOMAIN log[a]
        /\ log[a][recognized[p][a] + 1].tx.type = "Executed"
    BY <1>7, RecognizedType DEF RecognizeExecuted, RecognizedTx
  <2> DEFINE v == RecognizedTx(p, a).vid
             s == distribution[p][a]
  <2>2. v \notin Plain /\ v \in Vids
    <3>1. v \in Vids
      BY <1>7, RecognizedType, TransactionTypes DEF RecognizeExecuted
    <3> QED
      BY <1>0, <2>1, <3>1 DEF Announced, RecognizedTx, TrueTx
  <2>3. UNCHANGED <<distribution, local_storage, to_distribute, currently_assembled,
                    bus_writes, log, network, users, spent>>
    BY <1>7 DEF RecognizeExecuted
  <2>4. /\ \A q \in Peers : mode'[q] = "uninitialized" => mode[q] = "uninitialized"
        /\ \/ data_known_locations' = data_known_locations
           \/ /\ s \in Sids
              /\ data_known_locations' = [data_known_locations EXCEPT ![p][v][s] = a]
    <3>1. /\ mode \in [Peers -> {"uninitialized", "initialized", "stopped"}]
          /\ s \in Sids \cup {NoSid}
      BY DEF TypeOK
    <3>2. \/ UNCHANGED <<mode, data_known_locations>>
          \/ mode' = [mode EXCEPT ![p] = "stopped"] /\ UNCHANGED data_known_locations
          \/ /\ s # NoSid /\ UNCHANGED mode
             /\ data_known_locations' = [data_known_locations EXCEPT ![p][v][s] = a]
      BY <1>7 DEF RecognizeExecuted
    <3> HIDE DEF v, s
    <3> QED
      BY <3>1, <3>2
  <2>5. \A q \in Peers, w \in Vids, u \in Sids :
          /\ w # v => data_known_locations'[q][w][u] = data_known_locations[q][w][u]
          /\ data_known_locations[q][w][u] # NoPeer => data_known_locations'[q][w][u] # NoPeer
    <3>1. data_known_locations \in [Peers -> [Vids -> [Sids -> Peers \cup {NoPeer}]]]
      BY DEF TypeOK
    <3>2. a # NoPeer
      BY SentinelAssumption
    <3> HIDE DEF v, s
    <3>3. CASE data_known_locations' = data_known_locations
      BY <3>3
    <3>4. CASE /\ s \in Sids
               /\ data_known_locations' = [data_known_locations EXCEPT ![p][v][s] = a]
      <4>1. \A q \in Peers, w \in Vids, u \in Sids : data_known_locations'[q][w][u] =
              IF q = p /\ w = v /\ u = s THEN a ELSE data_known_locations[q][w][u]
        BY <2>2, <3>1, <3>4
      <4> QED
        BY <3>2, <4>1
    <3> QED
      BY <2>4, <3>3, <3>4
  <2> HIDE DEF v, s
  <2>6. HeldIsPut' /\ OwnShards'
    BY <1>0, <2>3, <2>4, HeldKept, OwnKept
  <2>7. PutHistory' /\ Announced' /\ WritesArePut' /\ NoShardLost'
    BY <1>0, <2>3 DEF PutHistory, Announced, WritesArePut, NoShardLost
  <2>8. KnownIsStored' /\ ConfirmedIsKnown'
    <3>1. KnownIsStored'
      BY <1>0, <2>2, <2>3, <2>5, PlainVids DEF KnownIsStored
    <3>2. ConfirmedIsKnown'
      BY <1>0, <2>3, <2>5 DEF ConfirmedIsKnown
    <3> QED
      BY <3>1, <3>2
  <2> QED
    BY <2>6, <2>7, <2>8 DEF WriteOnceInv
<1>8. ASSUME NEW r \in requests, HandleRequest(r) PROVE WriteOnceInv'
  <2>1. UNCHANGED <<memory, bus_writes, log, users, spent>>
    BY <1>8 DEF HandleRequest
  <2>2. r \in Requests
    BY DEF TypeOK
  <2>3. requests' \subseteq requests
    BY <1>8 DEF HandleRequest, Respond
  <2>4. \A x \in responses' : \/ x \in responses
          \/ /\ x.kind = r.kind /\ x.to = r.from /\ x.vid = r.vid /\ x.sid = r.sid
             /\ x.shard \in {serve_shard(r.to, r.vid, r.sid), get_shard(r.to, r.vid, r.sid)}
    BY <1>8 DEF HandleRequest, Respond
  <2>5. r.vid \in Plain => /\ serve_shard(r.to, r.vid, r.sid) \in {NoShard, put_value[r.vid]}
                           /\ get_shard(r.to, r.vid, r.sid) \in {NoShard, put_value[r.vid]}
    BY <1>0, <2>2 DEF Requests, HeldIsPut, serve_shard, get_shard
  <2>6. HeldIsPut'
    BY <1>0, <2>1, <2>4, <2>5 DEF HeldIsPut
  <2>7. OwnShards'
    BY <1>0, <2>1, <2>3, <2>4 DEF OwnShards, assigned_shard_id
  <2>8. PutHistory' /\ Announced' /\ KnownIsStored'
    BY <1>0, <2>1 DEF PutHistory, Announced, KnownIsStored
  <2>9. ConfirmedIsKnown' /\ WritesArePut' /\ NoShardLost'
    BY <1>0, <2>1 DEF ConfirmedIsKnown, WritesArePut, NoShardLost
  <2> QED
    BY <2>6, <2>7, <2>8, <2>9 DEF WriteOnceInv
<1>9. ASSUME NEW r \in responses, HandleServeShardResponse(r) PROVE WriteOnceInv'
  <2>1. UNCHANGED <<mode, distribution, to_distribute, currently_assembled, requests,
                    data_known_locations, bus_writes, users, spent>>
    BY <1>9 DEF HandleServeShardResponse
  <2>2. r.to \in Peers /\ r.vid \in Plain /\ r.sid \in Sids
    BY <1>0, <1>9 DEF TypeOK, Responses, OwnShards, HandleServeShardResponse
  <2>3. /\ r.shard \in {NoShard, put_value[r.vid]}
        /\ assigned_shard_id(r.to) = r.sid
        /\ handle_serve_shard_response(r.to, r.vid, r.sid, r.shard)
    BY <1>0, <1>9, <2>2 DEF HandleServeShardResponse, HeldIsPut, OwnShards
  <2>4. responses' \subseteq responses
    BY <1>9 DEF HandleServeShardResponse
  <2>5. NothingRemoved /\ OnlyOwn /\ Announced'
    BY <2>2, <2>3, StoreStep
  <2>6. OwnShards'
    BY <1>0, <2>1, <2>4, <2>5 DEF OwnShards, assigned_shard_id, OnlyOwn
  <2>7. HeldIsPut'
    BY <1>0, <2>1, <2>4, <2>5, PlainVids DEF HeldIsPut, OnlyOwn
  <2>8. PutHistory' /\ ConfirmedIsKnown' /\ WritesArePut'
    BY <1>0, <2>1 DEF PutHistory, ConfirmedIsKnown, WritesArePut
  <2>9. KnownIsStored' /\ NoShardLost'
    BY <1>0, <2>1, <2>5, PlainVids, KnownKept, LostKept DEF OnlyOwn
  <2> QED
    BY <2>5, <2>6, <2>7, <2>8, <2>9 DEF WriteOnceInv
<1>10. ASSUME NEW r \in responses, HandleAssignedResponse(r) PROVE WriteOnceInv'
  <2> DEFINE entry == currently_assembled[r.to][r.vid]
  <2>1. UNCHANGED <<mode, distribution, local_storage, to_distribute, data_known_locations,
                    bus_writes, log, requests, put_value, put_author, put_confirmed, spent>>
    BY <1>10 DEF HandleAssignedResponse
  <2>2. r.to \in Peers /\ r.vid \in Vids /\ r.sid \in Sids /\ r.shard \in Shards
    BY DEF TypeOK, Responses
  <2>3. responses' \subseteq responses
    BY <1>10 DEF HandleAssignedResponse
  <2>4. \/ UNCHANGED <<currently_assembled, get_responses>>
        \/ /\ entry # Vacant
           /\ collect(r.to, r.vid, [entry EXCEPT ![r.sid] = r.shard])
    BY <1>10 DEF HandleAssignedResponse, handle_assigned_response
  <2>5. entry # Vacant => entry \in [Sids -> Shards]
    BY <2>2 DEF TypeOK
  <2>6. r.vid \in Plain /\ entry # Vacant =>
          \A s \in Sids : entry[s] \in {NoShard, put_value[r.vid]}
    BY <1>0, <2>2 DEF HeldIsPut
  <2>7. r.vid \in Plain => r.shard \in {NoShard, put_value[r.vid]}
    BY <1>0 DEF HeldIsPut
  <2> HIDE DEF entry
  <2>8. HeldIsPut'
    <3>1. CASE UNCHANGED <<currently_assembled, get_responses>>
      BY <1>0, <2>1, <2>3, <3>1, HeldKept
    <3>2. CASE entry # Vacant /\ collect(r.to, r.vid, [entry EXCEPT ![r.sid] = r.shard])
      <4> DEFINE shards == [entry EXCEPT ![r.sid] = r.shard]
      <4>1. shards \in [Sids -> Shards]
        BY <2>2, <2>5, <3>2
      <4>2. r.vid \in Plain => \A s \in Sids : shards[s] \in {NoShard, put_value[r.vid]}
        BY <2>2, <2>5, <2>6, <2>7, <3>2
      <4>3. collect(r.to, r.vid, shards)
        BY <3>2
      <4> HIDE DEF shards
      <4> QED
        BY <1>0, <2>1, <2>2, <2>3, <4>1, <4>2, <4>3, CollectStep DEF HeldIsPut
    <3> QED
      BY <2>4, <3>1, <3>2
  <2>9. OwnShards'
    BY <1>0, <2>1, <2>3, OwnKept
  <2>10. PutHistory' /\ Announced' /\ KnownIsStored'
    BY <1>0, <2>1 DEF PutHistory, Announced, KnownIsStored
  <2>11. ConfirmedIsKnown' /\ WritesArePut' /\ NoShardLost'
    BY <1>0, <2>1 DEF ConfirmedIsKnown, WritesArePut, NoShardLost
  <2> QED
    BY <2>8, <2>9, <2>10, <2>11 DEF WriteOnceInv
<1>11. CASE LoseMessage
  <2>1. UNCHANGED <<memory, bus_writes, log, users>>
    BY <1>11 DEF LoseMessage
  <2>2. requests' \subseteq requests /\ responses' \subseteq responses
    BY <1>11 DEF LoseMessage
  <2>3. spent'.puts = spent.puts
    BY <1>11 DEF LoseMessage, TypeOK, Budgets
  <2>4. HeldIsPut' /\ OwnShards'
    BY <1>0, <2>1, <2>2, HeldKept, OwnKept
  <2>5. PutHistory' /\ Announced' /\ KnownIsStored'
    BY <1>0, <2>1, <2>3 DEF PutHistory, Announced, KnownIsStored
  <2>6. ConfirmedIsKnown' /\ WritesArePut' /\ NoShardLost'
    BY <1>0, <2>1 DEF ConfirmedIsKnown, WritesArePut, NoShardLost
  <2> QED
    BY <2>4, <2>5, <2>6 DEF WriteOnceInv
<1>12. ASSUME NEW p \in Peers, NEW prog \in Programs, RunProgram(p, prog) PROVE WriteOnceInv'
  <2>1. UNCHANGED <<memory, network, users, spent>>
    BY <1>12 DEF RunProgram
  <2>2. HeldIsPut' /\ OwnShards'
    BY <1>0, <2>1, HeldKept, OwnKept
  <2>3. PutHistory' /\ KnownIsStored' /\ ConfirmedIsKnown' /\ NoShardLost'
    BY <1>0, <2>1 DEF PutHistory, KnownIsStored, ConfirmedIsKnown, NoShardLost
  <2>4. Announced'
    <3> DEFINE tx == [type |-> "Executed", vid |-> prog.result]
    <3>1. TrueTx(local_storage'[p], tx) /\ ScheduleTx(p, tx)
      BY <1>12 DEF RunProgram, TrueTx, Plain
    <3> HIDE DEF tx
    <3> QED
      BY <1>0, <1>a, <2>1, <3>1, AnnouncedScheduled
  <2>5. WritesArePut'
    BY <1>0, <1>12, <2>1, ProgramWrites
  <2> QED
    BY <2>2, <2>3, <2>4, <2>5 DEF WriteOnceInv
<1>13. ASSUME NEW p \in Peers, BusWrite(p) PROVE WriteOnceInv'
  <2>1. UNCHANGED <<mode, distribution, to_distribute, currently_assembled,
                    data_known_locations, log, network, users, spent>>
    BY <1>13 DEF BusWrite
  <2>2. WritesArePut' /\ NothingRemoved /\ OnlyOwn
    BY <1>0, <1>13, <2>1, BusStores
  <2>3. HeldIsPut'
    BY <1>0, <2>1, <2>2, PlainVids DEF HeldIsPut, OnlyOwn
  <2>4. OwnShards'
    BY <1>0, <2>1, <2>2 DEF OwnShards, assigned_shard_id, OnlyOwn
  <2>5. PutHistory' /\ ConfirmedIsKnown'
    BY <1>0, <2>1 DEF PutHistory, ConfirmedIsKnown
  <2>6. Announced' /\ KnownIsStored' /\ NoShardLost'
    BY <1>0, <2>1, <2>2, PlainVids, AnnouncedKept, KnownKept, LostKept DEF OnlyOwn
  <2> QED
    BY <2>2, <2>3, <2>4, <2>5, <2>6 DEF WriteOnceInv
<1>14. ASSUME NEW p \in Peers, Crash(p) PROVE WriteOnceInv'
  <2>1. UNCHANGED <<distribution, local_storage, to_distribute, currently_assembled,
                    data_known_locations, bus_writes, log, network, users>>
    BY <1>14 DEF Crash
  <2>2. \A q \in Peers : mode'[q] = "uninitialized" => mode[q] = "uninitialized"
    BY <1>14 DEF Crash, TypeOK
  <2>3. spent'.puts = spent.puts
    BY <1>14 DEF Crash, TypeOK, Budgets
  <2>4. HeldIsPut' /\ OwnShards'
    BY <1>0, <2>1, <2>2, HeldKept, OwnKept
  <2>5. PutHistory' /\ Announced' /\ KnownIsStored'
    BY <1>0, <2>1, <2>3 DEF PutHistory, Announced, KnownIsStored
  <2>6. ConfirmedIsKnown' /\ WritesArePut' /\ NoShardLost'
    BY <1>0, <2>1 DEF ConfirmedIsKnown, WritesArePut, NoShardLost
  <2> QED
    BY <2>4, <2>5, <2>6 DEF WriteOnceInv
<1>15. CASE UNCHANGED vars
  <2>1. UNCHANGED <<memory, bus_writes, log, network, users, spent>>
    BY <1>15 DEF vars
  <2>2. HeldIsPut' /\ OwnShards'
    BY <1>0, <2>1, HeldKept, OwnKept
  <2>3. PutHistory' /\ Announced' /\ KnownIsStored'
    BY <1>0, <2>1 DEF PutHistory, Announced, KnownIsStored
  <2>4. ConfirmedIsKnown' /\ WritesArePut' /\ NoShardLost'
    BY <1>0, <2>1 DEF ConfirmedIsKnown, WritesArePut, NoShardLost
  <2> QED
    BY <2>2, <2>3, <2>4 DEF WriteOnceInv
<1> QED
  BY <1>1, <1>2, <1>3, <1>4, <1>5, <1>6, <1>7, <1>8, <1>9, <1>10, <1>11,
     <1>12, <1>13, <1>14, <1>15 DEF Next, Recognize

(* The inductive invariant holds in every reachable state. *)
LEMMA WriteOnceSafe ==
  ASSUME MaxPuts <= 1, Separate
  PROVE  Spec => [](TypeOK /\ WriteOnceInv)
<1>1. Init => TypeOK /\ WriteOnceInv
  BY TypeInit, WriteOnceInit
<1>2. TypeOK /\ WriteOnceInv /\ [Next]_vars => (TypeOK /\ WriteOnceInv)'
  BY TypeNext, WriteOnceNext
<1> QED
  BY <1>1, <1>2, PTL DEF Spec

(* The same without programs, when all addresses are plain. *)
LEMMA NoProgramsSafe ==
  ASSUME MaxPuts <= 1, Programs = {}
  PROVE  Spec => [](TypeOK /\ WriteOnceInv)
<1>1. Separate
  BY PlainVids, CommandAssumption DEF Separate
<1> QED
  BY <1>1, WriteOnceSafe

(* If every address is put at most once and programs, in chains too,       *)
(* compute other addresses, PutConfirmed is shown only when every shard is *)
(* stored by the peer it is assigned to, whatever is lost, whoever crashes *)
(* and whoever initializes.                                                *)
THEOREM ConfirmedSafe ==
  ASSUME MaxPuts <= 1, Separate
  PROVE  Spec => []ConfirmedMeansFullyStored
<1>1. TypeOK /\ WriteOnceInv => ConfirmedMeansFullyStored
  <2> SUFFICES ASSUME TypeOK, WriteOnceInv, NEW p \in Peers, NEW v \in Vids,
                      put_confirmed[p][v] > 0, NEW s \in Sids
               PROVE  \E q \in Peers : assigned_shard_id(q) = s /\ local_storage[q][v][s] = put_value[v]
    BY DEF ConfirmedMeansFullyStored
  <2> DEFINE q == data_known_locations[p][v][s]
  <2>1. v \in Plain /\ q # NoPeer /\ q \in Peers
    BY DEF WriteOnceInv, ConfirmedIsKnown, TypeOK
  <2>2. local_storage[q][v][s] # NoShard
    BY <2>1 DEF WriteOnceInv, KnownIsStored
  <2> HIDE DEF q
  <2> QED
    BY <2>1, <2>2 DEF WriteOnceInv, HeldIsPut, OwnShards
<1> QED
  BY <1>1, WriteOnceSafe, PTL

(* Under the same conditions the author drops no shard that is not stored: *)
(* every shard of a put value is served or stored at every moment, however *)
(* programs write their operands back.                                     *)
THEOREM NothingLost ==
  ASSUME MaxPuts <= 1, Separate
  PROVE  Spec => []NoShardLost
<1>1. TypeOK /\ WriteOnceInv => NoShardLost
  BY DEF WriteOnceInv
<1> QED
  BY <1>1, WriteOnceSafe, PTL

(* What WriteOnceInv says of a get and of the locations a peer knows.      *)
LEMMA PlainSafe ==
  ASSUME TypeOK, WriteOnceInv
  PROVE  RecollectedIsPut /\ ListedIsRecollectable
<1>1. RecollectedIsPut
  BY DEF WriteOnceInv, HeldIsPut, RecollectedIsPut
<1>2. ListedIsRecollectable
  <2> SUFFICES ASSUME NEW p \in Peers, NEW v \in ListDistributed(p) \cap Plain,
                      Cardinality(running_locations(p, v)) >= K
               PROVE  Cardinality({s \in running_locations(p, v) :
                        local_storage[data_known_locations[p][v][s]][v][s] = put_value[v]}) >= K
    BY DEF ListedIsRecollectable
  <2>1. v \in Vids /\ v \in Plain
    BY DEF ListDistributed
  <2>2. \A s \in running_locations(p, v) :
          local_storage[data_known_locations[p][v][s]][v][s] = put_value[v]
    <3> SUFFICES ASSUME NEW s \in running_locations(p, v)
                 PROVE  local_storage[data_known_locations[p][v][s]][v][s] = put_value[v]
      OBVIOUS
    <3>1. s \in KnownSids(p, v)
      BY DEF running_locations
    <3>2. s \in Sids /\ data_known_locations[p][v][s] \in Peers
      BY <2>1, <3>1 DEF KnownSids, TypeOK
    <3>3. local_storage[data_known_locations[p][v][s]][v][s] # NoShard
      BY <2>1, <3>1, <3>2 DEF KnownSids, WriteOnceInv, KnownIsStored
    <3> QED
      BY <2>1, <3>2, <3>3 DEF WriteOnceInv, HeldIsPut
  <2>3. {s \in running_locations(p, v) :
           local_storage[data_known_locations[p][v][s]][v][s] = put_value[v]}
          = running_locations(p, v)
    BY <2>2
  <2> QED
    BY <2>3
<1> QED
  BY <1>1, <1>2

(* Under the same conditions a get of an address that no program computes  *)
(* answers with the value put, although programs read the address and      *)
(* write it back while its shards are distributed and recollected.         *)
THEOREM RecollectionSafe ==
  ASSUME MaxPuts <= 1, Separate
  PROVE  Spec => []RecollectedIsPut
<1>1. TypeOK /\ WriteOnceInv => RecollectedIsPut
  BY PlainSafe
<1> QED
  BY <1>1, WriteOnceSafe, PTL

(* Under the same conditions every address that no program computes and    *)
(* that ListDistributed shows can be recollected while K of the peers it   *)
(* names are running: no location that made it listed is wrong, and no     *)
(* program that reads the address spoils what is stored there.             *)
THEOREM ListedSafe ==
  ASSUME MaxPuts <= 1, Separate
  PROVE  Spec => []ListedIsRecollectable
<1>1. TypeOK /\ WriteOnceInv => ListedIsRecollectable
  BY PlainSafe
<1> QED
  BY <1>1, WriteOnceSafe, PTL

-----------------------------------------------------------------------------
(* The refinement of SharedMemory.                                         *)

(* A recollection is started only with K known locations, and locations    *)
(* are never forgotten.                                                    *)
RecollectingInv == \A p \in Peers, v \in Vids :
  currently_assembled[p][v] # Vacant => Cardinality(KnownSids(p, v)) >= K

(* Shard ids in all, and how many of them a set holds. *)
LEMMA SidsFinite ==
  ASSUME NEW S, NEW T, S \subseteq T, T \subseteq Sids
  PROVE  /\ Cardinality(S) \in Nat /\ Cardinality(T) \in Nat
         /\ Cardinality(S) <= Cardinality(T)
<1>1. IsFiniteSet(Sids)
  BY FS_Interval, CodeAssumption DEF Sids
<1>2. IsFiniteSet(T)
  BY <1>1, FS_Subset
<1> QED
  BY <1>2, FS_Subset, FS_CardinalityType

(* More locations known, the recollections under way stay justified. *)
LEMMA RecollectingKept ==
  ASSUME RecollectingInv,
         \A p \in Peers, v \in Vids, s \in Sids :
           data_known_locations[p][v][s] # NoPeer => data_known_locations'[p][v][s] # NoPeer,
         \A p \in Peers, v \in Vids : currently_assembled'[p][v] # Vacant =>
           \/ currently_assembled[p][v] # Vacant
           \/ Cardinality(KnownSids(p, v)) >= K
  PROVE  RecollectingInv'
<1> SUFFICES ASSUME NEW p \in Peers, NEW v \in Vids, currently_assembled'[p][v] # Vacant
             PROVE  Cardinality(KnownSids(p, v)') >= K
  BY DEF RecollectingInv
<1>1. Cardinality(KnownSids(p, v)) >= K
  BY DEF RecollectingInv
<1>2. KnownSids(p, v) \subseteq KnownSids(p, v)' /\ KnownSids(p, v)' \subseteq Sids
  BY DEF KnownSids
<1>3. \A S, T : S \subseteq T /\ T \subseteq Sids =>
        /\ Cardinality(S) \in Nat /\ Cardinality(T) \in Nat
        /\ Cardinality(S) <= Cardinality(T)
  BY SidsFinite
<1>4. /\ Cardinality(KnownSids(p, v)) \in Nat /\ Cardinality(KnownSids(p, v)') \in Nat
      /\ Cardinality(KnownSids(p, v)) <= Cardinality(KnownSids(p, v)')
  BY <1>2, <1>3
<1> QED
  BY <1>1, <1>4, CodeAssumption

(* What collect does to the recollections. *)
LEMMA CollectEffect ==
  ASSUME TypeOK, NEW p \in Peers, NEW v \in Vids, NEW shards, collect(p, v, shards)
  PROVE  /\ \A q \in Peers, w \in Vids : (q # p \/ w # v) =>
              currently_assembled'[q][w] = currently_assembled[q][w]
         /\ \/ get_responses' = get_responses
            \/ get_responses' = [get_responses EXCEPT ![p] = @ \cup {<<v, decode(shards)>>}]
<1>1. currently_assembled \in [Peers -> [Vids -> [Sids -> Shards] \cup {Vacant}]]
  BY DEF TypeOK
<1>2. \E x \in {shards, Vacant} : currently_assembled' = [currently_assembled EXCEPT ![p][v] = x]
  BY DEF collect
<1>3. \A q \in Peers, w \in Vids : (q # p \/ w # v) =>
        currently_assembled'[q][w] = currently_assembled[q][w]
  BY <1>1, <1>2
<1> QED
  BY <1>3 DEF collect

(* Every action keeps recollections justified. *)
LEMMA RecollectingNext ==
  ASSUME TypeOK, RecollectingInv, [Next]_vars PROVE RecollectingInv'
<1> USE DEF memory, network, users
<1>1. ASSUME NEW p \in Peers, NEW v \in Vids, Get(p, v) PROVE RecollectingInv'
  <2> DEFINE shards == [s \in Sids |-> IF data_known_locations[p][v][s] = p
                                       THEN get_shard(p, v, s) ELSE NoShard]
  <2>1. /\ collect(p, v, shards) /\ UNCHANGED data_known_locations
        /\ Cardinality(KnownSids(p, v)) >= K
    BY <1>1 DEF Get
  <2> HIDE DEF shards
  <2>2. \A q \in Peers, w \in Vids : (q # p \/ w # v) =>
          currently_assembled'[q][w] = currently_assembled[q][w]
    BY <2>1, CollectEffect
  <2> QED
    BY <2>1, <2>2, RecollectingKept
<1>2. ASSUME NEW r \in responses, HandleAssignedResponse(r) PROVE RecollectingInv'
  <2> DEFINE shards == [currently_assembled[r.to][r.vid] EXCEPT ![r.sid] = r.shard]
  <2>1. r.to \in Peers /\ r.vid \in Vids
    BY DEF TypeOK, Responses
  <2>2. /\ UNCHANGED data_known_locations
        /\ \/ UNCHANGED currently_assembled
           \/ currently_assembled[r.to][r.vid] # Vacant /\ collect(r.to, r.vid, shards)
    BY <1>2 DEF HandleAssignedResponse, handle_assigned_response
  <2> HIDE DEF shards
  <2>3. CASE UNCHANGED currently_assembled
    BY <2>2, <2>3, RecollectingKept
  <2>4. CASE currently_assembled[r.to][r.vid] # Vacant /\ collect(r.to, r.vid, shards)
    <3>1. \A q \in Peers, w \in Vids : (q # r.to \/ w # r.vid) =>
            currently_assembled'[q][w] = currently_assembled[q][w]
      BY <2>1, <2>4, CollectEffect
    <3> QED
      BY <2>2, <2>4, <3>1, RecollectingKept
  <2> QED
    BY <2>2, <2>3, <2>4
<1>3. ASSUME UNCHANGED currently_assembled,
             NEW p \in Peers, NEW v \in Vids, NEW s \in Sids, NEW a \in Peers,
             data_known_locations' = [data_known_locations EXCEPT ![p][v][s] = a]
      PROVE  RecollectingInv'
  <2>1. data_known_locations \in [Peers -> [Vids -> [Sids -> Peers \cup {NoPeer}]]]
    BY DEF TypeOK
  <2>2. \A q \in Peers, w \in Vids, u \in Sids : data_known_locations'[q][w][u] \in
          {a, data_known_locations[q][w][u]}
    BY <1>3, <2>1
  <2> QED
    BY <1>3, <2>2, SentinelAssumption, RecollectingKept
<1>4. CASE UNCHANGED <<currently_assembled, data_known_locations>>
  BY <1>4, RecollectingKept
<1>5. ASSUME NEW p \in Peers, NEW a \in Peers, RecognizeStored(p, a) PROVE RecollectingInv'
  <2>1. RecognizedTx(p, a).vid \in Vids /\ RecognizedTx(p, a).sid \in Sids
    BY <1>5, RecognizedType, TransactionTypes DEF RecognizeStored
  <2>2. /\ UNCHANGED currently_assembled
        /\ \/ UNCHANGED data_known_locations
           \/ data_known_locations' = [data_known_locations EXCEPT
                ![p][RecognizedTx(p, a).vid][RecognizedTx(p, a).sid] = a]
    BY <1>5 DEF RecognizeStored, observe_new_location
  <2> QED
    BY <1>3, <1>4, <2>1, <2>2
<1>6. ASSUME NEW p \in Peers, NEW a \in Peers, RecognizeExecuted(p, a) PROVE RecollectingInv'
  <2>1. RecognizedTx(p, a).vid \in Vids
    BY <1>6, RecognizedType, TransactionTypes DEF RecognizeExecuted
  <2>2. distribution[p][a] \in Sids \cup {NoSid}
    BY DEF TypeOK
  <2>3. /\ UNCHANGED currently_assembled
        /\ \/ UNCHANGED data_known_locations
           \/ /\ distribution[p][a] # NoSid
              /\ data_known_locations' = [data_known_locations EXCEPT
                   ![p][RecognizedTx(p, a).vid][distribution[p][a]] = a]
    BY <1>6 DEF RecognizeExecuted
  <2> QED
    BY <1>3, <1>4, <2>1, <2>2, <2>3
<1>7. ASSUME NEW p \in Peers,
             \/ InitializeStorage(p) \/ BusWrite(p) \/ Crash(p)
             \/ \E v \in PutVids, d \in Values : Put(p, v, d)
             \/ \E a \in Peers : RecognizeInitializeStorage(p, a) \/ RecognizeStorageRequest(p, a)
             \/ \E prog \in Programs : RunProgram(p, prog)
      PROVE  RecollectingInv'
  BY <1>7, <1>4 DEF InitializeStorage, BusWrite, Crash, Put, RecognizeInitializeStorage,
                    RecognizeStorageRequest, RunProgram
<1>8. ASSUME \/ \E r \in requests : HandleRequest(r)
             \/ \E r \in responses : HandleServeShardResponse(r)
             \/ LoseMessage
             \/ UNCHANGED vars
      PROVE  RecollectingInv'
  BY <1>8, <1>4 DEF HandleRequest, HandleServeShardResponse, LoseMessage, vars
<1> QED
  BY <1>1, <1>2, <1>5, <1>6, <1>7, <1>8, CommandAssumption DEF Next, Recognize

(* What users were told and shown, as SharedMemory records it. *)
confirmed_pairs == {c \in Peers \X Vids : put_confirmed[c[1]][c[2]] > 0}
answer_triples == UNION {{<<p, r[1], r[2]>> : r \in get_responses[p]} : p \in Peers}

(* The variables of the abstract memory depend on these four only. *)
LEMMA MemoryKept ==
  ASSUME UNCHANGED <<put_value, local_storage, put_confirmed, get_responses>>
  PROVE  UNCHANGED Memory!vars
BY DEF Memory!vars, stored_shards

(* The stored parts of an address, whatever else happens to it. *)
LEMMA StoredKept ==
  ASSUME UNCHANGED <<put_value, local_storage>> PROVE UNCHANGED stored_shards
BY DEF stored_shards

(* The located shards of an address are stored parts of it, so an address  *)
(* with K known locations has K stored parts.                              *)
LEMMA LocatedAreStored ==
  ASSUME Plain = Vids, TypeOK, WriteOnceInv, NEW p \in Peers, NEW v \in Vids
  PROVE  /\ KnownSids(p, v) \subseteq stored_shards[v]
         /\ Cardinality(KnownSids(p, v)) >= K => Cardinality(stored_shards[v]) >= K
<1>1. KnownSids(p, v) \subseteq stored_shards[v]
  <2> SUFFICES ASSUME NEW s \in KnownSids(p, v)
               PROVE  /\ s \in Sids /\ put_value[v] # NoShard
                      /\ \E q \in Peers : local_storage[q][v][s] = put_value[v]
    BY DEF stored_shards
  <2> DEFINE q == data_known_locations[p][v][s]
  <2>1. s \in Sids /\ q \in Peers /\ q # NoPeer
    BY DEF KnownSids, TypeOK
  <2>2. local_storage[q][v][s] # NoShard
    BY <2>1 DEF WriteOnceInv, KnownIsStored
  <2> HIDE DEF q
  <2> QED
    BY <2>1, <2>2 DEF WriteOnceInv, HeldIsPut
<1>2. stored_shards[v] \subseteq Sids
  BY DEF stored_shards
<1> DEFINE S == KnownSids(p, v)
<1> DEFINE T == stored_shards[v]
<1> HIDE DEF S, T
<1>3. Cardinality(S) \in Nat /\ Cardinality(T) \in Nat /\ Cardinality(S) <= Cardinality(T)
  <2>1. S \subseteq T /\ T \subseteq Sids
    BY <1>1, <1>2 DEF S, T
  <2> QED
    BY <2>1, SidsFinite
<1>4. Cardinality(S) >= K => Cardinality(T) >= K
  BY <1>3, CodeAssumption
<1> QED
  BY <1>1, <1>4 DEF S, T

(* A put to an address that has none is the abstract write. *)
LEMMA PutWrites ==
  ASSUME Plain = Vids, MaxPuts <= 1, TypeOK, WriteOnceInv,
         NEW p \in Commanders, NEW v \in PutVids, NEW d \in Values, Put(p, v, d)
  PROVE  v \in Vids /\ Memory!Write(v, d)
<1>1. v \in Vids
  BY CommandAssumption
<1>2. put_value[v] = NoShard
  <2>1. spent.puts[v] = 0
    BY <1>1, BoundAssumption DEF Put, TypeOK, Budgets
  <2> QED
    BY <1>1, <2>1 DEF WriteOnceInv, PutHistory
<1>3. /\ put_value' = [put_value EXCEPT ![v] = d]
      /\ UNCHANGED <<local_storage, put_confirmed, get_responses>>
  BY DEF Put
<1>4. d # NoShard
  BY SentinelAssumption
<1>5. \A q \in Peers, s \in Sids : local_storage[q][v][s] = NoShard
  BY <1>1, <1>2 DEF WriteOnceInv, HeldIsPut
<1>6. put_value'[v] = d /\ \A w \in Vids : w # v => put_value'[w] = put_value[w]
  BY <1>1, <1>3 DEF TypeOK
<1>7. \A w \in Vids :
        {s \in Sids : put_value'[w] # NoShard
           /\ \E q \in Peers : local_storage'[q][w][s] = put_value'[w]}
        = {s \in Sids : put_value[w] # NoShard
           /\ \E q \in Peers : local_storage[q][w][s] = put_value[w]}
  <2> SUFFICES ASSUME NEW w \in Vids, NEW s \in Sids
               PROVE  (/\ put_value'[w] # NoShard
                       /\ \E q \in Peers : local_storage'[q][w][s] = put_value'[w])
                      <=> (/\ put_value[w] # NoShard
                           /\ \E q \in Peers : local_storage[q][w][s] = put_value[w])
    OBVIOUS
  <2>1. CASE w = v
    BY <1>2, <1>3, <1>4, <1>5, <1>6, <2>1
  <2>2. CASE w # v
    BY <1>3, <1>6, <2>2
  <2> QED
    BY <2>1, <2>2
<1>8. stored_shards' = stored_shards
  BY <1>7 DEF stored_shards
<1> QED
  BY <1>1, <1>2, <1>3, <1>8 DEF Memory!Write

(* Storing the value put is the abstract store. *)
LEMMA StoresPart ==
  ASSUME TypeOK, NEW p \in Peers, NEW v \in Vids, NEW s \in Sids, put_value[v] # NoShard,
         local_storage' = [local_storage EXCEPT ![p][v][s] = put_value[v]],
         UNCHANGED <<put_value, put_confirmed, get_responses>>
  PROVE  Memory!Store(v, s)
<1>1. \A q \in Peers, w \in Vids, u \in Sids :
        local_storage'[q][w][u] = IF q = p /\ w = v /\ u = s THEN put_value[v]
                                  ELSE local_storage[q][w][u]
  <2>1. local_storage \in [Peers -> [Vids -> [Sids -> Shards]]]
    BY DEF TypeOK
  <2> QED
    BY <2>1
<1> DEFINE Is(w, u) == put_value[w] # NoShard
                       /\ \E q \in Peers : local_storage[q][w][u] = put_value[w]
<1> DEFINE IsNext(w, u) == put_value[w] # NoShard
                           /\ \E q \in Peers : local_storage'[q][w][u] = put_value[w]
<1>2. \A w \in Vids, u \in Sids : IsNext(w, u) <=> (Is(w, u) \/ (w = v /\ u = s))
  <2> SUFFICES ASSUME NEW w \in Vids, NEW u \in Sids
               PROVE  IsNext(w, u) <=> (Is(w, u) \/ (w = v /\ u = s))
    OBVIOUS
  <2>1. CASE w = v /\ u = s
    BY <1>1, <2>1
  <2>2. CASE ~(w = v /\ u = s)
    BY <1>1, <2>2
  <2> QED
    BY <2>1, <2>2
<1>3. /\ stored_shards = [w \in Vids |-> {u \in Sids : Is(w, u)}]
      /\ stored_shards' = [w \in Vids |-> {u \in Sids : IsNext(w, u)}]
  BY DEF stored_shards
<1> HIDE DEF Is, IsNext
<1>4. stored_shards' = [stored_shards EXCEPT ![v] = @ \cup {s}]
  <2>1. \A w \in Vids : {u \in Sids : IsNext(w, u)} =
          IF w = v THEN {u \in Sids : Is(w, u)} \cup {s} ELSE {u \in Sids : Is(w, u)}
    BY <1>2
  <2> DEFINE Now(w) == {u \in Sids : Is(w, u)}
             Then(w) == {u \in Sids : IsNext(w, u)}
  <2>2. /\ stored_shards = [w \in Vids |-> Now(w)] /\ stored_shards' = [w \in Vids |-> Then(w)]
        /\ \A w \in Vids : Then(w) = IF w = v THEN Now(w) \cup {s} ELSE Now(w)
    BY <1>3, <2>1
  <2> HIDE DEF Now, Then
  <2> QED
    BY <2>2
<1> QED
  BY <1>4 DEF Memory!Store

(* Storing a shard that was served is the abstract store; a missing shard  *)
(* changes nothing.                                                        *)
LEMMA ResponseStores ==
  ASSUME TypeOK, NEW p \in Peers, NEW v \in Vids, NEW s \in Sids,
         NEW shard \in {NoShard, put_value[v]},
         handle_serve_shard_response(p, v, s, shard),
         UNCHANGED <<put_value, put_confirmed, get_responses>>
  PROVE  UNCHANGED Memory!vars \/ Memory!Store(v, s)
<1>1. CASE shard = NoShard
  <2>1. UNCHANGED local_storage
    BY <1>1 DEF handle_serve_shard_response
  <2> QED
    BY <2>1, MemoryKept
<1>2. CASE shard # NoShard
  <2>1. local_storage' = [local_storage EXCEPT ![p][v][s] = shard]
    BY <1>2 DEF handle_serve_shard_response, store_shard
  <2> QED
    BY <1>2, <2>1, StoresPart
<1> QED
  BY <1>1, <1>2

(* Collecting shards while K locations are known answers, if at all, with  *)
(* the content of an address that is stored in K parts.                    *)
LEMMA CollectAnswers ==
  ASSUME Plain = Vids, TypeOK, WriteOnceInv, NEW p \in Peers, NEW v \in Vids,
         NEW shards \in [Sids -> Shards], \A s \in Sids : shards[s] \in {NoShard, put_value[v]},
         Cardinality(KnownSids(p, v)) >= K, collect(p, v, shards),
         UNCHANGED <<put_value, local_storage, put_confirmed>>
  PROVE  UNCHANGED Memory!vars \/ Memory!Answer(p, v)
<1>1. CASE UNCHANGED get_responses
  BY <1>1, MemoryKept
<1>2. CASE ~UNCHANGED get_responses
  <2>1. /\ Cardinality(Present(shards)) >= K
        /\ get_responses' = [get_responses EXCEPT ![p] = @ \cup {<<v, decode(shards)>>}]
    BY <1>2 DEF collect
  <2>2. decode(shards) = put_value[v]
    <3>1. Present(shards) # {}
      BY <2>1, FS_EmptySet, CodeAssumption
    <3>2. put_value[v] # NoShard
      BY <3>1 DEF Present
    <3>3. put_value[v] \in Values
      BY <3>2 DEF TypeOK, Shards
    <3>4. shards \in [Sids -> {NoShard, put_value[v]}]
      OBVIOUS
    <3> QED
      BY <2>1, <3>3, <3>4, DecodeValue
  <2> DEFINE x == put_value[v]
  <2>3. \A q \in Peers : get_responses'[q] =
          IF q = p THEN get_responses[q] \cup {<<v, x>>} ELSE get_responses[q]
    BY <2>1, <2>2 DEF TypeOK
  <2> HIDE DEF x
  <2>4. answer_triples' = answer_triples \cup {<<p, v, x>>}
    <3>1. \A q \in Peers : {<<q, r[1], r[2]>> : r \in get_responses'[q]} =
            IF q = p THEN {<<q, r[1], r[2]>> : r \in get_responses[q]} \cup {<<p, v, x>>}
            ELSE {<<q, r[1], r[2]>> : r \in get_responses[q]}
      <4> SUFFICES ASSUME NEW q \in Peers
                   PROVE  {<<q, r[1], r[2]>> : r \in get_responses'[q]} =
                            IF q = p THEN {<<q, r[1], r[2]>> : r \in get_responses[q]} \cup {<<p, v, x>>}
                            ELSE {<<q, r[1], r[2]>> : r \in get_responses[q]}
        OBVIOUS
      <4>1. CASE q = p
        <5>1. get_responses'[q] = get_responses[q] \cup {<<v, x>>}
          BY <2>3, <4>1
        <5>2. {<<q, r[1], r[2]>> : r \in get_responses[q] \cup {<<v, x>>}} =
                {<<q, r[1], r[2]>> : r \in get_responses[q]} \cup {<<q, v, x>>}
          <6> DEFINE G(r) == <<q, r[1], r[2]>>
          <6>1. PICK e : e = <<v, x>>
            OBVIOUS
          <6>2. G(e) = <<q, v, x>>
            BY <6>1
          <6> HIDE DEF G
          <6>3. {G(r) : r \in get_responses[q] \cup {e}} = {G(r) : r \in get_responses[q]} \cup {G(e)}
            OBVIOUS
          <6> QED
            BY <6>1, <6>2, <6>3 DEF G
        <5> QED
          BY <4>1, <5>1, <5>2
      <4>2. CASE q # p
        BY <2>3, <4>2
      <4> QED
        BY <4>1, <4>2
    <3> DEFINE A(q) == {<<q, r[1], r[2]>> : r \in get_responses[q]}
    <3> DEFINE B(q) == {<<q, r[1], r[2]>> : r \in get_responses'[q]}
    <3>2. \A q \in Peers : B(q) = IF q = p THEN A(q) \cup {<<p, v, x>>} ELSE A(q)
      BY <3>1
    <3>3. answer_triples = UNION {A(q) : q \in Peers} /\ answer_triples' = UNION {B(q) : q \in Peers}
      BY DEF answer_triples
    <3> HIDE DEF A, B
    <3>4. \A t : t \in UNION {B(q) : q \in Peers} <=>
                   (t \in UNION {A(q) : q \in Peers} \/ t = <<p, v, x>>)
      BY <3>2
    <3> QED
      BY <3>3, <3>4
  <2>5. Cardinality(stored_shards[v]) >= K /\ UNCHANGED stored_shards
    BY LocatedAreStored, StoredKept
  <2> QED
    BY <2>4, <2>5 DEF Memory!Answer, Memory!Cardinality, Cardinality, answer_triples, x
<1> QED
  BY <1>1, <1>2

(* Telling PutConfirmed is the abstract confirmation: the last location    *)
(* that was missing is recognized, so every part is stored.                *)
LEMMA StoredConfirms ==
  ASSUME Plain = Vids, TypeOK, WriteOnceInv, TypeOK', WriteOnceInv',
         NEW p \in Peers, NEW a \in Peers, RecognizeStored(p, a)
  PROVE  UNCHANGED Memory!vars \/ Memory!Next
<1>0. PICK v : v = RecognizedTx(p, a).vid
  OBVIOUS
<1>1. UNCHANGED <<local_storage, put_value, get_responses>>
  BY DEF RecognizeStored
<1>2. v \in Vids
  BY <1>0, RecognizedType, TransactionTypes DEF RecognizeStored
<1>3. \/ UNCHANGED put_confirmed
      \/ put_confirmed' = [put_confirmed EXCEPT ![p][v] = @ + 1]
  BY <1>0 DEF RecognizeStored
<1>4. CASE UNCHANGED put_confirmed
  BY <1>1, <1>4, MemoryKept
<1>5. CASE put_confirmed' = [put_confirmed EXCEPT ![p][v] = @ + 1]
  <2>1. put_confirmed \in [Peers -> [Vids -> Nat]]
    BY DEF TypeOK
  <2>2. \A q \in Peers, w \in Vids : put_confirmed'[q][w] =
          IF q = p /\ w = v THEN put_confirmed[q][w] + 1 ELSE put_confirmed[q][w]
    BY <1>2, <1>5, <2>1
  <2>3. put_confirmed'[p][v] > 0
    <3>1. put_confirmed[p][v] \in Nat
      BY <1>2, <2>1
    <3> QED
      BY <1>2, <2>2, <3>1
  <2>4. confirmed_pairs' = confirmed_pairs \cup {<<p, v>>}
    <3>1. \A q \in Peers, w \in Vids : put_confirmed'[q][w] > 0 <=>
            (put_confirmed[q][w] > 0 \/ (q = p /\ w = v))
      BY <2>2, <2>3
    <3>2. \A c \in Peers \X Vids : put_confirmed'[c[1]][c[2]] > 0 <=>
            (put_confirmed[c[1]][c[2]] > 0 \/ c = <<p, v>>)
      <4> SUFFICES ASSUME NEW c \in Peers \X Vids
                   PROVE  put_confirmed'[c[1]][c[2]] > 0 <=>
                            (put_confirmed[c[1]][c[2]] > 0 \/ c = <<p, v>>)
        OBVIOUS
      <4>1. PICK q \in Peers, w \in Vids : c = <<q, w>>
        OBVIOUS
      <4>2. c[1] = q /\ c[2] = w /\ (c = <<p, v>> <=> q = p /\ w = v)
        BY <4>1
      <4> QED
        BY <3>1, <4>2
    <3>3. <<p, v>> \in Peers \X Vids
      BY <1>2
    <3> DEFINE P(c) == put_confirmed[c[1]][c[2]] > 0
    <3> DEFINE Q(c) == put_confirmed'[c[1]][c[2]] > 0
    <3>4. /\ confirmed_pairs = {c \in Peers \X Vids : P(c)}
          /\ confirmed_pairs' = {c \in Peers \X Vids : Q(c)}
          /\ \A c \in Peers \X Vids : Q(c) <=> (P(c) \/ c = <<p, v>>)
      BY <3>2 DEF confirmed_pairs
    <3> HIDE DEF P, Q
    <3> QED
      BY <3>3, <3>4
  <2>5. stored_shards[v] = Sids
    <3>1. \A u \in Sids : data_known_locations'[p][v][u] # NoPeer
      BY <1>2, <2>3 DEF WriteOnceInv, ConfirmedIsKnown
    <3>2. \A u \in Sids : u \in KnownSids(p, v)'
      BY <3>1 DEF KnownSids
    <3>3. KnownSids(p, v)' \subseteq stored_shards'[v]
      <4> SUFFICES ASSUME NEW u \in Sids
                   PROVE  put_value'[v] # NoShard
                          /\ \E q \in Peers : local_storage'[q][v][u] = put_value'[v]
        BY <1>2 DEF stored_shards, KnownSids
      <4> DEFINE q == data_known_locations'[p][v][u]
      <4>1. q \in Peers /\ q # NoPeer
        BY <1>2, <3>1 DEF TypeOK
      <4>2. local_storage'[q][v][u] # NoShard
        BY <1>2, <4>1 DEF WriteOnceInv, KnownIsStored
      <4> HIDE DEF q
      <4> QED
        BY <1>2, <4>1, <4>2 DEF WriteOnceInv, HeldIsPut
    <3>4. stored_shards' = stored_shards
      BY <1>1, StoredKept
    <3>5. stored_shards[v] \subseteq Sids
      BY <1>2 DEF stored_shards
    <3> QED
      BY <3>2, <3>3, <3>4, <3>5
  <2>6. UNCHANGED stored_shards
    BY <1>1, StoredKept
  <2>7. Memory!Confirm(p, v)
    BY <1>1, <2>4, <2>5, <2>6 DEF Memory!Confirm, Memory!Parts, Sids, confirmed_pairs
  <2> QED
    BY <1>2, <2>7 DEF Memory!Next
<1> QED
  BY <1>3, <1>4, <1>5

(* Every step of the data memory is a step of the abstract memory, or      *)
(* leaves it alone.                                                        *)
LEMMA StepRefines ==
  ASSUME MaxPuts <= 1, Programs = {}, TypeOK, WriteOnceInv, RecollectingInv,
         TypeOK', WriteOnceInv', [Next]_vars
  PROVE  [Memory!Next]_(Memory!vars)
<1> USE DEF memory, network, users
<1>0. Plain = Vids
  BY PlainVids
<1>1. ASSUME NEW p \in Commanders, NEW v \in PutVids, NEW d \in Values, Put(p, v, d)
      PROVE  Memory!Next
  <2>1. v \in Vids /\ Memory!Write(v, d)
    BY <1>0, <1>1, PutWrites
  <2> QED
    BY <2>1 DEF Memory!Next
<1>2. ASSUME NEW p \in Peers, NEW v \in Vids, Get(p, v)
      PROVE  UNCHANGED Memory!vars \/ Memory!Next
  <2> DEFINE shards == [s \in Sids |-> IF data_known_locations[p][v][s] = p
                                       THEN get_shard(p, v, s) ELSE NoShard]
  <2>1. /\ collect(p, v, shards) /\ Cardinality(KnownSids(p, v)) >= K
        /\ UNCHANGED <<put_value, local_storage, put_confirmed>>
    BY <1>2 DEF Get
  <2>2. shards \in [Sids -> Shards]
    BY DEF TypeOK, get_shard, Shards
  <2>3. \A s \in Sids : shards[s] \in {NoShard, put_value[v]}
    BY <1>0 DEF WriteOnceInv, HeldIsPut, get_shard
  <2> HIDE DEF shards
  <2>4. UNCHANGED Memory!vars \/ Memory!Answer(p, v)
    BY <1>0, <2>1, <2>2, <2>3, CollectAnswers
  <2> QED
    BY <2>4 DEF Memory!Next
<1>3. ASSUME NEW p \in Peers, NEW a \in Peers, RecognizeStorageRequest(p, a)
      PROVE  UNCHANGED Memory!vars \/ Memory!Next
  <2>0. PICK v, s : v = RecognizedTx(p, a).vid /\ s = assigned_shard_id(p)
    OBVIOUS
  <2>1. UNCHANGED <<put_value, put_confirmed, get_responses>>
    BY <1>3 DEF RecognizeStorageRequest
  <2>2. v \in Vids
    BY <1>3, <2>0, RecognizedType, TransactionTypes DEF RecognizeStorageRequest
  <2>3. s \in Sids \cup {NoSid}
    BY <2>0 DEF assigned_shard_id, TypeOK
  <2>4. \/ UNCHANGED local_storage
        \/ s # NoSid /\ handle_serve_shard_response(p, v, s, serve_shard(p, v, s))
    BY <1>3, <2>0 DEF RecognizeStorageRequest
  <2>5. CASE UNCHANGED local_storage
    BY <2>1, <2>5, MemoryKept
  <2>6. CASE s # NoSid /\ handle_serve_shard_response(p, v, s, serve_shard(p, v, s))
    <3>1. s \in Sids /\ serve_shard(p, v, s) \in {NoShard, put_value[v]}
      BY <1>0, <2>2, <2>3, <2>6 DEF WriteOnceInv, HeldIsPut, serve_shard
    <3>2. UNCHANGED Memory!vars \/ Memory!Store(v, s)
      BY <2>1, <2>2, <2>6, <3>1, ResponseStores
    <3> QED
      BY <2>2, <3>1, <3>2 DEF Memory!Next, Memory!Parts, Sids
  <2> QED
    BY <2>4, <2>5, <2>6
<1>4. ASSUME NEW p \in Peers, NEW a \in Peers, RecognizeStored(p, a)
      PROVE  UNCHANGED Memory!vars \/ Memory!Next
  BY <1>0, <1>4, StoredConfirms
<1>5. ASSUME NEW r \in responses, HandleServeShardResponse(r)
      PROVE  UNCHANGED Memory!vars \/ Memory!Next
  <2>1. UNCHANGED <<put_value, put_confirmed, get_responses>>
    BY <1>5 DEF HandleServeShardResponse
  <2>2. r.to \in Peers /\ r.vid \in Vids /\ r.sid \in Sids
    BY DEF TypeOK, Responses
  <2>3. /\ r.shard \in {NoShard, put_value[r.vid]}
        /\ handle_serve_shard_response(r.to, r.vid, r.sid, r.shard)
    BY <1>0, <1>5, <2>2 DEF HandleServeShardResponse, WriteOnceInv, HeldIsPut
  <2>4. UNCHANGED Memory!vars \/ Memory!Store(r.vid, r.sid)
    BY <2>1, <2>2, <2>3, ResponseStores
  <2> QED
    BY <2>2, <2>4 DEF Memory!Next, Memory!Parts, Sids
<1>6. ASSUME NEW r \in responses, HandleAssignedResponse(r)
      PROVE  UNCHANGED Memory!vars \/ Memory!Next
  <2> DEFINE entry == currently_assembled[r.to][r.vid]
  <2> DEFINE shards == [entry EXCEPT ![r.sid] = r.shard]
  <2>1. UNCHANGED <<put_value, local_storage, put_confirmed>>
    BY <1>6 DEF HandleAssignedResponse
  <2>2. r.to \in Peers /\ r.vid \in Vids /\ r.sid \in Sids /\ r.shard \in Shards
    BY DEF TypeOK, Responses
  <2>3. \/ UNCHANGED get_responses
        \/ entry # Vacant /\ collect(r.to, r.vid, shards)
    BY <1>6 DEF HandleAssignedResponse, handle_assigned_response
  <2>4. entry # Vacant => /\ entry \in [Sids -> Shards]
                          /\ \A s \in Sids : entry[s] \in {NoShard, put_value[r.vid]}
                          /\ Cardinality(KnownSids(r.to, r.vid)) >= K
    BY <1>0, <2>2 DEF TypeOK, WriteOnceInv, HeldIsPut, RecollectingInv
  <2>5. r.shard \in {NoShard, put_value[r.vid]}
    BY <1>0, <2>2 DEF WriteOnceInv, HeldIsPut
  <2> HIDE DEF entry
  <2>6. entry # Vacant => /\ shards \in [Sids -> Shards]
                          /\ \A s \in Sids : shards[s] \in {NoShard, put_value[r.vid]}
    BY <2>2, <2>4, <2>5
  <2> HIDE DEF shards
  <2>7. CASE UNCHANGED get_responses
    BY <2>1, <2>7, MemoryKept
  <2>8. CASE entry # Vacant /\ collect(r.to, r.vid, shards)
    <3>1. UNCHANGED Memory!vars \/ Memory!Answer(r.to, r.vid)
      BY <1>0, <2>1, <2>2, <2>4, <2>6, <2>8, CollectAnswers
    <3> QED
      BY <2>2, <3>1 DEF Memory!Next
  <2> QED
    BY <2>3, <2>7, <2>8
<1>7. ASSUME NEW p \in Peers,
             \/ InitializeStorage(p) \/ Crash(p)
             \/ \E a \in Peers : RecognizeInitializeStorage(p, a) \/ RecognizeExecuted(p, a)
      PROVE  UNCHANGED Memory!vars
  BY <1>7, MemoryKept DEF InitializeStorage, Crash, RecognizeInitializeStorage, RecognizeExecuted
<1>8. ASSUME NEW p \in Peers, BusWrite(p) PROVE UNCHANGED Memory!vars \/ Memory!Next
  <2> DEFINE w == Head(bus_writes[p])
  <2>1. UNCHANGED <<put_value, put_confirmed, get_responses>>
    BY <1>8 DEF BusWrite
  <2>2. w[1] \in Vids /\ put_value[w[1]] = w[2] /\ w[2] # NoShard
    <3>1. w = bus_writes[p][1] /\ 1 \in 1 .. Len(bus_writes[p])
      <4> DEFINE W == Vids \X Values
      <4>1. bus_writes[p] \in Seq(W) /\ bus_writes[p] # <<>>
        BY <1>8 DEF BusWrite, TypeOK
      <4> HIDE DEF W
      <4> QED
        BY <4>1
    <3> QED
      BY <1>0, <3>1, WriteType, SentinelAssumption DEF WriteOnceInv, WritesArePut
  <2>3. \/ UNCHANGED local_storage
        \/ /\ assigned_shard_id(p) \in Sids
           /\ local_storage' = [local_storage EXCEPT ![p][w[1]][assigned_shard_id(p)] = w[2]]
    BY <1>8 DEF BusWrite, store_shard, assigned_shard_id, TypeOK
  <2> HIDE DEF w
  <2>4. CASE UNCHANGED local_storage
    BY <2>1, <2>4, MemoryKept
  <2>5. CASE /\ assigned_shard_id(p) \in Sids
             /\ local_storage' = [local_storage EXCEPT ![p][w[1]][assigned_shard_id(p)] = w[2]]
    <3>1. Memory!Store(w[1], assigned_shard_id(p))
      BY <2>1, <2>2, <2>5, StoresPart
    <3> QED
      BY <2>2, <2>5, <3>1 DEF Memory!Next, Memory!Parts, Sids
  <2> QED
    BY <2>3, <2>4, <2>5
<1>9. ASSUME \/ \E r \in requests : HandleRequest(r)
             \/ LoseMessage
             \/ UNCHANGED vars
      PROVE  UNCHANGED Memory!vars
  BY <1>9, MemoryKept DEF HandleRequest, LoseMessage, vars
<1> QED
  BY <1>1, <1>2, <1>3, <1>4, <1>5, <1>6, <1>7, <1>8, <1>9, CommandAssumption DEF Next, Recognize

(* If every address is put at most once and no programs run, the peers'    *)
(* memories together implement the write-once memory of SharedMemory, for  *)
(* every code, every number of peers and whatever is lost, crashes or is   *)
(* delivered late: nothing is confirmed before all N parts are stored,     *)
(* nothing is shown to a user but the content of an address stored in K    *)
(* parts, and no part that was stored is lost.                             *)
THEOREM RefinesSharedMemory ==
  ASSUME MaxPuts <= 1, Programs = {}
  PROVE  Spec => ImplementsSharedMemory
<1>1. Init => Memory!Init
  <2> SUFFICES ASSUME Init PROVE Memory!Init
    OBVIOUS
  <2>1. put_value = [v \in Vids |-> NoShard]
    BY DEF Init
  <2>2. stored_shards = [v \in Vids |-> {}]
    BY <2>1 DEF stored_shards
  <2>3. {c \in Peers \X Vids : put_confirmed[c[1]][c[2]] > 0} = {}
    BY DEF Init
  <2>4. UNION {{<<p, r[1], r[2]>> : r \in get_responses[p]} : p \in Peers} = {}
    BY DEF Init
  <2> QED
    BY <2>1, <2>2, <2>3, <2>4 DEF Memory!Init
<1>2. Init => RecollectingInv
  BY DEF Init, RecollectingInv
<1>3. TypeOK /\ RecollectingInv /\ [Next]_vars => RecollectingInv'
  BY RecollectingNext
<1>4. (TypeOK /\ WriteOnceInv /\ RecollectingInv /\ TypeOK' /\ WriteOnceInv' /\ [Next]_vars)
        => [Memory!Next]_(Memory!vars)
  BY StepRefines
<1>5. Spec => [](TypeOK /\ WriteOnceInv)
  BY NoProgramsSafe
<1> QED
  BY <1>1, <1>2, <1>3, <1>4, <1>5, PTL DEF Spec, ImplementsSharedMemory, Memory!Spec

-----------------------------------------------------------------------------
(* Programs that compute new addresses from addresses that are put.        *)

(* A result is not put, is no operand and is computed by one program. *)
OneStage ==
  /\ \A prog \in Programs : prog.result \notin PutVids
  /\ \A f, g \in Programs : f.result # g.operand /\ (f.result = g.result => f = g)

(* What belongs to an address: the value computed, if a program computes   *)
(* it, or the value put.                                                   *)
IsResult(v) == \E prog \in Programs : prog.result = v
Computes(prog, d) ==
  put_value[prog.operand] # NoShard /\ d = prog.calculate[put_value[prog.operand]]
Due(v, d) == IF IsResult(v) THEN \E prog \in Programs : prog.result = v /\ Computes(prog, d)
                            ELSE d = put_value[v]

(* Somebody has a shard of `d` for an address: a memory, a recollection, a *)
(* response or a write that waits in a memory bus.                         *)
Assembles(v, d) == \E p \in Peers, s \in Sids :
  currently_assembled[p][v] # Vacant /\ currently_assembled[p][v][s] = d
Writes(v, d) == \E p \in Peers : \E i \in 1 .. Len(bus_writes[p]) : bus_writes[p][i] = <<v, d>>
Holds(v, d) ==
  \/ \E p \in Peers, s \in Sids : local_storage[p][v][s] = d \/ to_distribute[p][v][s] = d
  \/ Assembles(v, d)
  \/ \E r \in responses : r.vid = v /\ r.shard = d
  \/ Writes(v, d)

ComputedInv ==
  /\ PutHistory
  /\ \A v \in Vids, d \in Values : Holds(v, d) => Due(v, d)
  /\ \A p \in Peers : \A r \in get_responses[p] : Due(r[1], r[2])

(* What a step may do: put at an address that is empty, pass on what       *)
(* somebody holds, add what is due, and answer with what is due.           *)
ValueStep ==
  /\ PutHistory'
  /\ \A v \in Vids : put_value[v] # NoShard => put_value'[v] = put_value[v]
HoldStep == \A v \in Vids, d \in Values : Holds(v, d)' => Holds(v, d) \/ Due(v, d)'
AnswerStep == \A p \in Peers : \A r \in get_responses'[p] :
  r \in get_responses[p] \/ (r[1] \in Vids /\ r[2] \in Values /\ Due(r[1], r[2]))

(* What is due stays due. *)
LEMMA DueKept ==
  ASSUME ValueStep, NEW v \in Vids, NEW d, d # NoShard, Due(v, d)
  PROVE  Due(v, d)'
<1>1. CASE IsResult(v)
  <2>1. PICK prog \in Programs : prog.result = v /\ Computes(prog, d)
    BY <1>1 DEF Due
  <2>2. prog.operand \in Vids
    BY CommandAssumption
  <2>3. Computes(prog, d)'
    BY <2>1, <2>2 DEF Computes, ValueStep
  <2> QED
    BY <1>1, <2>1, <2>3 DEF Due, IsResult
<1>2. CASE ~IsResult(v)
  BY <1>2 DEF Due, IsResult, ValueStep
<1> QED
  BY <1>1, <1>2

(* One value is due at an address. *)
LEMMA DueUnique ==
  ASSUME OneStage, NEW v, NEW d, NEW e, Due(v, d), Due(v, e)
  PROVE  d = e
BY DEF OneStage, Due, Computes

(* A step of this shape keeps the invariant. *)
LEMMA ComputedShape ==
  ASSUME TypeOK, ComputedInv, ValueStep, HoldStep, AnswerStep
  PROVE  ComputedInv'
<1>1. ASSUME NEW v \in Vids, NEW d \in Values, Holds(v, d)' PROVE Due(v, d)'
  <2>1. d # NoShard
    BY SentinelAssumption
  <2>2. Holds(v, d) => Due(v, d)
    BY DEF ComputedInv
  <2> QED
    BY <1>1, <2>1, <2>2, DueKept DEF HoldStep
<1>2. ASSUME NEW p \in Peers, NEW r \in get_responses'[p] PROVE Due(r[1], r[2])'
  <2>1. CASE r \in get_responses[p]
    <3>1. r[1] \in Vids /\ r[2] # NoShard
      BY <2>1, SentinelAssumption DEF TypeOK
    <3>2. PICK v, d : v = r[1] /\ d = r[2]
      OBVIOUS
    <3>3. Due(v, d)
      BY <2>1, <3>2 DEF ComputedInv
    <3>4. Due(v, d)'
      BY <3>1, <3>2, <3>3, DueKept
    <3> QED
      BY <3>2, <3>4
  <2>2. CASE r[1] \in Vids /\ r[2] \in Values /\ Due(r[1], r[2])
    BY <2>2, SentinelAssumption, DueKept
  <2> QED
    BY <2>1, <2>2 DEF AnswerStep
<1> QED
  BY <1>1, <1>2 DEF ComputedInv, ValueStep

(* Shards that are due decode to what is due. *)
LEMMA CollectDue ==
  ASSUME TypeOK, ComputedInv, OneStage, NEW p \in Peers, NEW v \in Vids,
         NEW shards \in [Sids -> Shards],
         \A s \in Sids : shards[s] # NoShard => Holds(v, shards[s]),
         collect(p, v, shards)
  PROVE  /\ \A w \in Vids, d \in Values : Assembles(w, d)' => Holds(w, d)
         /\ AnswerStep
<1>1. currently_assembled \in [Peers -> [Vids -> [Sids -> Shards] \cup {Vacant}]]
  BY DEF TypeOK
<1>2. ASSUME NEW w \in Vids, NEW d \in Values, Assembles(w, d)' PROVE Holds(w, d)
  <2>1. \E x \in {shards, Vacant} : currently_assembled' = [currently_assembled EXCEPT ![p][v] = x]
    BY DEF collect
  <2>2. \A q \in Peers, u \in Vids : (q # p \/ u # v) =>
          currently_assembled'[q][u] = currently_assembled[q][u]
    BY <1>1, <2>1
  <2>3. currently_assembled'[p][v] \in {shards, Vacant}
    BY <1>1, <2>1
  <2>4. PICK q \in Peers, s \in Sids :
          currently_assembled'[q][w] # Vacant /\ currently_assembled'[q][w][s] = d
    BY <1>2 DEF Assembles
  <2>5. CASE q # p \/ w # v
    BY <2>2, <2>4, <2>5 DEF Holds, Assembles
  <2>6. CASE q = p /\ w = v
    <3>1. shards[s] = d /\ d # NoShard
      BY <2>3, <2>4, <2>6, SentinelAssumption
    <3> QED
      BY <2>6, <3>1
  <2> QED
    BY <2>5, <2>6
<1>3. ASSUME Cardinality(Present(shards)) >= K
      PROVE  decode(shards) \in Values /\ Due(v, decode(shards))
  <2>1. Present(shards) # {}
    BY <1>3, FS_EmptySet, CodeAssumption
  <2>2. PICK t \in Sids : shards[t] # NoShard
    BY <2>1 DEF Present
  <2>3. PICK d : d = shards[t]
    OBVIOUS
  <2>4. d \in Values /\ Due(v, d)
    BY <2>2, <2>3 DEF Shards, ComputedInv
  <2>5. \A s \in Sids : shards[s] \in {NoShard, d}
    <3> SUFFICES ASSUME NEW s \in Sids, shards[s] # NoShard PROVE shards[s] = d
      OBVIOUS
    <3>1. shards[s] \in Values /\ Due(v, shards[s])
      BY DEF Shards, ComputedInv
    <3> QED
      BY <2>4, <3>1, DueUnique
  <2>6. shards \in [Sids -> {NoShard, d}]
    BY <2>5
  <2>7. decode(shards) = d
    BY <1>3, <2>4, <2>6, DecodeValue
  <2> QED
    BY <2>4, <2>7
<1>4. AnswerStep
  <2>1. get_responses \in [Peers -> SUBSET (Vids \X (Values \cup {Mixed}))]
    BY DEF TypeOK
  <2>2. PICK e : e = decode(shards)
    OBVIOUS
  <2>3. \/ get_responses' = get_responses
        \/ /\ Cardinality(Present(shards)) >= K
           /\ get_responses' = [get_responses EXCEPT ![p] = @ \cup {<<v, e>>}]
    BY <2>2 DEF collect
  <2>4. \A q \in Peers : \A r \in get_responses'[q] :
          r \in get_responses[q] \/ (r = <<v, e>> /\ Cardinality(Present(shards)) >= K)
    BY <2>1, <2>3
  <2> QED
    BY <1>3, <2>2, <2>4 DEF AnswerStep
<1> QED
  BY <1>2, <1>4

(* A step that puts nothing changes no value. *)
LEMMA ValueKept ==
  ASSUME PutHistory, UNCHANGED <<put_value, put_author>>, spent'.puts = spent.puts
  PROVE  ValueStep
BY DEF ValueStep, PutHistory

(* Who holds nothing new passes on what is held. *)
LEMMA NothingHeld ==
  ASSUME UNCHANGED <<local_storage, currently_assembled, bus_writes>>,
         responses' \subseteq responses,
         \A p \in Peers, v \in Vids, s \in Sids :
           to_distribute'[p][v][s] = to_distribute[p][v][s] \/ to_distribute'[p][v][s] = NoShard
  PROVE  HoldStep
<1> SUFFICES ASSUME NEW v \in Vids, NEW d \in Values, Holds(v, d)' PROVE Holds(v, d)
  BY DEF HoldStep
<1>1. d # NoShard
  BY SentinelAssumption
<1>2. Assembles(v, d)' => Assembles(v, d)
  BY DEF Assembles
<1>3. Writes(v, d)' => Writes(v, d)
  BY DEF Writes
<1> QED
  BY <1>1, <1>2, <1>3 DEF Holds

(* A shard that is held may be stored anywhere. *)
LEMMA StoreHeld ==
  ASSUME TypeOK, NEW p \in Peers, NEW v \in Vids, NEW s \in Sids, NEW shard,
         Holds(v, shard), store_shard(p, v, s, shard)
  PROVE  \A q \in Peers, w \in Vids, t \in Sids : \A d :
           local_storage'[q][w][t] = d => local_storage[q][w][t] = d \/ Holds(w, d)
<1>1. local_storage \in [Peers -> [Vids -> [Sids -> Shards]]]
  BY DEF TypeOK
<1>2. \A q \in Peers, w \in Vids, t \in Sids :
        local_storage'[q][w][t] = IF q = p /\ w = v /\ t = s THEN shard
                                  ELSE local_storage[q][w][t]
  BY <1>1 DEF store_shard
<1> QED
  BY <1>2

(* Storing what is held, and announcing it, holds nothing new. *)
LEMMA ServeHeld ==
  ASSUME TypeOK, NEW p \in Peers, NEW v \in Vids, NEW s \in Sids, NEW shard,
         shard # NoShard => Holds(v, shard), handle_serve_shard_response(p, v, s, shard),
         UNCHANGED <<to_distribute, currently_assembled, bus_writes>>, responses' \subseteq responses
  PROVE  HoldStep
<1>1. CASE shard = NoShard
  BY <1>1, NothingHeld DEF handle_serve_shard_response
<1>2. CASE shard # NoShard
  <2> SUFFICES ASSUME NEW w \in Vids, NEW d \in Values, Holds(w, d)' PROVE Holds(w, d)
    BY DEF HoldStep
  <2>1. \A q \in Peers, t \in Sids :
          local_storage'[q][w][t] = d => local_storage[q][w][t] = d \/ Holds(w, d)
    BY <1>2, StoreHeld DEF handle_serve_shard_response
  <2>2. Assembles(w, d)' => Assembles(w, d)
    BY DEF Assembles
  <2>3. Writes(w, d)' => Writes(w, d)
    BY DEF Writes
  <2> QED
    BY <2>1, <2>2, <2>3 DEF Holds
<1> QED
  BY <1>1, <1>2

(* A program writes what it read and what it computed. *)
LEMMA ProgramHeld ==
  ASSUME TypeOK, ComputedInv, OneStage, NEW p \in Peers, NEW prog \in Programs,
         RunProgram(p, prog)
  PROVE  HoldStep
<1> USE DEF memory, network, users
<1>1. /\ UNCHANGED <<local_storage, to_distribute, currently_assembled, responses, put_value>>
      /\ prog.operand \in Vids /\ prog.result \in Vids
      /\ prog.calculate \in [Values -> Values] /\ prog.operand # prog.result
      /\ bus_writes \in [Peers -> Seq(Vids \X Values)]
  BY CommandAssumption DEF RunProgram, OneStage, TypeOK
<1>2. PICK operand : operand = prepare_context(p, prog)
  OBVIOUS
<1>3. PICK writes \in stored_context(prog, operand) :
        bus_writes' = [bus_writes EXCEPT ![p] = @ \o writes]
  BY <1>2 DEF RunProgram
<1>4. operand # NoShard => /\ operand \in Values /\ Holds(prog.operand, operand)
  <2> SUFFICES ASSUME operand # NoShard
               PROVE  operand \in Values /\ Holds(prog.operand, operand)
    OBVIOUS
  <2>1. assigned_shard_id(p) \in Sids \cup {NoSid}
    BY DEF assigned_shard_id, TypeOK
  <2>2. PICK s \in Sids : operand = local_storage[p][prog.operand][s]
    BY <1>2, <2>1 DEF prepare_context, get_shard
  <2>3. operand \in Values
    BY <1>1, <2>2 DEF TypeOK, Shards
  <2> QED
    BY <2>2, <2>3 DEF Holds
<1>5. operand # NoShard => Due(prog.result, prog.calculate[operand])
  <2> SUFFICES ASSUME operand # NoShard
               PROVE  Due(prog.result, prog.calculate[operand])
    OBVIOUS
  <2>1. Due(prog.operand, operand)
    BY <1>1, <1>4 DEF ComputedInv
  <2>2. ~IsResult(prog.operand)
    BY DEF IsResult, OneStage
  <2>3. operand = put_value[prog.operand]
    BY <2>1, <2>2 DEF Due
  <2>4. Computes(prog, prog.calculate[operand])
    BY <2>3 DEF Computes
  <2> QED
    BY <2>4 DEF Due, IsResult
<1>6. /\ writes \in Seq(Vids \X Values)
      /\ \A i \in 1 .. Len(writes) : /\ operand # NoShard
           /\ writes[i] \in {<<prog.operand, operand>>, <<prog.result, prog.calculate[operand]>>}
  <2>1. CASE operand = NoShard
    <3>1. writes = << >>
      BY <1>3, <2>1 DEF stored_context
    <3>2. Len(writes) = 0 /\ 1 .. 0 = {}
      BY <3>1
    <3> QED
      BY <3>1, <3>2
  <2>2. CASE operand # NoShard
    <3>1. PICK x, y : x = <<prog.operand, operand>> /\ y = <<prog.result, prog.calculate[operand]>>
      OBVIOUS
    <3>2. x \in Vids \X Values /\ y \in Vids \X Values
      BY <1>1, <1>4, <2>2, <3>1
    <3>3. writes = <<x, y>> \/ writes = <<y, x>>
      BY <1>1, <1>3, <2>2, <3>1 DEF stored_context
    <3>4. /\ writes \in Seq(Vids \X Values)
          /\ \A i \in 1 .. Len(writes) : writes[i] = x \/ writes[i] = y
      <4>1. CASE writes = <<x, y>>
        BY <3>2, <4>1
      <4>2. CASE writes = <<y, x>>
        BY <3>2, <4>2
      <4> QED
        BY <3>3, <4>1, <4>2
    <3> QED
      BY <2>2, <3>1, <3>4
  <2> QED
    BY <2>1, <2>2
<1>7. \A q \in Peers : \A i \in 1 .. Len(bus_writes'[q]) :
        \/ \E j \in 1 .. Len(bus_writes[q]) : bus_writes'[q][i] = bus_writes[q][j]
        \/ \E j \in 1 .. Len(writes) : bus_writes'[q][i] = writes[j]
  <2> SUFFICES ASSUME NEW q \in Peers, NEW i \in 1 .. Len(bus_writes'[q])
               PROVE  \/ \E j \in 1 .. Len(bus_writes[q]) : bus_writes'[q][i] = bus_writes[q][j]
                      \/ \E j \in 1 .. Len(writes) : bus_writes'[q][i] = writes[j]
    OBVIOUS
  <2>1. CASE q # p
    BY <1>1, <1>3, <2>1
  <2>2. CASE q = p
    <3>1. PICK b : b = bus_writes[p] /\ b \in Seq(Vids \X Values)
      BY <1>1
    <3>2. bus_writes'[p] = b \o writes
      BY <1>1, <1>3, <3>1
    <3>3. i \in 1 .. Len(b) + Len(writes) /\ Len(b) \in Nat /\ Len(writes) \in Nat
      BY <1>6, <2>2, <3>1, <3>2
    <3>4. CASE i <= Len(b)
      <4>1. i \in 1 .. Len(b) /\ (b \o writes)[i] = b[i]
        BY <1>6, <3>1, <3>3, <3>4
      <4> QED
        BY <2>2, <3>1, <3>2, <4>1
    <3>5. CASE i > Len(b)
      <4>1. i - Len(b) \in 1 .. Len(writes) /\ (b \o writes)[i] = writes[i - Len(b)]
        BY <1>6, <3>1, <3>3, <3>5
      <4> QED
        BY <2>2, <3>2, <4>1
    <3> QED
      BY <3>3, <3>4, <3>5
  <2> QED
    BY <2>1, <2>2
<1>8. ASSUME NEW v \in Vids, NEW d \in Values, Writes(v, d)' PROVE Holds(v, d) \/ Due(v, d)
  <2>0. PICK q \in Peers : \E i \in 1 .. Len(bus_writes'[q]) : bus_writes'[q][i] = <<v, d>>
    BY <1>8 DEF Writes
  <2>1. PICK i \in 1 .. Len(bus_writes'[q]) : bus_writes'[q][i] = <<v, d>>
    BY <2>0
  <2>2. CASE \E j \in 1 .. Len(bus_writes[q]) : bus_writes'[q][i] = bus_writes[q][j]
    BY <2>1, <2>2 DEF Holds, Writes
  <2>3. CASE \E j \in 1 .. Len(writes) : bus_writes'[q][i] = writes[j]
    <3>1. /\ operand # NoShard
          /\ <<v, d>> = <<prog.operand, operand>> \/ <<v, d>> = <<prog.result, prog.calculate[operand]>>
      BY <1>6, <2>1, <2>3
    <3>2. \/ v = prog.operand /\ d = operand
          \/ v = prog.result /\ d = prog.calculate[operand]
      BY <3>1
    <3> QED
      BY <1>4, <1>5, <3>1, <3>2
  <2> QED
    BY <1>7, <2>1, <2>2, <2>3
<1> SUFFICES ASSUME NEW v \in Vids, NEW d \in Values, Holds(v, d)'
             PROVE  Holds(v, d) \/ Due(v, d)'
  BY DEF HoldStep
<1>9. Assembles(v, d)' => Assembles(v, d)
  BY <1>1 DEF Assembles
<1>10. Due(v, d) => Due(v, d)'
  BY <1>1 DEF Due, Computes, IsResult
<1> QED
  BY <1>1, <1>8, <1>9, <1>10 DEF Holds

(* Every action keeps the invariant; one step per action. *)
LEMMA ComputedNext ==
  ASSUME MaxPuts <= 1, OneStage, TypeOK, ComputedInv, [Next]_vars
  PROVE  ComputedInv'
<1> USE DEF memory, network, users
<1>0. PutHistory
  BY DEF ComputedInv
<1>a. UNCHANGED get_responses => AnswerStep
  BY DEF AnswerStep
<1>b. SUFFICES ValueStep /\ HoldStep /\ AnswerStep
  BY ComputedShape
<1>1. ASSUME NEW p \in Commanders, InitializeStorage(p) PROVE ValueStep /\ HoldStep /\ AnswerStep
  <2>1. UNCHANGED <<memory, bus_writes, network, users>> /\ spent'.puts = spent.puts
    BY <1>1 DEF InitializeStorage, TypeOK, Budgets
  <2> QED
    BY <1>0, <1>a, <2>1, ValueKept, NothingHeld
<1>2. ASSUME NEW p \in Commanders, NEW v \in PutVids, NEW d \in Values, Put(p, v, d)
      PROVE  ValueStep /\ HoldStep /\ AnswerStep
  <2>1. /\ UNCHANGED <<local_storage, currently_assembled, bus_writes, network, get_responses>>
        /\ p \in Peers /\ v \in Vids
    BY <1>2, CommandAssumption DEF Put
  <2>2. put_value[v] = NoShard
    <3>1. spent.puts[v] \in Nat /\ spent.puts[v] < MaxPuts
      BY <1>2, <2>1 DEF Put, TypeOK, Budgets
    <3>2. spent.puts[v] = 0
      BY <3>1, BoundAssumption
    <3> QED
      BY <1>0, <2>1, <3>2 DEF PutHistory
  <2>3. /\ put_value' = [put_value EXCEPT ![v] = d]
        /\ put_author' = [put_author EXCEPT ![v] = p]
        /\ to_distribute' = [to_distribute EXCEPT ![p][v] = encode(d)]
    BY <1>2 DEF Put, prepare_to_serve_shards
  <2>4. /\ put_value'[v] = d /\ d # NoShard /\ put_author'[v] = p
        /\ \A w \in Vids : w # v => put_value'[w] = put_value[w] /\ put_author'[w] = put_author[w]
    BY <2>1, <2>3, SentinelAssumption DEF TypeOK
  <2>5. ValueStep
    <3>1. \A w \in Vids : spent'.puts[w] = IF w = v THEN spent.puts[v] + 1 ELSE spent.puts[w]
      BY <1>2 DEF Put, TypeOK, Budgets
    <3>2. \A w \in Vids : spent.puts[w] \in Nat
      BY DEF TypeOK, Budgets
    <3>3. PutHistory'
      BY <1>0, <2>1, <2>4, <3>1, <3>2 DEF PutHistory
    <3> QED
      BY <2>2, <2>4, <3>3 DEF ValueStep
  <2>6. \A q \in Peers, w \in Vids, s \in Sids :
          to_distribute'[q][w][s] = IF q = p /\ w = v THEN d ELSE to_distribute[q][w][s]
    <3>1. to_distribute \in [Peers -> [Vids -> [Sids -> Shards]]]
      BY DEF TypeOK
    <3> QED
      BY <2>1, <2>3, <3>1 DEF encode
  <2>7. Due(v, d)'
    <3>1. ~IsResult(v)
      BY DEF IsResult, OneStage
    <3> QED
      BY <2>4, <3>1 DEF Due, IsResult
  <2>8. HoldStep
    <3> SUFFICES ASSUME NEW w \in Vids, NEW e \in Values, Holds(w, e)'
                 PROVE  Holds(w, e) \/ Due(w, e)'
      BY DEF HoldStep
    <3>1. Assembles(w, e)' => Assembles(w, e)
      BY <2>1 DEF Assembles
    <3>2. Writes(w, e)' => Writes(w, e)
      BY <2>1 DEF Writes
    <3>3. ASSUME NEW q \in Peers, NEW s \in Sids, to_distribute'[q][w][s] = e
          PROVE  Holds(w, e) \/ Due(w, e)'
      <4>1. CASE q = p /\ w = v
        BY <2>6, <2>7, <3>3, <4>1
      <4>2. CASE ~ (q = p /\ w = v)
        BY <2>6, <3>3, <4>2 DEF Holds
      <4> QED
        BY <4>1, <4>2
    <3> QED
      BY <2>1, <3>1, <3>2, <3>3 DEF Holds
  <2> QED
    BY <1>a, <2>1, <2>5, <2>8
<1>3. ASSUME NEW p \in Peers, NEW v \in Vids, Get(p, v) PROVE ValueStep /\ HoldStep /\ AnswerStep
  <2> DEFINE shards == [s \in Sids |-> IF data_known_locations[p][v][s] = p
                                       THEN get_shard(p, v, s) ELSE NoShard]
  <2>1. UNCHANGED <<local_storage, to_distribute, bus_writes, put_value, put_author, responses>>
        /\ spent'.puts = spent.puts
    BY <1>3 DEF Get, MakeRequests, TypeOK, Budgets
  <2>2. collect(p, v, shards)
    BY <1>3 DEF Get
  <2>3. shards \in [Sids -> Shards]
    BY DEF TypeOK, get_shard, Shards
  <2>4. \A s \in Sids : shards[s] # NoShard => Holds(v, shards[s])
    BY DEF Holds, get_shard
  <2> HIDE DEF shards
  <2>5. /\ \A w \in Vids, d \in Values : Assembles(w, d)' => Holds(w, d)
        /\ AnswerStep
    BY <2>2, <2>3, <2>4, CollectDue
  <2>6. \A w \in Vids, d \in Values : Writes(w, d)' => Writes(w, d)
    BY <2>1 DEF Writes
  <2>7. HoldStep
    BY <2>1, <2>5, <2>6 DEF HoldStep, Holds
  <2> QED
    BY <1>0, <2>1, <2>5, <2>7, ValueKept
<1>4. ASSUME NEW p \in Peers, NEW a \in Peers, RecognizeInitializeStorage(p, a)
      PROVE  ValueStep /\ HoldStep /\ AnswerStep
  <2>1. UNCHANGED <<local_storage, to_distribute, currently_assembled, bus_writes, network,
                    users, spent>>
    BY <1>4 DEF RecognizeInitializeStorage
  <2> QED
    BY <1>0, <1>a, <2>1, ValueKept, NothingHeld
<1>5. ASSUME NEW p \in Peers, NEW a \in Peers, RecognizeStorageRequest(p, a)
      PROVE  ValueStep /\ HoldStep /\ AnswerStep
  <2>1. /\ UNCHANGED <<to_distribute, currently_assembled, bus_writes, users, spent>>
        /\ responses' = responses
    BY <1>5 DEF RecognizeStorageRequest, MakeRequests
  <2>2. RecognizedTx(p, a) \in Transactions /\ RecognizedTx(p, a).type = "StorageRequest"
    BY <1>5, RecognizedType DEF RecognizeStorageRequest
  <2>3. PICK v \in Vids : v = RecognizedTx(p, a).vid
    BY <2>2, TransactionTypes
  <2>4. PICK s : s = assigned_shard_id(p) /\ s \in Sids \cup {NoSid}
    BY DEF assigned_shard_id, TypeOK
  <2>5. \/ local_storage' = local_storage
        \/ s \in Sids /\ handle_serve_shard_response(p, v, s, serve_shard(p, v, s))
    BY <1>5, <2>3, <2>4 DEF RecognizeStorageRequest
  <2>6. HoldStep
    <3>1. CASE local_storage' = local_storage
      BY <2>1, <3>1, NothingHeld
    <3>2. CASE s \in Sids /\ handle_serve_shard_response(p, v, s, serve_shard(p, v, s))
      <4>1. Holds(v, serve_shard(p, v, s))
        BY <3>2 DEF Holds, serve_shard
      <4> QED
        BY <2>1, <3>2, <4>1, ServeHeld
    <3> QED
      BY <2>5, <3>1, <3>2
  <2> QED
    BY <1>0, <1>a, <2>1, <2>6, ValueKept
<1>6. ASSUME NEW p \in Peers, NEW a \in Peers, RecognizeStored(p, a)
      PROVE  ValueStep /\ HoldStep /\ AnswerStep
  <2>1. UNCHANGED <<local_storage, currently_assembled, bus_writes, network, put_value,
                    put_author, get_responses, spent>>
    BY <1>6 DEF RecognizeStored
  <2>2. RecognizedTx(p, a) \in Transactions /\ RecognizedTx(p, a).type = "Stored"
    BY <1>6, RecognizedType DEF RecognizeStored
  <2>3. PICK v \in Vids, s \in Sids : v = RecognizedTx(p, a).vid /\ s = RecognizedTx(p, a).sid
    BY <2>2, TransactionTypes
  <2>4. \/ to_distribute' = to_distribute
        \/ to_distribute' = [to_distribute EXCEPT ![p][v] = NoShards]
        \/ to_distribute' = [to_distribute EXCEPT ![p][v] = [@ EXCEPT ![s] = NoShard]]
    BY <1>6, <2>3 DEF RecognizeStored, observe_new_location
  <2>5. \A q \in Peers, w \in Vids, t \in Sids :
          to_distribute'[q][w][t] = to_distribute[q][w][t] \/ to_distribute'[q][w][t] = NoShard
    <3>1. to_distribute \in [Peers -> [Vids -> [Sids -> Shards]]]
      BY DEF TypeOK
    <3>2. CASE to_distribute' = to_distribute
      BY <3>2
    <3>3. CASE to_distribute' = [to_distribute EXCEPT ![p][v] = NoShards]
      BY <3>1, <3>3 DEF NoShards
    <3>4. CASE to_distribute' = [to_distribute EXCEPT ![p][v] = [@ EXCEPT ![s] = NoShard]]
      BY <3>1, <3>4
    <3> QED
      BY <2>4, <3>2, <3>3, <3>4
  <2> QED
    BY <1>0, <1>a, <2>1, <2>5, ValueKept, NothingHeld
<1>7. ASSUME NEW p \in Peers, NEW a \in Peers, RecognizeExecuted(p, a)
      PROVE  ValueStep /\ HoldStep /\ AnswerStep
  <2>1. UNCHANGED <<local_storage, to_distribute, currently_assembled, bus_writes, network,
                    users, spent>>
    BY <1>7 DEF RecognizeExecuted
  <2> QED
    BY <1>0, <1>a, <2>1, ValueKept, NothingHeld
<1>8. ASSUME NEW r \in requests, HandleRequest(r) PROVE ValueStep /\ HoldStep /\ AnswerStep
  <2>1. UNCHANGED <<memory, bus_writes, users, spent>>
    BY <1>8 DEF HandleRequest
  <2>2. r.to \in Peers /\ r.vid \in Vids /\ r.sid \in Sids
    BY DEF TypeOK, Requests
  <2>3. \A x \in responses' : x \in responses
          \/ (/\ x.vid = r.vid
              /\ x.shard \in {serve_shard(r.to, r.vid, r.sid), get_shard(r.to, r.vid, r.sid)})
    BY <1>8 DEF HandleRequest, Respond
  <2>4. HoldStep
    <3> SUFFICES ASSUME NEW w \in Vids, NEW d \in Values, Holds(w, d)' PROVE Holds(w, d)
      BY DEF HoldStep
    <3>1. Assembles(w, d)' => Assembles(w, d)
      BY <2>1 DEF Assembles
    <3>2. Writes(w, d)' => Writes(w, d)
      BY <2>1 DEF Writes
    <3>3. ASSUME NEW x \in responses', x.vid = w, x.shard = d PROVE Holds(w, d)
      <4>1. CASE x \in responses
        BY <3>3, <4>1 DEF Holds
      <4>2. CASE /\ x.vid = r.vid
                 /\ x.shard \in {serve_shard(r.to, r.vid, r.sid), get_shard(r.to, r.vid, r.sid)}
        BY <2>2, <3>3, <4>2 DEF Holds, serve_shard, get_shard
      <4> QED
        BY <2>3, <4>1, <4>2
    <3> QED
      BY <2>1, <3>1, <3>2, <3>3 DEF Holds
  <2> QED
    BY <1>0, <1>a, <2>1, <2>4, ValueKept
<1>9. ASSUME NEW r \in responses, HandleServeShardResponse(r)
      PROVE  ValueStep /\ HoldStep /\ AnswerStep
  <2>1. /\ UNCHANGED <<to_distribute, currently_assembled, bus_writes, users, spent>>
        /\ responses' \subseteq responses
        /\ handle_serve_shard_response(r.to, r.vid, r.sid, r.shard)
    BY <1>9 DEF HandleServeShardResponse
  <2>2. r.to \in Peers /\ r.vid \in Vids /\ r.sid \in Sids
    BY DEF TypeOK, Responses
  <2>3. Holds(r.vid, r.shard)
    BY DEF Holds
  <2>4. HoldStep
    BY <2>1, <2>2, <2>3, ServeHeld
  <2> QED
    BY <1>0, <1>a, <2>1, <2>4, ValueKept
<1>10. ASSUME NEW r \in responses, HandleAssignedResponse(r)
       PROVE  ValueStep /\ HoldStep /\ AnswerStep
  <2> DEFINE entry == currently_assembled[r.to][r.vid]
  <2>1. /\ UNCHANGED <<local_storage, to_distribute, bus_writes, put_value, put_author, spent>>
        /\ responses' \subseteq responses
    BY <1>10 DEF HandleAssignedResponse
  <2>2. r.to \in Peers /\ r.vid \in Vids /\ r.sid \in Sids /\ r.shard \in Shards
    BY DEF TypeOK, Responses
  <2>3. \/ UNCHANGED <<currently_assembled, get_responses>>
        \/ /\ entry # Vacant
           /\ collect(r.to, r.vid, [entry EXCEPT ![r.sid] = r.shard])
    BY <1>10 DEF HandleAssignedResponse, handle_assigned_response
  <2>4. entry # Vacant => entry \in [Sids -> Shards]
    BY <2>2 DEF TypeOK
  <2>5. entry # Vacant => \A s \in Sids : Holds(r.vid, entry[s])
    BY <2>2 DEF Holds, Assembles
  <2>6. Holds(r.vid, r.shard)
    BY DEF Holds
  <2> HIDE DEF entry
  <2>7. HoldStep /\ AnswerStep
    <3>1. CASE UNCHANGED <<currently_assembled, get_responses>>
      BY <1>a, <2>1, <3>1, NothingHeld
    <3>2. CASE entry # Vacant /\ collect(r.to, r.vid, [entry EXCEPT ![r.sid] = r.shard])
      <4>1. PICK shards : shards = [entry EXCEPT ![r.sid] = r.shard]
        OBVIOUS
      <4>2. shards \in [Sids -> Shards]
        BY <2>2, <2>4, <3>2, <4>1
      <4>3. \A s \in Sids : shards[s] = IF s = r.sid THEN r.shard ELSE entry[s]
        BY <2>2, <2>4, <3>2, <4>1
      <4>4. \A s \in Sids : Holds(r.vid, shards[s])
        BY <2>5, <2>6, <3>2, <4>3
      <4>5. collect(r.to, r.vid, shards)
        BY <3>2, <4>1
      <4>6. /\ \A w \in Vids, d \in Values : Assembles(w, d)' => Holds(w, d)
            /\ AnswerStep
        BY <2>2, <4>2, <4>4, <4>5, CollectDue
      <4>7. \A w \in Vids, d \in Values : Writes(w, d)' => Writes(w, d)
        BY <2>1 DEF Writes
      <4> QED
        BY <2>1, <4>6, <4>7 DEF HoldStep, Holds
    <3> QED
      BY <2>3, <3>1, <3>2
  <2> QED
    BY <1>0, <2>1, <2>7, ValueKept
<1>11. CASE LoseMessage
  <2>1. /\ UNCHANGED <<memory, bus_writes, users>> /\ spent'.puts = spent.puts
        /\ responses' \subseteq responses
    BY <1>11 DEF LoseMessage, TypeOK, Budgets
  <2> QED
    BY <1>0, <1>a, <2>1, ValueKept, NothingHeld
<1>12. ASSUME NEW p \in Peers, NEW prog \in Programs, RunProgram(p, prog)
       PROVE  ValueStep /\ HoldStep /\ AnswerStep
  <2>1. UNCHANGED <<users, spent>>
    BY <1>12 DEF RunProgram
  <2> QED
    BY <1>0, <1>a, <1>12, <2>1, ValueKept, ProgramHeld
<1>13. ASSUME NEW p \in Peers, BusWrite(p) PROVE ValueStep /\ HoldStep /\ AnswerStep
  <2>1. /\ UNCHANGED <<to_distribute, currently_assembled, responses, users, spent>>
        /\ bus_writes[p] # <<>> /\ bus_writes' = [bus_writes EXCEPT ![p] = Tail(@)]
    BY <1>13 DEF BusWrite
  <2>2. bus_writes \in [Peers -> Seq(Vids \X Values)]
    BY DEF TypeOK
  <2>3. PICK b : b = bus_writes[p] /\ b \in Seq(Vids \X Values) /\ b # <<>>
    BY <2>1, <2>2
  <2>4. /\ 1 \in 1 .. Len(b) /\ Head(b) = b[1] /\ Head(b) \in Vids \X Values
        /\ \A i \in 1 .. Len(Tail(b)) : i + 1 \in 1 .. Len(b) /\ Tail(b)[i] = b[i + 1]
    BY <2>3
  <2>5. PICK v \in Vids, d \in Values : Head(b) = <<v, d>>
    BY <2>4
  <2>6. Holds(v, d)
    BY <2>3, <2>4, <2>5 DEF Holds, Writes
  <2>7. PICK s : s = assigned_shard_id(p) /\ s \in Sids \cup {NoSid}
    BY DEF assigned_shard_id, TypeOK
  <2>8. local_storage' = local_storage \/ (s \in Sids /\ store_shard(p, v, s, d))
    BY <1>13, <2>3, <2>5, <2>7 DEF BusWrite
  <2>9. \A q \in Peers, w \in Vids, t \in Sids, e \in Values :
          local_storage'[q][w][t] = e => local_storage[q][w][t] = e \/ Holds(w, e)
    BY <2>6, <2>8, StoreHeld
  <2>10. \A w \in Vids, e \in Values : Writes(w, e)' => Writes(w, e)
    <3> SUFFICES ASSUME NEW w \in Vids, NEW e \in Values, NEW q \in Peers,
                        NEW i \in 1 .. Len(bus_writes'[q]), bus_writes'[q][i] = <<w, e>>
                 PROVE  Writes(w, e)
      BY DEF Writes
    <3>1. CASE q # p
      BY <2>1, <2>2, <3>1 DEF Writes
    <3>2. CASE q = p
      <4>1. bus_writes'[p] = Tail(b)
        BY <2>1, <2>2, <2>3
      <4>2. i + 1 \in 1 .. Len(b) /\ b[i + 1] = <<w, e>>
        BY <2>4, <3>2, <4>1
      <4> QED
        BY <2>3, <4>2 DEF Writes
    <3> QED
      BY <3>1, <3>2
  <2>11. HoldStep
    <3> SUFFICES ASSUME NEW w \in Vids, NEW e \in Values, Holds(w, e)' PROVE Holds(w, e)
      BY DEF HoldStep
    <3>1. Assembles(w, e)' => Assembles(w, e)
      BY <2>1 DEF Assembles
    <3> QED
      BY <2>1, <2>9, <2>10, <3>1 DEF Holds
  <2> QED
    BY <1>0, <1>a, <2>1, <2>11, ValueKept
<1>14. ASSUME NEW p \in Peers, Crash(p) PROVE ValueStep /\ HoldStep /\ AnswerStep
  <2>1. /\ UNCHANGED <<local_storage, to_distribute, currently_assembled, bus_writes,
                       network, users>>
        /\ spent'.puts = spent.puts
    BY <1>14 DEF Crash, TypeOK, Budgets
  <2> QED
    BY <1>0, <1>a, <2>1, ValueKept, NothingHeld
<1>15. CASE UNCHANGED vars
  <2>1. UNCHANGED <<memory, bus_writes, network, users, spent>>
    BY <1>15 DEF vars
  <2> QED
    BY <1>0, <1>a, <2>1, ValueKept, NothingHeld
<1> QED
  BY <1>1, <1>2, <1>3, <1>4, <1>5, <1>6, <1>7, <1>8, <1>9, <1>10, <1>11,
     <1>12, <1>13, <1>14, <1>15 DEF Next, Recognize

(* Initially nothing is held or answered. *)
LEMMA ComputedInit == Init => ComputedInv
<1> SUFFICES ASSUME Init PROVE ComputedInv
  OBVIOUS
<1>1. PutHistory
  BY DEF Init, PutHistory
<1>2. ASSUME NEW v \in Vids, NEW d \in Values, Holds(v, d) PROVE FALSE
  <2>1. d # NoShard
    BY SentinelAssumption
  <2>2. ~Writes(v, d)
    <3>1. \A p \in Peers : bus_writes[p] = <<>>
      BY DEF Init
    <3>2. 1 .. Len(<<>>) = {}
      OBVIOUS
    <3> QED
      BY <3>1, <3>2 DEF Writes
  <2>3. ~Assembles(v, d) /\ responses = {}
    BY DEF Init, Assembles
  <2>4. \A p \in Peers, s \in Sids : local_storage[p][v][s] = NoShard /\ to_distribute[p][v][s] = NoShard
    BY DEF Init, NoShards
  <2> QED
    BY <1>2, <2>1, <2>2, <2>3, <2>4 DEF Holds
<1>3. \A p \in Peers : get_responses[p] = {}
  BY DEF Init
<1> QED
  BY <1>1, <1>2, <1>3 DEF ComputedInv

(* With one put to an address, and programs that compute new addresses     *)
(* from those put, a recollected result is the program's function of the   *)
(* value put: every peer computes on its shard at its own time, writes the *)
(* operand back with the result, and answers others from what it has then, *)
(* with messages lost and peers stopped.                                   *)
THEOREM ComputationSafe ==
  ASSUME MaxPuts <= 1, OneStage
  PROVE  Spec => []RecollectedIsComputed
<1>1. TypeOK /\ ComputedInv => RecollectedIsComputed
  <2> SUFFICES ASSUME TypeOK, ComputedInv, NEW p \in Peers, NEW prog \in Programs,
                      NEW r \in get_responses[p], r[1] = prog.result
               PROVE  r[2] = prog.calculate[put_value[prog.operand]]
    BY DEF RecollectedIsComputed
  <2>1. Due(prog.result, r[2])
    BY DEF ComputedInv
  <2>2. IsResult(prog.result)
    BY DEF IsResult
  <2>3. PICK f \in Programs : f.result = prog.result /\ Computes(f, r[2])
    BY <2>1, <2>2 DEF Due
  <2>4. f = prog
    BY <2>3 DEF OneStage
  <2> QED
    BY <2>3, <2>4 DEF Computes
<1>2. TypeOK /\ ComputedInv /\ [Next]_vars => ComputedInv'
  BY ComputedNext
<1> QED
  BY <1>1, <1>2, ComputedInit, TypeInit, TypeNext, PTL DEF Spec

=============================================================================
