----------------------------- MODULE DataMemory -----------------------------
(***************************************************************************)
(* The distributed data memory of the swarm: every peer runs one           *)
(* `DistributedDataMemory` (data_memory/mod.rs); the peers exchange shards *)
(* by request and response, and announce what they store in transactions   *)
(* that the hashgraph consensus delivers.                                  *)
(*                                                                         *)
(* Simplifications:                                                        *)
(*  - a shard is identified with the value it was encoded from: the code   *)
(*    is MDS, so K shards of one value decode to it, and K shards of       *)
(*    different values decode to something else (Mixed);                   *)
(*  - a module handles its input queue in order and the behaviour forwards *)
(*    every output at once, so receiving an input, handling it and routing *)
(*    what it outputs is one step;                                         *)
(*  - consensus delivers transactions when they are RECOGNIZED: in an      *)
(*    order that respects authorship and ancestry and nothing more. The    *)
(*    ancestors of a transaction are at least those its author had         *)
(*    recognized when it was scheduled (`deps`);                           *)
(*  - a program is one instruction on one operand, a function of values:   *)
(*    the operations act on each shard as they act on the data. When and   *)
(*    in which order programs run is left open (see ProgramExecution); the *)
(*    processor reads its operand at once, while its writes wait in the    *)
(*    memory bus. Reading, sending the writes and scheduling the Executed  *)
(*    are one step, although the code awaits between them;                 *)
(*  - the data memory is told of an Executed when it is recognized. In the *)
(*    code the notification (PeerShardsActualized) may wait in the output  *)
(*    of the instruction memory while the processor is busy.               *)
(***************************************************************************)
EXTENDS Integers, Sequences, FiniteSets

CONSTANTS
  Peers,         \* the nodes
  Vids,          \* data ids (memory addresses)
  Values,        \* what the user may put at an address
  K,             \* data_shards_sufficient
  N,             \* data_shards_total
  NoShard,       \* Option::None for a shard, or an absent map entry
  NoPeer,        \* an absent entry of data_known_locations
  NoSid,         \* a peer that does not appear in a distribution
  Vacant,        \* an absent entry of currently_assembled
  Mixed,         \* what shards of different values decode to
  Enumerations,  \* the distributions a node may propose
  Commanders,    \* the peers whose users initialize and put
  PutVids,       \* the data ids they put
  WaitForConfirm,\* whether users wait for PutConfirmed before the next command
  Programs,      \* the instructions that are scheduled for execution
  MaxInits,      \* bound: InitializeStorage commands of one user
  MaxPuts,       \* bound: puts to one address
  MaxGets,       \* bound: gets in the whole system
  MaxFailures    \* bound: lost requests and responses, and nodes that crash

Sids == 0 .. (N - 1)

(* A distribution: HashMap<PeerId, Sid>. *)
Distributions == [Peers -> Nat \cup {NoSid}]

ASSUME CodeAssumption == /\ N \in Nat /\ K \in Nat
                         /\ 0 < K /\ K <= N
ASSUME SentinelAssumption == /\ NoShard \notin Values /\ Mixed \notin Values
                             /\ NoShard # Mixed
                             /\ NoPeer \notin Peers /\ NoSid \notin Nat
                             /\ Vacant \notin [Sids -> Values \cup {NoShard}]
ASSUME EnumerationAssumption == Enumerations \subseteq Distributions
ASSUME CommandAssumption == /\ Commanders \subseteq Peers /\ PutVids \subseteq Vids
                            /\ Programs \subseteq [operand : Vids, result : Vids,
                                                  calculate : [Values -> Values]]
ASSUME BoundAssumption == /\ WaitForConfirm \in BOOLEAN
                          /\ MaxInits \in Nat /\ MaxPuts \in Nat /\ MaxGets \in Nat
                          /\ MaxFailures \in Nat

VARIABLES
  \* --- one data memory per peer
  mode,                  \* "uninitialized", "initialized" or "stopped"
  distribution,          \* peer -> distribution it adopted
  local_storage,         \* peer -> vid -> sid -> shard
  to_distribute,         \* peer -> vid -> sid -> shard
  currently_assembled,   \* peer -> vid -> Vacant or (sid -> shard)
  data_known_locations,  \* peer -> vid -> sid -> peer
  bus_writes,            \* peer -> queue of writes from its processor
  \* --- consensus
  log,                   \* author -> sequence of [tx, deps]
  recognized,            \* peer -> author -> how many of the author's txs
  \* --- network
  requests, responses,   \* sets of messages in flight
  request_id,            \* peer -> number of its last batch of requests
  \* --- what the users did and were told, and the budgets spent
  put_value,             \* vid -> the value put last
  put_author,            \* vid -> the peer it was put at
  put_confirmed,         \* peer -> vid -> number of PutConfirmed shown
  get_responses,         \* peer -> set of <<vid, data>> shown
  executed,              \* peer -> programs its processor ran
  spent                  \* [inits, puts, gets, lost, crashes]

memory == <<mode, distribution, local_storage, to_distribute,
            currently_assembled, data_known_locations>>
network == <<requests, responses, request_id>>
users == <<put_value, put_author, put_confirmed, get_responses>>
vars == <<memory, bus_writes, log, recognized, network, users, executed, spent>>

Shards == Values \cup {NoShard}
NoShards == [s \in Sids |-> NoShard]

(* The shards present in a HashMap<Sid, Shard>. *)
Present(shards) == {s \in Sids : shards[s] # NoShard}

(* The shard ids of an address whose location a peer knows. *)
KnownSids(p, v) == {s \in Sids : data_known_locations[p][v][s] # NoPeer}

Transactions ==
       [type : {"InitializeStorage"}, distribution : Enumerations]
  \cup [type : {"StorageRequest"}, vid : Vids]
  \cup [type : {"Stored"}, vid : Vids, sid : Sids]
  \cup [type : {"Executed"}, vid : Vids]

Requests == [kind : {"serve", "assigned"}, from : Peers, to : Peers,
             vid : Vids, sid : Sids, id : Nat]
Responses == [kind : {"serve", "assigned"}, to : Peers,
              vid : Vids, sid : Sids, id : Nat, shard : Shards]

Budgets == [inits : [Peers -> Nat], puts : [Vids -> Nat],
            gets : Nat, lost : Nat, crashes : Nat]

TypeOK ==
  /\ mode \in [Peers -> {"uninitialized", "initialized", "stopped"}]
  /\ distribution \in [Peers -> [Peers -> Sids \cup {NoSid}]]
  /\ local_storage \in [Peers -> [Vids -> [Sids -> Shards]]]
  /\ to_distribute \in [Peers -> [Vids -> [Sids -> Shards]]]
  /\ currently_assembled \in [Peers -> [Vids -> [Sids -> Shards] \cup {Vacant}]]
  /\ data_known_locations \in [Peers -> [Vids -> [Sids -> Peers \cup {NoPeer}]]]
  /\ bus_writes \in [Peers -> Seq(Vids \X Values)]
  /\ log \in [Peers -> Seq([tx : Transactions, deps : [Peers -> Nat]])]
  /\ recognized \in [Peers -> [Peers -> Nat]]
  /\ requests \subseteq Requests
  /\ responses \subseteq Responses
  /\ request_id \in [Peers -> Nat]
  /\ put_value \in [Vids -> Shards]
  /\ put_author \in [Vids -> Peers \cup {NoPeer}]
  /\ put_confirmed \in [Peers -> [Vids -> Nat]]
  /\ get_responses \in [Peers -> SUBSET (Vids \X (Values \cup {Mixed}))]
  /\ executed \in [Peers -> SUBSET Programs]
  /\ spent \in Budgets

Init ==
  /\ mode = [p \in Peers |-> "uninitialized"]
  /\ distribution = [p \in Peers |-> [q \in Peers |-> NoSid]]
  /\ local_storage = [p \in Peers |-> [v \in Vids |-> NoShards]]
  /\ to_distribute = [p \in Peers |-> [v \in Vids |-> NoShards]]
  /\ currently_assembled = [p \in Peers |-> [v \in Vids |-> Vacant]]
  /\ data_known_locations = [p \in Peers |-> [v \in Vids |-> [s \in Sids |-> NoPeer]]]
  /\ bus_writes = [p \in Peers |-> <<>>]
  /\ log = [p \in Peers |-> <<>>]
  /\ recognized = [p \in Peers |-> [a \in Peers |-> 0]]
  /\ requests = {} /\ responses = {}
  /\ request_id = [p \in Peers |-> 0]
  /\ put_value = [v \in Vids |-> NoShard]
  /\ put_author = [v \in Vids |-> NoPeer]
  /\ put_confirmed = [p \in Peers |-> [v \in Vids |-> 0]]
  /\ get_responses = [p \in Peers |-> {}]
  /\ executed = [p \in Peers |-> {}]
  /\ spent = [inits |-> [p \in Peers |-> 0], puts |-> [v \in Vids |-> 0],
              gets |-> 0, lost |-> 0, crashes |-> 0]

-----------------------------------------------------------------------------
(* Consensus and network, as the behaviour uses them.                      *)

(* InEvent::ScheduleTx: the transaction joins the next event of `p`; every *)
(* transaction `p` has recognized is in an ancestor of that event.         *)
ScheduleTx(p, tx) ==
  log' = [log EXCEPT ![p] = Append(@, [tx |-> tx, deps |-> recognized'[p]])]

(* The next transaction of author `a` that peer `p` has not recognized, of *)
(* the given type, with all its ancestors recognized; and its delivery.    *)
RecognizeTx_any_order(p, a, type) ==
  /\ mode[p] # "stopped"
  /\ recognized[p][a] < Len(log[a])
  /\ log[a][recognized[p][a] + 1].tx.type = type
  /\ recognized' = [recognized EXCEPT ![p][a] = @ + 1]
RecognizeTx(p, a, type) ==
  /\ mode[p] # "stopped"
  /\ recognized[p][a] < Len(log[a])
  /\ LET event == log[a][recognized[p][a] + 1]
     IN  /\ event.tx.type = type
         /\ \A b \in Peers : event.deps[b] <= recognized[p][b]
  /\ recognized' = [recognized EXCEPT ![p][a] = @ + 1]

RecognizedTx(p, a) == log[a][recognized[p][a] + 1].tx

(* ToSwarm(MakeRequest): one request per target; a batch shares an id.     *)
MakeRequests(p, kind, vid, targets) ==
  /\ requests' = requests \cup
       {[kind |-> kind, from |-> p, to |-> t.to, vid |-> vid, sid |-> t.sid,
         id |-> request_id[p] + 1] : t \in targets}
  /\ request_id' = [request_id EXCEPT ![p] = @ + 1]
  /\ UNCHANGED responses

(* ToSwarm(Respond): a request leaves, its response enters the network.    *)
Respond(r, shard) ==
  /\ requests' = requests \ {r}
  /\ responses' = responses \cup
       {[kind |-> r.kind, to |-> r.from, vid |-> r.vid, sid |-> r.sid,
         id |-> r.id, shard |-> shard]}
  /\ UNCHANGED request_id

-----------------------------------------------------------------------------
(* Helpers of the initialized data memory.                                 *)

assigned_shard_id(p) == distribution[p][p]

(* `true` == valid *)
verify_distribution(d) == {d[q] : q \in Peers} \ {NoSid} = Sids

get_shard(p, v, s) == local_storage[p][v][s]

serve_shard(p, v, s) == to_distribute[p][v][s]

store_shard(p, v, s, shard) ==
  local_storage' = [local_storage EXCEPT ![p][v][s] = shard]

prepare_to_serve_shards(p, v, shards) ==
  to_distribute' = [to_distribute EXCEPT ![p][v] = shards]

(* ReedSolomonWrapper::encode and ::decode. *)
encode_no_parity(data) == [s \in 0 .. (K - 1) |-> data]
encode(data) == [s \in Sids |-> data]
decode(shards) ==
  IF \E d \in Values : \A s \in Present(shards) : shards[s] = d
  THEN CHOOSE d \in Values : \A s \in Present(shards) : shards[s] = d
  ELSE Mixed

(* A missing shard is ignored; otherwise it is stored and, by              *)
(* AssignedStoreSuccess, announced in a Stored transaction.                *)
handle_serve_shard_response_unstored(p, v, s, shard) ==
  /\ ScheduleTx(p, [type |-> "Stored", vid |-> v, sid |-> s])
  /\ UNCHANGED local_storage
handle_serve_shard_response(p, v, s, shard) ==
  \/ /\ shard = NoShard
     /\ UNCHANGED <<local_storage, log>>
  \/ /\ shard # NoShard
     /\ store_shard(p, v, s, shard)
     /\ ScheduleTx(p, [type |-> "Stored", vid |-> v, sid |-> s])

(* Enough shards: the entry is removed and the user gets the decoded data. *)
collect_all(p, v, shards) ==
  IF Cardinality(Present(shards)) >= N
  THEN /\ currently_assembled' = [currently_assembled EXCEPT ![p][v] = Vacant]
       /\ get_responses' = [get_responses EXCEPT ![p] = @ \cup {<<v, decode(shards)>>}]
  ELSE /\ currently_assembled' = [currently_assembled EXCEPT ![p][v] = shards]
       /\ UNCHANGED get_responses
collect(p, v, shards) ==
  IF Cardinality(Present(shards)) >= K
  THEN /\ currently_assembled' = [currently_assembled EXCEPT ![p][v] = Vacant]
       /\ get_responses' = [get_responses EXCEPT ![p] = @ \cup {<<v, decode(shards)>>}]
  ELSE /\ currently_assembled' = [currently_assembled EXCEPT ![p][v] = shards]
       /\ UNCHANGED get_responses

(* A missing shard, one of an address not being recollected, and one that  *)
(* is already present are all ignored.                                     *)
handle_assigned_response_any_address(p, v, s, shard) ==
  LET running == {w \in Vids : currently_assembled[p][w] # Vacant}
  IN  IF shard = NoShard \/ \A w \in running : currently_assembled[p][w][s] # NoShard
      THEN UNCHANGED <<currently_assembled, get_responses>>
      ELSE \E w \in running : /\ currently_assembled[p][w][s] = NoShard
                              /\ collect(p, w, [currently_assembled[p][w] EXCEPT ![s] = shard])
handle_assigned_response(p, v, s, shard) ==
  IF \/ shard = NoShard
     \/ currently_assembled[p][v] = Vacant
     \/ currently_assembled[p][v][s] # NoShard
  THEN UNCHANGED <<currently_assembled, get_responses>>
  ELSE collect(p, v, [currently_assembled[p][v] EXCEPT ![s] = shard])

(* All shards of an address are located once `s` is, too. *)
fully_distributed_sufficient(p, v, s) == Cardinality(KnownSids(p, v) \cup {s}) = K
fully_distributed_at_least(p, v, s) == Cardinality(KnownSids(p, v) \cup {s}) >= K
fully_distributed(p, v, s) == Cardinality(KnownSids(p, v) \cup {s}) = N

(* The location is tracked and the shard is no longer served; when all     *)
(* locations are known, nothing of the address is served any more.         *)
observe_new_location_serving_none(p, v, s, location) ==
  /\ data_known_locations' = [data_known_locations EXCEPT ![p][v][s] = location]
  /\ to_distribute' = [to_distribute EXCEPT ![p][v] = NoShards]
observe_new_location(p, v, s, location) ==
  /\ data_known_locations' = [data_known_locations EXCEPT ![p][v][s] = location]
  /\ to_distribute' = [to_distribute EXCEPT ![p][v] =
       IF fully_distributed(p, v, s) THEN NoShards ELSE [@ EXCEPT ![s] = NoShard]]

(* OutEvent::ListDistributed: the addresses a peer lists as stored. *)
ListDistributed(p) == {v \in Vids : Cardinality(KnownSids(p, v)) >= K}

-----------------------------------------------------------------------------
(* The user's commands.                                                    *)

(* InitializeStorage: the behaviour asks consensus for the known peers,    *)
(* adds the connected ones, numbers them in the order a HashSet yields     *)
(* them and schedules the distribution.                                    *)
InitializeStorage(p) ==
  /\ mode[p] # "stopped" /\ spent.inits[p] < MaxInits
  /\ spent' = [spent EXCEPT !.inits[p] = @ + 1]
  /\ UNCHANGED recognized
  /\ \E d \in Enumerations :
       ScheduleTx(p, [type |-> "InitializeStorage", distribution |-> d])
  /\ UNCHANGED <<memory, bus_writes, network, users, executed>>

(* Put: PrepareServiceRequest, whose PreparedServiceResponse makes the     *)
(* behaviour schedule a StorageRequest. Uninitialized, it is ignored.      *)
Put(p, v, data) ==
  /\ mode[p] = "initialized" /\ spent.puts[v] < MaxPuts
  /\ WaitForConfirm => put_confirmed[p][v] >= spent.puts[v]
  /\ spent' = [spent EXCEPT !.puts[v] = @ + 1]
  /\ UNCHANGED recognized
  /\ prepare_to_serve_shards(p, v, encode(data))
  /\ ScheduleTx(p, [type |-> "StorageRequest", vid |-> v])
  /\ put_value' = [put_value EXCEPT ![v] = data]
  /\ put_author' = [put_author EXCEPT ![v] = p]
  /\ UNCHANGED <<mode, distribution, local_storage, currently_assembled,
                 data_known_locations, bus_writes, network, put_confirmed,
                 get_responses, executed>>

(* Get: RecollectRequest. An address without K known locations is refused  *)
(* and one already being recollected waits for that recollection; else the *)
(* local shard is collected and the other locations are asked.             *)
Get(p, v) ==
  /\ mode[p] = "initialized" /\ spent.gets < MaxGets
  /\ WaitForConfirm => put_confirmed[p][v] > 0
  /\ Cardinality(KnownSids(p, v)) >= K
  /\ currently_assembled[p][v] = Vacant
  /\ spent' = [spent EXCEPT !.gets = @ + 1]
  /\ collect(p, v, [s \in Sids |-> IF data_known_locations[p][v][s] = p
                                   THEN get_shard(p, v, s) ELSE NoShard])
  /\ MakeRequests(p, "assigned", v,
       {[to |-> data_known_locations[p][v][s], sid |-> s] :
          s \in {t \in KnownSids(p, v) : data_known_locations[p][v][t] # p}})
  /\ UNCHANGED <<mode, distribution, local_storage, to_distribute,
                 data_known_locations, bus_writes, log, recognized, put_value,
                 put_author, put_confirmed, executed>>

-----------------------------------------------------------------------------
(* Recognized transactions (Behaviour::handle_tx and the module inputs).   *)

(* The first valid distribution is adopted; an invalid one, or one that    *)
(* comes when the storage is initialized, is ignored.                      *)
RecognizeInitializeStorage_last(p, a) ==
  /\ RecognizeTx(p, a, "InitializeStorage")
  /\ LET d == RecognizedTx(p, a).distribution
     IN  IF verify_distribution(d)
         THEN /\ mode' = [mode EXCEPT ![p] = "initialized"]
              /\ distribution' = [distribution EXCEPT ![p] = d]
         ELSE UNCHANGED <<mode, distribution>>
  /\ UNCHANGED <<local_storage, to_distribute, currently_assembled,
                 data_known_locations, bus_writes, log, network, users,
                 executed, spent>>
RecognizeInitializeStorage(p, a) ==
  /\ RecognizeTx(p, a, "InitializeStorage")
  /\ LET d == RecognizedTx(p, a).distribution
     IN  IF mode[p] = "uninitialized" /\ verify_distribution(d)
         THEN /\ mode' = [mode EXCEPT ![p] = "initialized"]
              /\ distribution' = [distribution EXCEPT ![p] = d]
         ELSE UNCHANGED <<mode, distribution>>
  /\ UNCHANGED <<local_storage, to_distribute, currently_assembled,
                 data_known_locations, bus_writes, log, network, users,
                 executed, spent>>

(* An uninitialized peer and one without an assigned shard ignore the      *)
(* request; the author serves itself, the others ask the author.           *)
RecognizeStorageRequest(p, a) ==
  /\ RecognizeTx(p, a, "StorageRequest")
  /\ LET v == RecognizedTx(p, a).vid
         s == assigned_shard_id(p)
     IN  \/ /\ mode[p] = "uninitialized" \/ s = NoSid
            /\ UNCHANGED <<local_storage, log, network>>
         \/ /\ mode[p] = "initialized" /\ s # NoSid /\ a = p
            /\ handle_serve_shard_response(p, v, s, serve_shard(p, v, s))
            /\ UNCHANGED network
         \/ /\ mode[p] = "initialized" /\ s # NoSid /\ a # p
            /\ MakeRequests(p, "serve", v, {[to |-> a, sid |-> s]})
            /\ UNCHANGED <<local_storage, log>>
  /\ UNCHANGED <<mode, distribution, to_distribute, currently_assembled,
                 data_known_locations, bus_writes, users, executed, spent>>

(* StoreConfirmed: with all N locations known, DistributionFull makes the  *)
(* behaviour tell the user PutConfirmed, at every peer.                    *)
RecognizeStored(p, a) ==
  /\ RecognizeTx(p, a, "Stored")
  /\ LET v == RecognizedTx(p, a).vid
         s == RecognizedTx(p, a).sid
     IN  IF mode[p] = "initialized"
         THEN /\ observe_new_location(p, v, s, a)
              /\ put_confirmed' = IF fully_distributed(p, v, s)
                                  THEN [put_confirmed EXCEPT ![p][v] = @ + 1]
                                  ELSE put_confirmed
         ELSE UNCHANGED <<to_distribute, data_known_locations, put_confirmed>>
  /\ UNCHANGED <<mode, distribution, local_storage, currently_assembled,
                 bus_writes, log, network, put_value, put_author,
                 get_responses, executed, spent>>

(* PeerShardsActualized: the executing peer holds its shard of the result. *)
(* If the peer is not in the distribution the data memory returns, and the *)
(* node stops with it.                                                     *)
RecognizeExecuted_own_sid(p, a) ==
  /\ RecognizeTx(p, a, "Executed")
  /\ LET v == RecognizedTx(p, a).vid
         s == assigned_shard_id(p)
     IN  IF mode[p] = "uninitialized" THEN UNCHANGED <<mode, data_known_locations>>
         ELSE IF s = NoSid
         THEN /\ mode' = [mode EXCEPT ![p] = "stopped"]
              /\ UNCHANGED data_known_locations
         ELSE /\ data_known_locations' = [data_known_locations EXCEPT ![p][v][s] = a]
              /\ UNCHANGED mode
  /\ UNCHANGED <<distribution, local_storage, to_distribute,
                 currently_assembled, bus_writes, log, network, users,
                 executed, spent>>
RecognizeExecuted(p, a) ==
  /\ RecognizeTx(p, a, "Executed")
  /\ LET v == RecognizedTx(p, a).vid
         s == distribution[p][a]
     IN  IF mode[p] = "uninitialized" THEN UNCHANGED <<mode, data_known_locations>>
         ELSE IF s = NoSid
         THEN /\ mode' = [mode EXCEPT ![p] = "stopped"]
              /\ UNCHANGED data_known_locations
         ELSE /\ data_known_locations' = [data_known_locations EXCEPT ![p][v][s] = a]
              /\ UNCHANGED mode
  /\ UNCHANGED <<distribution, local_storage, to_distribute,
                 currently_assembled, bus_writes, log, network, users,
                 executed, spent>>

-----------------------------------------------------------------------------
(* Requests and responses.                                                 *)

(* ServeShardRequest and AssignedRequest. An uninitialized data memory     *)
(* ignores the request, which then stays unanswered for ever.              *)
HandleRequest(r) ==
  /\ r \in requests
  /\ \/ /\ mode[r.to] = "initialized"
        /\ Respond(r, IF r.kind = "serve" THEN serve_shard(r.to, r.vid, r.sid)
                                          ELSE get_shard(r.to, r.vid, r.sid))
     \/ /\ mode[r.to] = "uninitialized"
        /\ requests' = requests \ {r}
        /\ UNCHANGED <<responses, request_id>>
  /\ UNCHANGED <<memory, bus_writes, log, recognized, users, executed, spent>>

(* ServeShardResponse. *)
HandleServeShardResponse(r) ==
  /\ r \in responses /\ r.kind = "serve" /\ mode[r.to] = "initialized"
  /\ responses' = responses \ {r}
  /\ UNCHANGED <<requests, request_id, recognized>>
  /\ handle_serve_shard_response(r.to, r.vid, r.sid, r.shard)
  /\ UNCHANGED <<mode, distribution, to_distribute, currently_assembled,
                 data_known_locations, bus_writes, users, executed, spent>>

(* AssignedResponse. *)
HandleAssignedResponse(r) ==
  /\ r \in responses /\ r.kind = "assigned" /\ mode[r.to] = "initialized"
  /\ responses' = responses \ {r}
  /\ handle_assigned_response(r.to, r.vid, r.sid, r.shard)
  /\ UNCHANGED <<mode, distribution, local_storage, to_distribute,
                 data_known_locations, bus_writes, log, recognized, requests,
                 request_id, put_value, put_author, put_confirmed, executed, spent>>

(* Outbound and inbound failures are logged and nothing else: whoever      *)
(* waits for the response waits for ever.                                  *)
LoseMessage ==
  /\ spent.lost + spent.crashes < MaxFailures
  /\ spent' = [spent EXCEPT !.lost = @ + 1]
  /\ \/ \E r \in requests : requests' = requests \ {r} /\ UNCHANGED responses
     \/ \E r \in responses : responses' = responses \ {r} /\ UNCHANGED requests
  /\ UNCHANGED <<memory, bus_writes, log, recognized, request_id, users, executed>>

-----------------------------------------------------------------------------
(* The processor and its memory bus.                                       *)

(* ShardProcessor::prepare_context: the local shard of the operand, which  *)
(* is missing unless the memory is initialized and has an assigned shard.  *)
prepare_context(p, prog) ==
  IF assigned_shard_id(p) = NoSid THEN NoShard
  ELSE get_shard(p, prog.operand, assigned_shard_id(p))

(* ShardProcessor::execute: the whole context, the operand included, is    *)
(* sent to the memory bus in the order a HashMap yields it. Nothing is     *)
(* sent if the operand is missing.                                         *)
stored_context_swapped(prog, operand) ==
  IF operand = NoShard THEN {<<>>}
  ELSE {<< <<prog.operand, prog.calculate[operand]>>, <<prog.result, operand>> >>}
stored_context(prog, operand) ==
  LET read == <<prog.operand, operand>>
      output == <<prog.result, prog.calculate[operand]>>
  IN  IF operand = NoShard THEN {<<>>}
      ELSE IF prog.operand = prog.result THEN {<<output>>}
      ELSE {<<read, output>>, <<output, read>>}

(* The processor of `p` runs a program. However it ended, an Executed is   *)
(* scheduled.                                                              *)
RunProgram(p, prog) ==
  /\ mode[p] # "stopped" /\ prog \in Programs \ executed[p]
  /\ executed' = [executed EXCEPT ![p] = @ \cup {prog}]
  /\ \E writes \in stored_context(prog, prepare_context(p, prog)) :
       bus_writes' = [bus_writes EXCEPT ![p] = @ \o writes]
  /\ UNCHANGED recognized
  /\ ScheduleTx(p, [type |-> "Executed", vid |-> prog.result])
  /\ UNCHANGED <<memory, network, users, spent>>

(* A write is stored under the assigned shard id; it is ignored when the   *)
(* memory is not initialized or has no assigned shard.                     *)
BusWrite(p) ==
  /\ mode[p] # "stopped" /\ bus_writes[p] # <<>>
  /\ bus_writes' = [bus_writes EXCEPT ![p] = Tail(@)]
  /\ IF mode[p] = "uninitialized" \/ assigned_shard_id(p) = NoSid
     THEN UNCHANGED local_storage
     ELSE store_shard(p, Head(bus_writes[p])[1], assigned_shard_id(p), Head(bus_writes[p])[2])
  /\ UNCHANGED <<mode, distribution, to_distribute, currently_assembled,
                 data_known_locations, log, recognized, network, users, executed, spent>>

(* A node stops and, keeping nothing on disk, never comes back. *)
Crash(p) ==
  /\ mode[p] # "stopped" /\ spent.lost + spent.crashes < MaxFailures
  /\ spent' = [spent EXCEPT !.crashes = @ + 1]
  /\ mode' = [mode EXCEPT ![p] = "stopped"]
  /\ UNCHANGED <<distribution, local_storage, to_distribute, currently_assembled,
                 data_known_locations, bus_writes, log, recognized, network,
                 users, executed>>

-----------------------------------------------------------------------------
Recognize(p) == \E a \in Peers :
  \/ RecognizeInitializeStorage(p, a) \/ RecognizeStorageRequest(p, a)
  \/ RecognizeStored(p, a) \/ RecognizeExecuted(p, a)

Next ==
  \/ \E p \in Commanders : InitializeStorage(p)
  \/ \E p \in Commanders, v \in PutVids, d \in Values : Put(p, v, d)
  \/ \E p \in Peers, v \in Vids : Get(p, v)
  \/ \E p \in Peers : Recognize(p)
  \/ \E r \in requests : HandleRequest(r)
  \/ \E r \in responses : HandleServeShardResponse(r) \/ HandleAssignedResponse(r)
  \/ LoseMessage
  \/ \E p \in Peers, prog \in Programs : RunProgram(p, prog)
  \/ \E p \in Peers : BusWrite(p)
  \/ \E p \in Peers : Crash(p)

(* Gossip goes on for ever, every message that is not lost arrives and     *)
(* every module handles its queue. Users owe nothing.                      *)
Fairness ==
  /\ \A p \in Peers : WF_vars(Recognize(p)) /\ WF_vars(BusWrite(p))
  /\ WF_vars(\E r \in requests : HandleRequest(r))
  /\ WF_vars(\E r \in responses : HandleServeShardResponse(r) \/ HandleAssignedResponse(r))

Spec == Init /\ [][Next]_vars
FairSpec == Spec /\ Fairness

-----------------------------------------------------------------------------
(* Properties.                                                             *)

(* "All storage confirmations were seen, full data reliability is reached" *)
(* (DistributionFull): once a user is told PutConfirmed as often as there  *)
(* were puts, every shard of the value put last is stored by the peer it   *)
(* is assigned to.                                                         *)
ConfirmedMeansFullyStored == \A p \in Peers, v \in Vids :
  put_confirmed[p][v] > 0 /\ put_confirmed[p][v] >= spent.puts[v] =>
    \A s \in Sids : \E q \in Peers :
      assigned_shard_id(q) = s /\ local_storage[q][v][s] = put_value[v]

(* The author of a put stops serving a shard only when a peer stores it:   *)
(* at every moment each shard of the put value is held by somebody. (The   *)
(* shards of a node that crashed count as held: this is about the          *)
(* hand-over.)                                                             *)
NoShardLost == \A v \in Vids :
  put_value[v] # NoShard =>
    \A s \in Sids : \/ to_distribute[put_author[v]][v][s] = put_value[v]
                    \/ \E q \in Peers : local_storage[q][v][s] = put_value[v]

(* The addresses no program computes: what they hold is what users put. *)
Plain == {v \in Vids : \A prog \in Programs : prog.result # v}

(* RecollectResponse never shows the user anything but the value that was  *)
(* put at the address, if no program computes it: shards of other          *)
(* addresses, whose recollections run at the same time, and responses that *)
(* come late do not get into it.                                           *)
RecollectedIsPut == \A p \in Peers : \A r \in get_responses[p] :
  r[1] \in Plain => r[2] = put_value[r[1]]

(* The known locations of an address at which a node is running: the peers *)
(* that can answer a request for a shard.                                  *)
running_locations(p, v) ==
  {s \in KnownSids(p, v) : mode[data_known_locations[p][v][s]] # "stopped"}

(* An address that was put and that ListDistributed shows can be           *)
(* recollected while K of the peers it names are running: K of these have  *)
(* the shard they are asked for.                                           *)
ListedIsRecollectable == \A p \in Peers : \A v \in ListDistributed(p) \cap Plain :
  Cardinality(running_locations(p, v)) >= K =>
    Cardinality({s \in running_locations(p, v) :
       local_storage[data_known_locations[p][v][s]][v][s] = put_value[v]}) >= K

(* The parts that are stored somewhere, and the mapping to the abstract memory. *)
stored_shards == [v \in Vids |-> {s \in Sids : put_value[v] # NoShard
                    /\ \E q \in Peers : local_storage[q][v][s] = put_value[v]}]
Memory == INSTANCE SharedMemory WITH
  Empty <- NoShard, content <- put_value, stored <- stored_shards,
  confirmed <- {c \in Peers \X Vids : put_confirmed[c[1]][c[2]] > 0},
  answers <- UNION {{<<p, r[1], r[2]>> : r \in get_responses[p]} : p \in Peers}

(* The whole of it implements the write-once memory of SharedMemory: what  *)
(* is confirmed is stored in full, what is read is what was written and is *)
(* stored in at least K parts, and a part once stored stays.               *)
ImplementsSharedMemory == Memory!Spec

(* All peers adopt one distribution, although each adopts the first valid  *)
(* one it recognizes ("All data will be stored according to this           *)
(* distribution").                                                         *)
DistributionAgreement == \A p, q \in Peers :
  mode[p] = "initialized" /\ mode[q] = "initialized" => distribution[p] = distribution[q]

(* "Before this tx other ones are not processed": no peer recognizes, and  *)
(* ignores for good, a storage transaction before it is initialized.       *)
NothingStoredBeforeInit == \A p \in Peers : mode[p] = "uninitialized" =>
  \A a \in Peers : \A n \in 1 .. recognized[p][a] :
    log[a][n].tx.type \notin {"StorageRequest", "Stored"}

(* A peer tracks a shard, stored or computed, only at the peer it is       *)
(* assigned to, so that requests for it go to the right place.             *)
KnownLocationIsAssigned == \A p \in Peers, v \in Vids, s \in Sids :
  data_known_locations[p][v][s] # NoPeer =>
    distribution[p][data_known_locations[p][v][s]] = s

(* A recollected result of a program is computed from the operand that was *)
(* put, although every peer computes its shard at its own time, from its   *)
(* own shard, and the operands are written back with the results.          *)
RecollectedIsComputed == \A p \in Peers, prog \in Programs : \A r \in get_responses[p] :
  prog.result \notin PutVids /\ r[1] = prog.result =>
    r[2] = prog.calculate[put_value[prog.operand]]

(* No peer is stopped by a notification that "shouldn't've" been sent: the *)
(* data memory of a node that does not crash goes on.                      *)
MemoryNeverStops == spent.crashes = 0 => \A p \in Peers : mode[p] # "stopped"

(* A peer tells its user PutConfirmed once for one put.                    *)
ConfirmedOnce == \A p \in Peers, v \in Vids : put_confirmed[p][v] <= spent.puts[v]

(* Every put is eventually confirmed to the user of every peer, if nothing *)
(* is lost and nobody crashes.                                             *)
PutEventuallyConfirmed == \A p \in Peers, v \in Vids :
  put_value[v] # NoShard
    ~> (put_confirmed[p][v] > 0 \/ spent.lost + spent.crashes > 0)

(* A recollection that starts when the address is fully distributed (users *)
(* wait for PutConfirmed) ends with an answer, even if messages are lost   *)
(* or peers crash, N - K of them in all.                                   *)
GetEventuallyAnswered == \A p \in Peers, v \in Vids :
  WaitForConfirm /\ currently_assembled[p][v] # Vacant
    ~> (currently_assembled[p][v] = Vacant \/ mode[p] = "stopped")

=============================================================================
