--------------------------- MODULE RequestRouting ---------------------------
(***************************************************************************)
(* How the main task of one node (main.rs) routes requests for shards and  *)
(* their responses between libp2p, the behaviour (behaviour/mod.rs) and    *)
(* the data memory. The task runs a loop: tokio::select! picks either the  *)
(* swarm, whose poll drains the channels from the other modules and then   *)
(* yields at most one network event, or one item of request_response.input.*)
(* Both branches await room in request_response.output, which only the     *)
(* poll of this very task receives from.                                   *)
(*                                                                         *)
(* Simplifications:                                                        *)
(*  - the data memory is reduced to what it answers: the version of each   *)
(*    shard it holds, 0 for none; what makes it store or ask is left open  *)
(*    (see DataMemory);                                                    *)
(*  - the poll has other sections, which use other channels (see           *)
(*    NodePolling); a poll that would find nothing is not started;         *)
(*  - peers are honest: a response has the kind of its request.            *)
(***************************************************************************)
EXTENDS Integers, Sequences, FiniteSets

CONSTANTS
  Requests,     \* protocol::Request: kind, data id and shard id
  Capacity,     \* CHANNEL_BUFFER_LIMIT
  MaxIncoming,  \* bound: requests of other peers, all in all
  MaxOutgoing,  \* bound: requests of the data memory, all in all
  MaxVersions,  \* bound: how often a shard is stored
  NoRequest     \* an absent entry of pending_response

ASSUME CapacityAssumption == Capacity \in Nat \ {0}
ASSUME BoundAssumption == /\ MaxIncoming \in Nat /\ MaxOutgoing \in Nat
                          /\ MaxVersions \in Nat
ASSUME SentinelAssumption == NoRequest \notin Requests

VARIABLES
  at,                  \* where the main task is: "select", a section of the
                       \* poll, "blocked" in a send, or "stopped"
  rr_input, rr_output, \* request_response.input and .output
  dm_input, dm_output, \* data_memory.input and .output
  pending_response,    \* outbound request id -> request
  processed_requests,  \* request -> inbound request ids to respond to
  swarm_events,        \* libp2p request-response events not yielded yet
  outbound,            \* outbound requests in the network
  last_id,             \* outbound request ids given so far
  initialized,         \* the data memory knows its distribution
  shard,               \* request -> version of the shard
  \* --- what happened
  asked,               \* requests the data memory made so far
  incoming,            \* what other peers asked, and when
  answered,            \* responses sent: [id, request, version]
  resolved,            \* outbound ids whose response reached the data memory
  failed,              \* outbound ids that failed
  unmatched,           \* outbound ids whose response was dropped
  passed,              \* requests of other peers the data memory ignored, or
                       \* whose answer the behaviour took
  used                 \* responses the data memory handled

queues == <<rr_input, rr_output, dm_input, dm_output>>
maps == <<pending_response, processed_requests>>
libp2p == <<swarm_events, outbound, last_id>>
memory == <<initialized, shard, asked>>
past == <<incoming, answered, resolved, failed, unmatched, passed, used>>
vars == <<at, queues, maps, libp2p, memory, past>>

InboundIds == 1 .. MaxIncoming
OutboundIds == 1 .. MaxOutgoing
Versions == 0 .. MaxVersions

OutEvents == [type : {"AssignedRequestId"}, id : OutboundIds, request : Requests]
        \cup [type : {"Response"}, id : OutboundIds]
        \cup [type : {"IncomingRequest"}, id : InboundIds, request : Requests]

InEvents == [type : {"MakeRequest"}, request : Requests]
       \cup [type : {"Respond"}, id : InboundIds, request : Requests, version : Versions]

Bounded(S) == {q \in Seq(S) : Len(q) <= Capacity}

TypeOK ==
  /\ at \in {"select", "data_memory", "request_response", "network", "blocked", "stopped"}
  /\ rr_input \in Bounded(InEvents)
  /\ rr_output \in Bounded(OutEvents)
  /\ dm_input \in Bounded([type : {"request", "response"}, request : Requests])
  /\ dm_output \in Bounded([type : {"request"}, request : Requests]
                      \cup [type : {"response"}, request : Requests, version : Versions])
  /\ pending_response \in [OutboundIds -> Requests \cup {NoRequest}]
  /\ processed_requests \in [Requests -> Seq(InboundIds)]
  /\ swarm_events \in Seq([type : {"request"}, id : InboundIds, request : Requests]
                     \cup [type : {"response", "failure"}, id : OutboundIds])
  /\ outbound \subseteq OutboundIds
  /\ last_id \in 0 .. MaxOutgoing
  /\ initialized \in BOOLEAN
  /\ shard \in [Requests -> Versions]
  /\ asked \in 0 .. MaxOutgoing
  /\ incoming \in Seq([request : Requests, version : Versions, initialized : BOOLEAN])
  /\ answered \in Seq([id : InboundIds, request : Requests, version : Versions])
  /\ resolved \subseteq OutboundIds /\ failed \subseteq OutboundIds
  /\ unmatched \subseteq OutboundIds
  /\ passed \in Nat /\ used \in Nat

Init ==
  /\ at = "select"
  /\ rr_input = <<>> /\ rr_output = <<>> /\ dm_input = <<>> /\ dm_output = <<>>
  /\ pending_response = [id \in OutboundIds |-> NoRequest]
  /\ processed_requests = [r \in Requests |-> <<>>]
  /\ swarm_events = <<>> /\ outbound = {} /\ last_id = 0
  /\ initialized = FALSE
  /\ shard = [r \in Requests |-> 0]
  /\ asked = 0
  /\ incoming = <<>> /\ answered = <<>>
  /\ resolved = {} /\ failed = {} /\ unmatched = {}
  /\ passed = 0 /\ used = 0

-----------------------------------------------------------------------------
(* The poll of the swarm.                                                  *)

(* Behaviour::poll looks at the data memory before it looks at             *)
(* request_response; CombinedBehaviour polls it before libp2p's            *)
(* request-response, whose events are thus yielded last.                   *)
PollOrder_requests_first == <<"request_response", "data_memory", "network">>
PollOrder_network_first == <<"network", "data_memory", "request_response">>
PollOrder == <<"data_memory", "request_response", "network">>

Following(section) ==
  LET i == CHOOSE j \in 1 .. 3 : PollOrder[j] = section
  IN  IF i = 3 THEN "select" ELSE PollOrder[i + 1]

(* The behaviour polls its sends once and stops the node at the first that *)
(* must wait.                                                              *)
SendInput(items) ==
  LET room == Capacity - Len(rr_input)
  IN  IF Len(items) <= room
      THEN rr_input' = rr_input \o items /\ UNCHANGED at
      ELSE rr_input' = rr_input \o SubSeq(items, 1, room) /\ at' = "stopped"
SendDataMemory(item) ==
  IF Len(dm_input) < Capacity
  THEN dm_input' = Append(dm_input, item) /\ UNCHANGED at
  ELSE at' = "stopped" /\ UNCHANGED dm_input

(* The main task awaits room, for ever if there is none. *)
SendOutput(item) ==
  IF Len(rr_output) < Capacity
  THEN rr_output' = Append(rr_output, item) /\ at' = "select"
  ELSE at' = "blocked" /\ UNCHANGED rr_output

StartPoll ==
  /\ at = "select"
  /\ dm_output # <<>> \/ rr_output # <<>> \/ swarm_events # <<>>
  /\ at' = PollOrder[1]
  /\ UNCHANGED <<queues, maps, libp2p, memory, past>>

(* A section ends when its channel has nothing left. *)
EndSection ==
  /\ \/ at = "data_memory" /\ dm_output = <<>>
     \/ at = "request_response" /\ rr_output = <<>>
     \/ at = "network" /\ swarm_events = <<>>
  /\ at' = Following(at)
  /\ UNCHANGED <<queues, maps, libp2p, memory, past>>

(* ServeShardRequest and AssignedRequest of the data memory. *)
PollMakeRequest ==
  /\ at = "data_memory" /\ dm_output # <<>> /\ Head(dm_output).type = "request"
  /\ dm_output' = Tail(dm_output)
  /\ SendInput(<<[type |-> "MakeRequest", request |-> Head(dm_output).request]>>)
  /\ UNCHANGED <<rr_output, dm_input, maps, libp2p, memory, past>>

(* ServeShardResponse and AssignedResponse of the data memory: everybody   *)
(* who waits for this shard gets it.                                       *)
PollRespond ==
  /\ at = "data_memory" /\ dm_output # <<>> /\ Head(dm_output).type = "response"
  /\ dm_output' = Tail(dm_output)
  /\ LET r == Head(dm_output).request
         waiting_for_response == processed_requests[r]
     IN  /\ processed_requests' = [processed_requests EXCEPT ![r] = <<>>]
         /\ SendInput([i \in 1 .. Len(waiting_for_response) |->
                         [type |-> "Respond", id |-> waiting_for_response[i],
                          request |-> r, version |-> Head(dm_output).version]])
  /\ passed' = passed + 1
  /\ UNCHANGED <<rr_output, dm_input, pending_response, libp2p, memory, incoming, answered,
                 resolved, failed, unmatched, used>>

(* AssignedRequestId: remembered until a response comes, and after. *)
PollAssignedRequestId ==
  /\ at = "request_response" /\ rr_output # <<>>
  /\ Head(rr_output).type = "AssignedRequestId"
  /\ rr_output' = Tail(rr_output)
  /\ pending_response' = [pending_response EXCEPT ![Head(rr_output).id] = Head(rr_output).request]
  /\ UNCHANGED <<at, rr_input, dm_input, dm_output, processed_requests, libp2p, memory, past>>

(* Response: passed to the data memory with the request it belongs to, or  *)
(* dropped with a warning if that is unknown.                              *)
PollResponse ==
  /\ at = "request_response" /\ rr_output # <<>>
  /\ Head(rr_output).type = "Response"
  /\ rr_output' = Tail(rr_output)
  /\ LET id == Head(rr_output).id
         request == pending_response[id]
     IN  \/ /\ request = NoRequest
            /\ unmatched' = unmatched \cup {id}
            /\ UNCHANGED <<at, dm_input, resolved>>
         \/ /\ request # NoRequest
            /\ SendDataMemory([type |-> "response", request |-> request])
            /\ resolved' = resolved \cup {id}
            /\ UNCHANGED unmatched
  /\ UNCHANGED <<rr_input, dm_output, maps, libp2p, memory, incoming, answered, failed,
                 passed, used>>

(* IncomingRequest: passed to the data memory, and whom to respond to is   *)
(* remembered under the request.                                           *)
PollIncomingRequest_unsent ==
  /\ at = "request_response" /\ rr_output # <<>>
  /\ Head(rr_output).type = "IncomingRequest"
  /\ rr_output' = Tail(rr_output)
  /\ LET r == Head(rr_output).request
     IN  /\ IF processed_requests[r] = <<>>
            THEN SendDataMemory([type |-> "request", request |-> r])
            ELSE UNCHANGED <<at, dm_input>>
         /\ processed_requests' =
              [processed_requests EXCEPT ![r] = Append(@, Head(rr_output).id)]
  /\ UNCHANGED <<rr_input, dm_output, pending_response, libp2p, memory, past>>
PollIncomingRequest ==
  /\ at = "request_response" /\ rr_output # <<>>
  /\ Head(rr_output).type = "IncomingRequest"
  /\ rr_output' = Tail(rr_output)
  /\ LET r == Head(rr_output).request
     IN  /\ SendDataMemory([type |-> "request", request |-> r])
         /\ processed_requests' =
              [processed_requests EXCEPT ![r] = Append(@, Head(rr_output).id)]
  /\ UNCHANGED <<rr_input, dm_output, pending_response, libp2p, memory, past>>

(* handle_request_response_event: a message goes to the behaviour, a       *)
(* failure to the log.                                                     *)
YieldMessage ==
  /\ at = "network" /\ swarm_events # <<>> /\ Head(swarm_events).type # "failure"
  /\ swarm_events' = Tail(swarm_events)
  /\ LET e == Head(swarm_events)
     IN  SendOutput(IF e.type = "request"
                    THEN [type |-> "IncomingRequest", id |-> e.id, request |-> e.request]
                    ELSE [type |-> "Response", id |-> e.id])
  /\ UNCHANGED <<rr_input, dm_input, dm_output, maps, outbound, last_id, memory, past>>

YieldFailure ==
  /\ at = "network" /\ swarm_events # <<>> /\ Head(swarm_events).type = "failure"
  /\ swarm_events' = Tail(swarm_events)
  /\ failed' = failed \cup {Head(swarm_events).id}
  /\ at' = "select"
  /\ UNCHANGED <<queues, maps, outbound, last_id, memory, incoming, answered,
                 resolved, unmatched, passed, used>>

-----------------------------------------------------------------------------
(* The other branch of select!: one item of request_response.input.        *)

(* MakeRequest: libp2p sends the request and gives it an id, of which the  *)
(* behaviour is told before the task does anything else.                   *)
MakeRequest_try_send ==
  /\ at = "select" /\ rr_input # <<>> /\ Head(rr_input).type = "MakeRequest"
  /\ rr_input' = Tail(rr_input)
  /\ last_id' = last_id + 1
  /\ outbound' = outbound \cup {last_id + 1}
  /\ rr_output' = IF Len(rr_output) < Capacity
                  THEN Append(rr_output, [type |-> "AssignedRequestId", id |-> last_id + 1,
                                          request |-> Head(rr_input).request])
                  ELSE rr_output
  /\ UNCHANGED <<at, dm_input, dm_output, maps, swarm_events, memory, past>>
MakeRequest_old_id ==
  /\ at = "select" /\ rr_input # <<>> /\ Head(rr_input).type = "MakeRequest"
  /\ rr_input' = Tail(rr_input)
  /\ last_id' = last_id + 1
  /\ outbound' = outbound \cup {last_id}
  /\ SendOutput([type |-> "AssignedRequestId", id |-> last_id,
                 request |-> Head(rr_input).request])
  /\ UNCHANGED <<dm_input, dm_output, maps, swarm_events, memory, past>>
MakeRequest ==
  /\ at = "select" /\ rr_input # <<>> /\ Head(rr_input).type = "MakeRequest"
  /\ rr_input' = Tail(rr_input)
  /\ last_id' = last_id + 1
  /\ outbound' = outbound \cup {last_id + 1}
  /\ SendOutput([type |-> "AssignedRequestId", id |-> last_id + 1,
                 request |-> Head(rr_input).request])
  /\ UNCHANGED <<dm_input, dm_output, maps, swarm_events, memory, past>>

(* Respond: whether the peer still waits makes no difference here. *)
Respond ==
  /\ at = "select" /\ rr_input # <<>> /\ Head(rr_input).type = "Respond"
  /\ rr_input' = Tail(rr_input)
  /\ answered' = Append(answered, [id |-> Head(rr_input).id, request |-> Head(rr_input).request,
                                   version |-> Head(rr_input).version])
  /\ UNCHANGED <<at, rr_output, dm_input, dm_output, maps, libp2p, memory, incoming,
                 resolved, failed, unmatched, passed, used>>

-----------------------------------------------------------------------------
(* The data memory, a task of its own. It waits for room in its output.    *)

(* ServeShardRequest and AssignedRequest are answered with what is stored  *)
(* now; responses are its own business. Uninitialized, it ignores all.     *)
HandleDataMemoryInput ==
  /\ dm_input # <<>> /\ Len(dm_output) < Capacity
  /\ dm_input' = Tail(dm_input)
  /\ LET e == Head(dm_input)
     IN  \/ /\ e.type = "request" /\ initialized
            /\ dm_output' = Append(dm_output, [type |-> "response", request |-> e.request,
                                               version |-> shard[e.request]])
            /\ UNCHANGED <<passed, used>>
         \/ /\ e.type = "request" /\ ~ initialized
            /\ passed' = passed + 1
            /\ UNCHANGED <<dm_output, used>>
         \/ /\ e.type = "response"
            /\ used' = used + 1
            /\ UNCHANGED <<dm_output, passed>>
  /\ UNCHANGED <<at, rr_input, rr_output, maps, libp2p, memory, incoming, answered,
                 resolved, failed, unmatched>>

Initialize ==
  /\ ~ initialized /\ initialized' = TRUE
  /\ UNCHANGED <<at, queues, maps, libp2p, shard, asked, past>>

(* A shard is stored, or prepared to be served. *)
StoreShard(r) ==
  /\ initialized /\ shard[r] < MaxVersions
  /\ shard' = [shard EXCEPT ![r] = @ + 1]
  /\ UNCHANGED <<at, queues, maps, libp2p, initialized, asked, past>>

(* A recollection or a storage request needs a shard of another peer. *)
AskForShard(r) ==
  /\ initialized /\ asked < MaxOutgoing /\ Len(dm_output) < Capacity
  /\ asked' = asked + 1
  /\ dm_output' = Append(dm_output, [type |-> "request", request |-> r])
  /\ UNCHANGED <<at, rr_input, rr_output, dm_input, maps, libp2p, initialized, shard, past>>

-----------------------------------------------------------------------------
(* Other peers and the network.                                            *)

RemoteRequest(r) ==
  /\ Len(incoming) < MaxIncoming
  /\ incoming' = Append(incoming, [request |-> r, version |-> shard[r],
                                   initialized |-> initialized])
  /\ swarm_events' = Append(swarm_events, [type |-> "request", id |-> Len(incoming) + 1,
                                           request |-> r])
  /\ UNCHANGED <<at, queues, maps, outbound, last_id, memory, answered, resolved,
                 failed, unmatched, passed, used>>

(* A response arrives, or the request or its response is lost. *)
RemoteResponse(id, type) ==
  /\ id \in outbound
  /\ outbound' = outbound \ {id}
  /\ swarm_events' = Append(swarm_events, [type |-> type, id |-> id])
  /\ UNCHANGED <<at, queues, maps, last_id, memory, past>>

-----------------------------------------------------------------------------
MainTask ==
  \/ StartPoll \/ EndSection
  \/ PollMakeRequest \/ PollRespond
  \/ PollAssignedRequestId \/ PollResponse \/ PollIncomingRequest
  \/ YieldMessage \/ YieldFailure
  \/ MakeRequest \/ Respond

Next ==
  \/ MainTask
  \/ HandleDataMemoryInput \/ Initialize
  \/ \E r \in Requests : StoreShard(r) \/ AskForShard(r) \/ RemoteRequest(r)
  \/ \E id \in outbound, type \in {"response", "failure"} : RemoteResponse(id, type)

(* The runtime runs both tasks, and libp2p times out requests. *)
Fairness ==
  /\ WF_vars(MainTask) /\ WF_vars(HandleDataMemoryInput)
  /\ WF_vars(\E id \in outbound, type \in {"response", "failure"} : RemoteResponse(id, type))

Spec == Init /\ [][Next]_vars
FairSpec == Spec /\ Fairness

-----------------------------------------------------------------------------
(* Properties.                                                             *)

GivenUp == at \in {"blocked", "stopped"}

(* A request of another peer is under way until it is answered and the     *)
(* data memory is done with it too: the answer to an equal request may     *)
(* have come first. One of the data memory is under way until it has       *)
(* handled the response, or there will be none.                            *)
InboundUnderWay ==
  LET unanswered == Len(incoming) - Len(answered)
      pending == Len(incoming) - passed
  IN  IF unanswered >= pending THEN unanswered ELSE pending
OutboundUnderWay == asked - used - Cardinality(failed) - Cardinality(unmatched)
UnderWay == InboundUnderWay + OutboundUnderWay

(* The main task waits for itself, with request_response.output full, or   *)
(* stops for a full queue, only at a moment when more requests are under   *)
(* way than a channel holds: requests that ended leave nothing behind, in  *)
(* however long a run, and none takes two places of a channel.             *)
GivesUpOnlyOverloaded == [][~ GivenUp /\ GivenUp' => UnderWay > Capacity]_vars

(* "Received response for unknown (or already fulfilled) request" is never *)
(* logged: the behaviour learns the id of a request before the response    *)
(* can reach it, whatever select! picks.                                   *)
ResponsesAreMatched == unmatched = {}

(* Equal requests share an entry of processed_requests, and the first      *)
(* answer takes all of it. Still nobody is left in an entry for which no   *)
(* answer is on its way, once the data memory is initialized.              *)
WaitersAreServed == \A r \in Requests : \A i \in 1 .. Len(processed_requests[r]) :
  incoming[processed_requests[r][i]].initialized =>
    \/ \E j \in 1 .. Len(dm_input) : dm_input[j] = [type |-> "request", request |-> r]
    \/ \E j \in 1 .. Len(dm_output) : /\ dm_output[j].type = "response"
                                      /\ dm_output[j].request = r
    \/ GivenUp

(* An answer is for what was asked and is not older than the question: a   *)
(* peer that asks after the shard was stored is not answered from a        *)
(* response to somebody who asked before.                                  *)
AnswersAreFresh == \A i \in 1 .. Len(answered) :
  LET question == incoming[answered[i].id]
  IN  answered[i].request = question.request /\ answered[i].version >= question.version

(* A request that arrives at an initialized data memory is answered,       *)
(* unless the node gives up.                                               *)
IncomingIsAnswered == \A id \in InboundIds :
  (id <= Len(incoming) /\ incoming[id].initialized)
    ~> (GivenUp \/ \E i \in 1 .. Len(answered) : answered[i].id = id)

(* Every request of the data memory ends with a response it receives or    *)
(* with a failure that is logged, unless the node gives up.                *)
OutgoingIsResolved == \A id \in OutboundIds :
  id <= asked ~> (GivenUp \/ id \in resolved \cup failed)

=============================================================================
