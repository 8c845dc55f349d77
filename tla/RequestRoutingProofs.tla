------------------------ MODULE RequestRoutingProofs ------------------------
(* Theorems about request routing, for any set of requests, any capacity   *)
(* of the channels and any bounds.                                         *)
EXTENDS RequestRouting, QueueLemmas

-----------------------------------------------------------------------------
(* What is in the channels, by kind.                                       *)

SwarmEvents == [type : {"request"}, id : InboundIds, request : Requests]
          \cup [type : {"response", "failure"}, id : OutboundIds]
MemoryInputs == [type : {"request", "response"}, request : Requests]
MemoryOutputs == [type : {"request"}, request : Requests]
            \cup [type : {"response"}, request : Requests, version : Versions]
Questions == [request : Requests, version : Versions, initialized : BOOLEAN]
Answers == [id : InboundIds, request : Requests, version : Versions]

Kind(S, types) == {e \in S : e.type \in types}

MakeRequests == Kind(InEvents, {"MakeRequest"})
Responds == Kind(InEvents, {"Respond"})
AssignedIds == Kind(OutEvents, {"AssignedRequestId"})
OutResponses == Kind(OutEvents, {"Response"})
IncomingRequests == Kind(OutEvents, {"IncomingRequest"})
Arrivals == Kind(SwarmEvents, {"request"})
Returns == Kind(SwarmEvents, {"response", "failure"})
Wants == Kind(MemoryOutputs, {"request"})
MemoryAnswers == Kind(MemoryOutputs, {"response"})
MemoryRequests == Kind(MemoryInputs, {"request"})
MemoryResponses == Kind(MemoryInputs, {"response"})

(* The inbound ids that wait for an answer under a request. *)
WaitingFor(r) == {processed_requests[r][i] : i \in 1 .. Len(processed_requests[r])}
Waiting == UNION {WaitingFor(r) : r \in Requests}

-----------------------------------------------------------------------------
(* The inductive invariants.                                               *)

(* An outbound id is given to a request the data memory made, once. *)
OutboundBudget ==
  /\ last_id + Count(rr_input, MakeRequests) + Count(dm_output, Wants) <= asked
  /\ outbound \subseteq 1 .. last_id
  /\ Carried(swarm_events, Returns) \subseteq 1 .. last_id

TypeInv == TypeOK /\ Len(incoming) <= MaxIncoming /\ OutboundBudget

(* libp2p's events are looked at when request_response.output is drained,  *)
(* and an id that may have a response is known by then.                    *)
MatchedInv ==
  /\ at = "network" => rr_output = <<>>
  /\ at # "blocked" => \A id \in outbound \cup Carried(swarm_events, Returns) :
                         pending_response[id] # NoRequest \/ id \in Carried(rr_output, AssignedIds)
  /\ \A id \in Carried(rr_output, OutResponses) : pending_response[id] # NoRequest
  /\ ResponsesAreMatched

(* An inbound id is in one place: an event, a channel, the handlers that   *)
(* wait, or the answers.                                                   *)
PlacedInv ==
  /\ Distinct(swarm_events, Arrivals) /\ Distinct(rr_output, IncomingRequests)
  /\ Distinct(rr_input, Responds) /\ Distinct(answered, Answers)
  /\ \A r \in Requests : \A i, j \in 1 .. Len(processed_requests[r]) :
       processed_requests[r][i] = processed_requests[r][j] => i = j
  /\ \A id \in Carried(swarm_events, Arrivals) :
       id \notin Carried(rr_output, IncomingRequests) \cup Waiting
                   \cup Carried(rr_input, Responds) \cup Carried(answered, Answers)
  /\ \A id \in Carried(rr_output, IncomingRequests) :
       id \notin Waiting \cup Carried(rr_input, Responds) \cup Carried(answered, Answers)
  /\ \A id \in Waiting : id \notin Carried(rr_input, Responds) \cup Carried(answered, Answers)
  /\ \A id \in Carried(rr_input, Responds) : id \notin Carried(answered, Answers)

(* Whatever carries an id carries what was asked under it. *)
AskedInv ==
  /\ \A e \in Content(swarm_events, Arrivals) :
       e.id \in 1 .. Len(incoming) /\ e.request = incoming[e.id].request
  /\ \A e \in Content(rr_output, IncomingRequests) :
       e.id \in 1 .. Len(incoming) /\ e.request = incoming[e.id].request
  /\ \A r \in Requests : \A id \in WaitingFor(r) :
       id \in 1 .. Len(incoming) /\ incoming[id].request = r

(* An answer, on its way or given, fits its question. *)
Fits(answer) ==
  /\ answer.id \in 1 .. Len(incoming)
  /\ answer.request = incoming[answer.id].request
  /\ incoming[answer.id].version <= answer.version

(* A response that leaves the data memory is not older than the questions  *)
(* of those who get it: whoever waits, and whoever will wait before the    *)
(* next poll takes it.                                                     *)
FreshInv ==
  /\ \A id \in 1 .. Len(incoming) : incoming[id].version <= shard[incoming[id].request]
  /\ \A m \in Content(dm_output, MemoryAnswers) :
       \A id \in WaitingFor(m.request) : incoming[id].version <= m.version
  /\ at = "request_response" =>
       \A m \in Content(dm_output, MemoryAnswers), e \in Content(rr_output, IncomingRequests) :
         e.request = m.request => incoming[e.id].version <= m.version
  /\ \A e \in Content(rr_input, Responds) : Fits(e)
  /\ \A e \in Content(answered, Answers) : Fits(e)

(* Whoever waits for an answer has a request or a response on its way.     *)
Asked(r) == \E e \in Content(dm_input, MemoryRequests) : e.request = r
Answerable(r) == \E m \in Content(dm_output, MemoryAnswers) : m.request = r
ServedInv ==
  /\ \A id \in 1 .. Len(incoming) : incoming[id].initialized => initialized
  /\ ~ GivenUp => \A r \in Requests : \A id \in WaitingFor(r) :
       incoming[id].initialized => Asked(r) \/ Answerable(r)

(* What is in the channels is on behalf of requests of other peers and of  *)
(* the data memory that are under way, one item for each.                  *)
InboundLoad == Count(swarm_events, Arrivals) + Count(rr_output, IncomingRequests)
                 + Count(dm_input, MemoryRequests) + Count(dm_output, MemoryAnswers)
OutboundLoad == Count(swarm_events, Returns) + Count(rr_output, OutResponses)
                  + Cardinality(outbound) + Count(dm_input, MemoryResponses)

LoadInv ==
  /\ Count(rr_output, AssignedIds) <= Count(swarm_events, Returns) + Cardinality(outbound)
  /\ InboundLoad + passed <= Len(incoming)
  /\ OutboundLoad + used + Cardinality(failed) <= last_id

-----------------------------------------------------------------------------
(* Type correctness.                                                       *)

(* TypeOK with the names above. *)
Typed ==
  /\ at \in {"select", "data_memory", "request_response", "network", "blocked", "stopped"}
  /\ rr_input \in Bounded(InEvents) /\ rr_output \in Bounded(OutEvents)
  /\ dm_input \in Bounded(MemoryInputs) /\ dm_output \in Bounded(MemoryOutputs)
  /\ pending_response \in [OutboundIds -> Requests \cup {NoRequest}]
  /\ processed_requests \in [Requests -> Seq(InboundIds)]
  /\ swarm_events \in Seq(SwarmEvents)
  /\ outbound \subseteq OutboundIds /\ last_id \in 0 .. MaxOutgoing
  /\ initialized \in BOOLEAN /\ shard \in [Requests -> Versions]
  /\ asked \in 0 .. MaxOutgoing
  /\ incoming \in Seq(Questions) /\ answered \in Seq(Answers)
  /\ resolved \subseteq OutboundIds /\ failed \subseteq OutboundIds
  /\ unmatched \subseteq OutboundIds
  /\ passed \in Nat /\ used \in Nat

(* It is the same. *)
LEMMA TypedIsTypeOK == TypeOK <=> Typed
BY DEF TypeOK, Typed, MemoryInputs, MemoryOutputs, SwarmEvents, Questions, Answers

(* and in the next state. *)
LEMMA TypedIsTypeOKNext == TypeOK' <=> Typed'
BY DEF TypeOK, Typed, MemoryInputs, MemoryOutputs, SwarmEvents, Questions, Answers

(* Channels stay within their capacity. *)
LEMMA BoundedSend ==
  ASSUME NEW S, NEW q \in Bounded(S)
  PROVE  /\ q \in Seq(S) /\ Len(q) \in Nat
         /\ \A e \in S : Len(q) < Capacity => Append(q, e) \in Bounded(S)
         /\ \A p \in Seq(S) : Len(q) + Len(p) <= Capacity => q \o p \in Bounded(S)
         /\ q # <<>> => Tail(q) \in Bounded(S) /\ Head(q) \in S
<1>1. q \in Seq(S) /\ Len(q) <= Capacity /\ Len(q) \in Nat
  BY DEF Bounded
<1>2. ASSUME NEW e \in S, Len(q) < Capacity PROVE Append(q, e) \in Bounded(S)
  <2>1. Append(q, e) \in Seq(S) /\ Len(Append(q, e)) = Len(q) + 1
    BY <1>1
  <2> QED
    BY <1>1, <1>2, <2>1, CapacityAssumption DEF Bounded
<1>3. ASSUME NEW p \in Seq(S), Len(q) + Len(p) <= Capacity PROVE q \o p \in Bounded(S)
  <2>1. q \o p \in Seq(S) /\ Len(q \o p) = Len(q) + Len(p)
    BY <1>1
  <2> QED
    BY <1>3, <2>1 DEF Bounded
<1>4. ASSUME q # <<>> PROVE Tail(q) \in Bounded(S) /\ Head(q) \in S
  <2>1. /\ Tail(q) \in Seq(S) /\ Len(Tail(q)) = Len(q) - 1 /\ Head(q) \in S
    BY <1>1, <1>4, TailPlaces
  <2>2. Len(q) - 1 <= Capacity
    BY <1>1, CapacityAssumption
  <2> QED
    BY <2>1, <2>2 DEF Bounded
<1> QED
  BY <1>1, <1>2, <1>3, <1>4

(* The kinds of items of request_response.input, and their fields. *)
LEMMA InKinds ==
  ASSUME NEW e \in InEvents
  PROVE  /\ e.type \in {"MakeRequest", "Respond"} /\ e.request \in Requests
         /\ e \in MakeRequests <=> e.type = "MakeRequest"
         /\ e \in Responds <=> e.type = "Respond"
         /\ e.type = "Respond" => e.id \in InboundIds /\ e.version \in Versions
<1>1. CASE e \in [type : {"MakeRequest"}, request : Requests]
  BY <1>1 DEF Kind, MakeRequests, Responds
<1>2. CASE e \in [type : {"Respond"}, id : InboundIds, request : Requests, version : Versions]
  BY <1>2 DEF Kind, MakeRequests, Responds
<1> QED
  BY <1>1, <1>2 DEF InEvents

(* Those of request_response.output. *)
LEMMA OutKinds ==
  ASSUME NEW e \in OutEvents
  PROVE  /\ e.type \in {"AssignedRequestId", "Response", "IncomingRequest"}
         /\ e \in AssignedIds <=> e.type = "AssignedRequestId"
         /\ e \in OutResponses <=> e.type = "Response"
         /\ e \in IncomingRequests <=> e.type = "IncomingRequest"
         /\ e.type = "AssignedRequestId" => e.id \in OutboundIds /\ e.request \in Requests
         /\ e.type = "Response" => e.id \in OutboundIds
         /\ e.type = "IncomingRequest" => e.id \in InboundIds /\ e.request \in Requests
<1>1. CASE e \in [type : {"AssignedRequestId"}, id : OutboundIds, request : Requests]
  BY <1>1 DEF Kind, AssignedIds, OutResponses, IncomingRequests
<1>2. CASE e \in [type : {"Response"}, id : OutboundIds]
  BY <1>2 DEF Kind, AssignedIds, OutResponses, IncomingRequests
<1>3. CASE e \in [type : {"IncomingRequest"}, id : InboundIds, request : Requests]
  BY <1>3 DEF Kind, AssignedIds, OutResponses, IncomingRequests
<1> QED
  BY <1>1, <1>2, <1>3 DEF OutEvents

(* Those of libp2p's events. *)
LEMMA SwarmKinds ==
  ASSUME NEW e \in SwarmEvents
  PROVE  /\ e.type \in {"request", "response", "failure"}
         /\ e \in Arrivals <=> e.type = "request"
         /\ e \in Returns <=> e.type # "request"
         /\ e.type = "request" => e.id \in InboundIds /\ e.request \in Requests
         /\ e.type # "request" => e.id \in OutboundIds
<1>1. CASE e \in [type : {"request"}, id : InboundIds, request : Requests]
  BY <1>1 DEF Kind, Arrivals, Returns
<1>2. CASE e \in [type : {"response", "failure"}, id : OutboundIds]
  BY <1>2 DEF Kind, Arrivals, Returns
<1> QED
  BY <1>1, <1>2 DEF SwarmEvents

(* Those of data_memory.input, *)
LEMMA MemoryInKinds ==
  ASSUME NEW e \in MemoryInputs
  PROVE  /\ e.type \in {"request", "response"} /\ e.request \in Requests
         /\ e \in MemoryRequests <=> e.type = "request"
         /\ e \in MemoryResponses <=> e.type = "response"
BY DEF MemoryInputs, Kind, MemoryRequests, MemoryResponses

(* and those of data_memory.output. *)
LEMMA MemoryOutKinds ==
  ASSUME NEW e \in MemoryOutputs
  PROVE  /\ e.type \in {"request", "response"} /\ e.request \in Requests
         /\ e \in Wants <=> e.type = "request"
         /\ e \in MemoryAnswers <=> e.type = "response"
         /\ e.type = "response" => e.version \in Versions
<1>1. CASE e \in [type : {"request"}, request : Requests]
  BY <1>1 DEF Kind, Wants, MemoryAnswers
<1>2. CASE e \in [type : {"response"}, request : Requests, version : Versions]
  BY <1>2 DEF Kind, Wants, MemoryAnswers
<1> QED
  BY <1>1, <1>2 DEF MemoryOutputs

(* What is sent has its kind. *)
LEMMA Items ==
  ASSUME NEW r \in Requests
  PROVE  /\ [type |-> "MakeRequest", request |-> r] \in MakeRequests
         /\ \A id \in InboundIds, v \in Versions :
              [type |-> "Respond", id |-> id, request |-> r, version |-> v] \in Responds
         /\ \A id \in OutboundIds :
              /\ [type |-> "AssignedRequestId", id |-> id, request |-> r] \in AssignedIds
              /\ [type |-> "Response", id |-> id] \in OutResponses
         /\ \A id \in InboundIds :
              /\ [type |-> "IncomingRequest", id |-> id, request |-> r] \in IncomingRequests
              /\ [type |-> "request", id |-> id, request |-> r] \in Arrivals
         /\ [type |-> "request", request |-> r] \in MemoryRequests
         /\ [type |-> "response", request |-> r] \in MemoryResponses
         /\ [type |-> "request", request |-> r] \in Wants
         /\ \A v \in Versions : [type |-> "response", request |-> r, version |-> v] \in MemoryOutputs
BY DEF Kind, MakeRequests, Responds, AssignedIds, OutResponses, IncomingRequests, Arrivals, Wants,
       MemoryRequests, MemoryResponses, InEvents, OutEvents, SwarmEvents, MemoryInputs, MemoryOutputs

(* The channels as sequences, and the counts as numbers. *)
LEMMA Channels ==
  ASSUME Typed
  PROVE  /\ rr_input \in Seq(InEvents) /\ rr_output \in Seq(OutEvents)
         /\ dm_input \in Seq(MemoryInputs) /\ dm_output \in Seq(MemoryOutputs)
         /\ swarm_events \in Seq(SwarmEvents)
         /\ incoming \in Seq(Questions) /\ Len(incoming) \in Nat
         /\ answered \in Seq(Answers) /\ Len(answered) \in Nat
         /\ last_id \in Nat /\ asked \in Nat
BY BoundAssumption DEF Typed, Bounded

(* The sections of the poll. *)
LEMMA Sections ==
  /\ PollOrder[1] = "data_memory"
  /\ Following("data_memory") = "request_response"
  /\ Following("request_response") = "network"
  /\ Following("network") = "select"
<1>1. \A i \in 1 .. 3 : i = 1 \/ i = 2 \/ i = 3
  OBVIOUS
<1>2. (CHOOSE j \in 1 .. 3 : PollOrder[j] = "data_memory") = 1
  BY <1>1 DEF PollOrder
<1>3. (CHOOSE j \in 1 .. 3 : PollOrder[j] = "request_response") = 2
  BY <1>1 DEF PollOrder
<1>4. (CHOOSE j \in 1 .. 3 : PollOrder[j] = "network") = 3
  BY <1>1 DEF PollOrder
<1>5. PollOrder[1] = "data_memory" /\ PollOrder[1 + 1] = "request_response"
      /\ PollOrder[2 + 1] = "network"
  BY DEF PollOrder
<1>6. Following("data_memory") = "request_response"
  BY <1>2, <1>5 DEF Following
<1>7. Following("request_response") = "network"
  BY <1>3, <1>5 DEF Following
<1>8. Following("network") = "select"
  BY <1>4 DEF Following
<1> QED
  BY <1>5, <1>6, <1>7, <1>8

(* Initially nothing is under way. *)
LEMMA TypeInit == Init => TypeInv
<1> SUFFICES ASSUME Init PROVE TypeInv
  OBVIOUS
<1>1. <<>> \in Seq(InEvents) /\ <<>> \in Seq(OutEvents) /\ <<>> \in Seq(MemoryInputs)
      /\ <<>> \in Seq(MemoryOutputs) /\ <<>> \in Seq(SwarmEvents) /\ <<>> \in Seq(Questions)
      /\ <<>> \in Seq(Answers) /\ <<>> \in Seq(InboundIds) /\ Len(<<>>) = 0
  OBVIOUS
<1>2. Typed
  <2>1. \A S : <<>> \in Bounded(S)
    BY CapacityAssumption DEF Bounded
  <2>2. 0 \in Versions /\ 0 \in 0 .. MaxOutgoing
    BY BoundAssumption DEF Versions
  <2>3. /\ pending_response \in [OutboundIds -> Requests \cup {NoRequest}]
        /\ processed_requests \in [Requests -> Seq(InboundIds)]
        /\ shard \in [Requests -> Versions]
    BY <1>1, <2>2 DEF Init
  <2> QED
    BY <1>1, <2>1, <2>2, <2>3 DEF Init, Typed
<1>3. OutboundBudget
  <2>1. Count(rr_input, MakeRequests) = 0 /\ Count(dm_output, Wants) = 0
        /\ Carried(swarm_events, Returns) = {}
    BY CountEmpty DEF Init
  <2> QED
    BY <2>1 DEF Init, OutboundBudget
<1>4. Len(incoming) <= MaxIncoming
  BY <1>1, BoundAssumption DEF Init
<1> QED
  BY <1>2, <1>3, <1>4, TypedIsTypeOK DEF TypeInv

(* The responses to everybody who waits. *)
RespondTo(w, r, v) ==
  [i \in 1 .. Len(w) |-> [type |-> "Respond", id |-> w[i], request |-> r, version |-> v]]

(* They are items of request_response.input. *)
LEMMA RespondItems ==
  ASSUME NEW r \in Requests, NEW v \in Versions, NEW w \in Seq(InboundIds)
  PROVE  /\ RespondTo(w, r, v) \in Seq(InEvents) /\ Len(RespondTo(w, r, v)) = Len(w)
         /\ \A i \in 1 .. Len(w) : /\ RespondTo(w, r, v)[i] \in Responds
                                   /\ RespondTo(w, r, v)[i] \notin MakeRequests
                                   /\ RespondTo(w, r, v)[i].id = w[i]
                                   /\ RespondTo(w, r, v)[i].request = r
                                   /\ RespondTo(w, r, v)[i].version = v
<1>1. Len(w) \in Nat /\ \A i \in 1 .. Len(w) : w[i] \in InboundIds
  OBVIOUS
<1>2. \A i \in 1 .. Len(w) :
        RespondTo(w, r, v)[i] = [type |-> "Respond", id |-> w[i], request |-> r, version |-> v]
  BY DEF RespondTo
<1>3. \A i \in 1 .. Len(w) : /\ RespondTo(w, r, v)[i] \in Responds
                             /\ RespondTo(w, r, v)[i].id = w[i]
                             /\ RespondTo(w, r, v)[i].request = r
                             /\ RespondTo(w, r, v)[i].version = v
                             /\ RespondTo(w, r, v)[i].type = "Respond"
  <2> SUFFICES ASSUME NEW i \in 1 .. Len(w)
               PROVE  /\ RespondTo(w, r, v)[i] \in Responds
                      /\ RespondTo(w, r, v)[i].id = w[i]
                      /\ RespondTo(w, r, v)[i].request = r
                      /\ RespondTo(w, r, v)[i].version = v
                      /\ RespondTo(w, r, v)[i].type = "Respond"
    OBVIOUS
  <2>1. PICK id \in InboundIds : id = w[i]
    BY <1>1
  <2>2. RespondTo(w, r, v)[i] = [type |-> "Respond", id |-> id, request |-> r, version |-> v]
    BY <1>2, <2>1
  <2>3. [type |-> "Respond", id |-> id, request |-> r, version |-> v] \in Responds
    BY Items
  <2> QED
    BY <2>1, <2>2, <2>3
<1>4. \A i \in 1 .. Len(w) : RespondTo(w, r, v)[i] \in InEvents
  BY <1>3 DEF Responds, Kind
<1>5. RespondTo(w, r, v) \in [1 .. Len(w) -> InEvents]
  BY <1>4 DEF RespondTo
<1>6. RespondTo(w, r, v) \in Seq(InEvents) /\ Len(RespondTo(w, r, v)) = Len(w)
  BY <1>1, <1>5
<1> QED
  BY <1>3, <1>4, <1>6, InKinds

(* A poll sends its items, or the first of them and stops. *)
LEMMA SendInputType ==
  ASSUME Typed, NEW items \in Seq(InEvents), SendInput(items)
  PROVE  /\ rr_input' \in Bounded(InEvents)
         /\ \/ rr_input' = rr_input \o items /\ at' = at
            \/ \E n \in 0 .. Len(items) :
                 /\ rr_input' = rr_input \o SubSeq(items, 1, n) /\ at' = "stopped"
                 /\ n = Capacity - Len(rr_input)
                 /\ ~ (Len(rr_input) + Len(items) <= Capacity)
<1>1. /\ rr_input \in Bounded(InEvents) /\ rr_input \in Seq(InEvents)
      /\ Len(rr_input) \in Nat /\ Len(rr_input) <= Capacity
      /\ Len(items) \in Nat /\ Capacity \in Nat
  BY CapacityAssumption DEF Typed, Bounded
<1>2. CASE Len(items) <= Capacity - Len(rr_input)
  <2>1. rr_input' = rr_input \o items /\ at' = at
    BY <1>2 DEF SendInput
  <2>2. Len(rr_input) + Len(items) <= Capacity
    BY <1>1, <1>2
  <2> QED
    BY <1>1, <2>1, <2>2, BoundedSend
<1>3. CASE ~ (Len(items) <= Capacity - Len(rr_input))
  <2>1. PICK n : n = Capacity - Len(rr_input)
    OBVIOUS
  <2>2. rr_input' = rr_input \o SubSeq(items, 1, n) /\ at' = "stopped"
    BY <1>3, <2>1 DEF SendInput
  <2>3. n \in 0 .. Len(items) /\ Len(rr_input) + n <= Capacity
        /\ ~ (Len(rr_input) + Len(items) <= Capacity)
    BY <1>1, <1>3, <2>1
  <2>4. PICK front : front = SubSeq(items, 1, n)
    OBVIOUS
  <2>5. front \in Seq(InEvents) /\ Len(front) = n
    BY <2>3, <2>4, FrontPlaces
  <2>6. rr_input \o front \in Bounded(InEvents)
    BY <1>1, <2>3, <2>5, BoundedSend
  <2> QED
    BY <2>1, <2>2, <2>3, <2>4, <2>6
<1> QED
  BY <1>2, <1>3

(* One item is sent or not. *)
LEMMA SendInputOne ==
  ASSUME Typed, NEW item \in InEvents, SendInput(<<item>>)
  PROVE  /\ rr_input' \in Bounded(InEvents)
         /\ \/ rr_input' = Append(rr_input, item) /\ at' = at
            \/ rr_input' = rr_input /\ at' = "stopped" /\ ~ (Len(rr_input) + 1 <= Capacity)
<1>1. /\ rr_input \in Seq(InEvents) /\ Len(rr_input) \in Nat /\ Len(rr_input) <= Capacity
      /\ Capacity \in Nat
  BY CapacityAssumption DEF Typed, Bounded
<1>2. PICK items : items = <<item>>
  OBVIOUS
<1>3. items \in Seq(InEvents) /\ Len(items) = 1 /\ rr_input \o items = Append(rr_input, item)
      /\ SendInput(items)
  BY <1>1, <1>2
<1>4. /\ rr_input' \in Bounded(InEvents)
      /\ \/ rr_input' = rr_input \o items /\ at' = at
         \/ \E n \in 0 .. 1 :
              /\ rr_input' = rr_input \o SubSeq(items, 1, n) /\ at' = "stopped"
              /\ n = Capacity - Len(rr_input) /\ ~ (Len(rr_input) + 1 <= Capacity)
  BY <1>3, SendInputType
<1>5. SubSeq(items, 1, 0) = <<>>
  BY SubSeqEmpty
<1>6. rr_input \o <<>> = rr_input
  BY <1>1
<1>7. ASSUME NEW n \in 0 .. 1, n = Capacity - Len(rr_input), ~ (Len(rr_input) + 1 <= Capacity)
      PROVE  n = 0
  BY <1>1, <1>7
<1> QED
  BY <1>3, <1>4, <1>5, <1>6, <1>7

(* To the data memory, *)
LEMMA SendDataMemoryType ==
  ASSUME Typed, NEW item \in MemoryInputs, SendDataMemory(item)
  PROVE  /\ dm_input' \in Bounded(MemoryInputs)
         /\ dm_input' = Append(dm_input, item) \/ dm_input' = dm_input
         /\ at' = at \/ at' = "stopped"
<1>1. dm_input \in Bounded(MemoryInputs)
  BY DEF Typed
<1>2. CASE Len(dm_input) < Capacity
  BY <1>1, <1>2, BoundedSend DEF SendDataMemory
<1>3. CASE ~ (Len(dm_input) < Capacity)
  BY <1>1, <1>3 DEF SendDataMemory
<1> QED
  BY <1>2, <1>3

(* and to the behaviour. *)
LEMMA SendOutputType ==
  ASSUME Typed, NEW item \in OutEvents, SendOutput(item)
  PROVE  /\ rr_output' \in Bounded(OutEvents)
         /\ \/ rr_output' = Append(rr_output, item) /\ at' = "select"
            \/ rr_output' = rr_output /\ at' = "blocked" /\ ~ (Len(rr_output) < Capacity)
<1>1. rr_output \in Bounded(OutEvents)
  BY DEF Typed
<1>2. CASE Len(rr_output) < Capacity
  BY <1>1, <1>2, BoundedSend DEF SendOutput
<1>3. CASE ~ (Len(rr_output) < Capacity)
  BY <1>1, <1>3 DEF SendOutput
<1> QED
  BY <1>2, <1>3

(* Every step keeps the state typed, and the ids within the budget. *)
LEMMA TypeNext == TypeInv /\ [Next]_vars => TypeInv'
<1> SUFFICES ASSUME TypeInv, [Next]_vars PROVE TypeInv'
  OBVIOUS
<1>1. Typed /\ Len(incoming) <= MaxIncoming /\ OutboundBudget
  BY TypedIsTypeOK DEF TypeInv
<1>2. SUFFICES Typed' /\ Len(incoming') <= MaxIncoming /\ OutboundBudget'
  BY TypedIsTypeOKNext DEF TypeInv
<1>3. /\ rr_input \in Seq(InEvents) /\ rr_output \in Seq(OutEvents)
      /\ dm_input \in Seq(MemoryInputs) /\ dm_output \in Seq(MemoryOutputs)
      /\ swarm_events \in Seq(SwarmEvents)
      /\ incoming \in Seq(Questions) /\ Len(incoming) \in Nat
      /\ answered \in Seq(Answers) /\ last_id \in Nat /\ asked \in Nat
  BY <1>1, Channels
<1>4. /\ Count(rr_input, MakeRequests) \in Nat /\ Count(dm_output, Wants) \in Nat
      /\ MaxIncoming \in Nat /\ MaxOutgoing \in Nat /\ asked <= MaxOutgoing
  BY <1>1, <1>3, CountType, BoundAssumption DEF Typed
<1>5. CASE UNCHANGED vars
  BY <1>1, <1>5 DEF Typed, OutboundBudget, vars, queues, maps, libp2p, memory, past
<1>6. CASE StartPoll
  BY <1>1, <1>6, Sections
     DEF StartPoll, Typed, OutboundBudget, queues, maps, libp2p, memory, past
<1>7. CASE EndSection
  BY <1>1, <1>7, Sections
     DEF EndSection, Typed, OutboundBudget, queues, maps, libp2p, memory, past
<1>8. CASE PollMakeRequest
  <2>1. Head(dm_output) \in MemoryOutputs /\ Head(dm_output) \in Wants
        /\ Head(dm_output).request \in Requests /\ Tail(dm_output) \in Bounded(MemoryOutputs)
    BY <1>1, <1>3, <1>8, BoundedSend, MemoryOutKinds DEF PollMakeRequest, Typed
  <2>2. PICK item : item = [type |-> "MakeRequest", request |-> Head(dm_output).request]
    OBVIOUS
  <2>3. item \in MakeRequests /\ item \in InEvents
    BY <2>1, <2>2, Items DEF MakeRequests, Kind
  <2>4. SendInput(<<item>>)
    BY <1>8, <2>2 DEF PollMakeRequest
  <2>5. /\ rr_input' \in Bounded(InEvents)
        /\ rr_input' = Append(rr_input, item) \/ rr_input' = rr_input
        /\ at' = at \/ at' = "stopped"
    BY <1>1, <2>3, <2>4, SendInputOne
  <2>6. Typed'
    BY <1>1, <1>8, <2>1, <2>5 DEF PollMakeRequest, Typed, maps, libp2p, memory, past
  <2>7. Count(rr_input', MakeRequests) <= Count(rr_input, MakeRequests) + 1
    <3>1. Count(Append(rr_input, item), MakeRequests) = Count(rr_input, MakeRequests) + 1
      BY <1>3, <2>3, CountAppend
    <3>2. CASE rr_input' = rr_input
      BY <1>4, <3>2
    <3>3. CASE rr_input' = Append(rr_input, item)
      BY <1>4, <3>1, <3>3
    <3> QED
      BY <2>5, <3>2, <3>3
  <2>8. Count(rr_input', MakeRequests) \in Nat
    BY <2>5, CountType DEF Bounded
  <2>9. Count(dm_output, Wants) = Count(dm_output', Wants) + 1 /\ Count(dm_output', Wants) \in Nat
    BY <1>3, <1>8, <2>1, CountTail DEF PollMakeRequest
  <2>10. last_id' + Count(rr_input', MakeRequests) + Count(dm_output', Wants) <= asked'
    <3>1. last_id' = last_id /\ asked' = asked
      BY <1>8 DEF PollMakeRequest, libp2p, memory
    <3>2. last_id + Count(rr_input, MakeRequests) + Count(dm_output, Wants) <= asked
      BY <1>1 DEF OutboundBudget
    <3>3. PICK i, j, w, x : /\ i = Count(rr_input, MakeRequests) /\ j = Count(rr_input', MakeRequests)
                            /\ w = Count(dm_output, Wants) /\ x = Count(dm_output', Wants)
      OBVIOUS
    <3>4. /\ i \in Nat /\ j \in Nat /\ w \in Nat /\ x \in Nat
          /\ j <= i + 1 /\ w = x + 1 /\ last_id + i + w <= asked
      BY <1>4, <2>7, <2>8, <2>9, <3>2, <3>3
    <3>5. last_id \in Nat /\ asked \in Nat
      BY <1>3, <1>4
    <3>6. last_id + j + x <= asked
      BY <3>4, <3>5
    <3> QED
      BY <3>1, <3>3, <3>6
  <2> QED
    BY <1>1, <1>8, <2>6, <2>10 DEF PollMakeRequest, OutboundBudget, libp2p, past
<1>9. CASE PollRespond
  <2>1. PICK r, v, w : r = Head(dm_output).request /\ v = Head(dm_output).version
                       /\ w = processed_requests[r]
    OBVIOUS
  <2>2. r \in Requests /\ v \in Versions /\ Head(dm_output) \notin Wants
        /\ Tail(dm_output) \in Bounded(MemoryOutputs)
    BY <1>1, <1>3, <1>9, <2>1, BoundedSend, MemoryOutKinds DEF PollRespond, Typed
  <2>3. w \in Seq(InboundIds)
    BY <1>1, <2>1, <2>2 DEF Typed
  <2>4. PICK items : items = RespondTo(w, r, v)
    OBVIOUS
  <2>5. items \in Seq(InEvents) /\ \A i \in 1 .. Len(items) : items[i] \notin MakeRequests
    BY <2>2, <2>3, <2>4, RespondItems
  <2>6. SendInput(items)
    BY <1>9, <2>1, <2>4 DEF PollRespond, RespondTo
  <2>7. /\ rr_input' \in Bounded(InEvents)
        /\ \E n \in 0 .. Len(items) : rr_input' = rr_input \o SubSeq(items, 1, n)
        /\ at' = at \/ at' = "stopped"
    <3>1. Len(items) \in Nat /\ Len(items) \in 0 .. Len(items)
      BY <2>5
    <3>2. PICK front : front = SubSeq(items, 1, Len(items))
      OBVIOUS
    <3>3. front = items
      BY <2>5, <3>1, <3>2, FrontPlaces
    <3> QED
      BY <1>1, <2>5, <2>6, <3>1, <3>2, <3>3, SendInputType
  <2>8. processed_requests' \in [Requests -> Seq(InboundIds)]
    <3>1. processed_requests' = [processed_requests EXCEPT ![r] = <<>>] /\ <<>> \in Seq(InboundIds)
      BY <1>9, <2>1 DEF PollRespond
    <3> QED
      BY <1>1, <3>1 DEF Typed
  <2>9. Typed'
    BY <1>1, <1>9, <2>2, <2>7, <2>8 DEF PollRespond, Typed, maps, libp2p, memory, past
  <2>10. Count(rr_input', MakeRequests) = Count(rr_input, MakeRequests)
    <3>a. PICK n \in 0 .. Len(items) : rr_input' = rr_input \o SubSeq(items, 1, n)
      BY <2>7
    <3>1. PICK front : front = SubSeq(items, 1, n) /\ rr_input' = rr_input \o front
      BY <3>a
    <3>2. front \in Seq(InEvents) /\ Len(front) = n /\ \A i \in 1 .. n : front[i] = items[i]
      BY <2>5, <3>1, FrontPlaces
    <3>3. \A i \in 1 .. Len(front) : i \in 1 .. Len(items)
      BY <2>5, <3>2
    <3>4. \A i \in 1 .. Len(front) : front[i] \notin MakeRequests
      BY <2>5, <3>2, <3>3
    <3> QED
      BY <1>3, <3>1, <3>2, <3>4, CountConcat
  <2>11. Count(dm_output, Wants) = Count(dm_output', Wants)
    BY <1>3, <1>9, <2>2, CountTail DEF PollRespond
  <2> QED
    BY <1>1, <1>9, <2>9, <2>10, <2>11
       DEF PollRespond, OutboundBudget, maps, libp2p, memory, past
<1>10. CASE PollAssignedRequestId
  <2>1. Head(rr_output).id \in OutboundIds /\ Head(rr_output).request \in Requests
        /\ Tail(rr_output) \in Bounded(OutEvents)
    BY <1>1, <1>3, <1>10, BoundedSend, OutKinds DEF PollAssignedRequestId, Typed
  <2>2. pending_response' \in [OutboundIds -> Requests \cup {NoRequest}]
    BY <1>1, <1>10, <2>1 DEF PollAssignedRequestId, Typed
  <2> QED
    BY <1>1, <1>10, <2>1, <2>2
       DEF PollAssignedRequestId, Typed, OutboundBudget, maps, libp2p, memory, past
<1>11. CASE PollResponse
  <2>1. PICK id : id = Head(rr_output).id
    OBVIOUS
  <2>2. id \in OutboundIds /\ Tail(rr_output) \in Bounded(OutEvents)
    BY <1>1, <1>3, <1>11, <2>1, BoundedSend, OutKinds DEF PollResponse, Typed
  <2>3. pending_response[id] \in Requests \cup {NoRequest}
    BY <1>1, <2>2 DEF Typed
  <2>4. dm_input' \in Bounded(MemoryInputs) /\ (at' = at \/ at' = "stopped")
    <3>1. CASE pending_response[id] = NoRequest
      BY <1>1, <1>11, <2>1, <3>1 DEF PollResponse, Typed
    <3>2. CASE pending_response[id] # NoRequest
      <4>1. PICK item : item = [type |-> "response", request |-> pending_response[id]]
        OBVIOUS
      <4>2. item \in MemoryInputs
        BY <2>3, <3>2, <4>1, Items DEF MemoryResponses, Kind
      <4>3. SendDataMemory(item)
        BY <1>11, <2>1, <3>2, <4>1 DEF PollResponse
      <4> QED
        BY <1>1, <4>2, <4>3, SendDataMemoryType
    <3> QED
      BY <3>1, <3>2
  <2>5. resolved' \subseteq OutboundIds /\ unmatched' \subseteq OutboundIds
    BY <1>1, <1>11, <2>1, <2>2 DEF PollResponse, Typed
  <2> QED
    BY <1>1, <1>11, <2>2, <2>4, <2>5
       DEF PollResponse, Typed, OutboundBudget, maps, libp2p, memory, past
<1>12. CASE PollIncomingRequest
  <2>1. PICK r, id : r = Head(rr_output).request /\ id = Head(rr_output).id
    OBVIOUS
  <2>2. r \in Requests /\ id \in InboundIds /\ Tail(rr_output) \in Bounded(OutEvents)
    BY <1>1, <1>3, <1>12, <2>1, BoundedSend, OutKinds DEF PollIncomingRequest, Typed
  <2>3. processed_requests' \in [Requests -> Seq(InboundIds)]
    <3>1. processed_requests[r] \in Seq(InboundIds)
      BY <1>1, <2>2 DEF Typed
    <3>2. Append(processed_requests[r], id) \in Seq(InboundIds)
      BY <2>2, <3>1
    <3> QED
      BY <1>1, <1>12, <2>1, <3>2 DEF PollIncomingRequest, Typed
  <2>4. PICK item : item = [type |-> "request", request |-> r]
    OBVIOUS
  <2>5. item \in MemoryInputs
    BY <2>2, <2>4, Items DEF MemoryRequests, Kind
  <2>6. SendDataMemory(item)
    BY <1>12, <2>1, <2>4 DEF PollIncomingRequest
  <2>7. dm_input' \in Bounded(MemoryInputs) /\ (at' = at \/ at' = "stopped")
    BY <1>1, <2>5, <2>6, SendDataMemoryType
  <2> QED
    BY <1>1, <1>12, <2>2, <2>3, <2>7
       DEF PollIncomingRequest, Typed, OutboundBudget, maps, libp2p, memory, past
<1>13. CASE YieldMessage
  <2>1. PICK e : e = Head(swarm_events)
    OBVIOUS
  <2>2. e \in SwarmEvents /\ swarm_events' \in Seq(SwarmEvents)
    BY <1>3, <1>13, <2>1, TailPlaces DEF YieldMessage
  <2>3. PICK item : item = IF e.type = "request"
                           THEN [type |-> "IncomingRequest", id |-> e.id, request |-> e.request]
                           ELSE [type |-> "Response", id |-> e.id]
    OBVIOUS
  <2>4. item \in OutEvents
    <3>1. CASE e.type = "request"
      BY <2>2, <2>3, <3>1, SwarmKinds DEF OutEvents
    <3>2. CASE e.type # "request"
      BY <2>2, <2>3, <3>2, SwarmKinds DEF OutEvents
    <3> QED
      BY <3>1, <3>2
  <2>5. SendOutput(item)
    BY <1>13, <2>1, <2>3 DEF YieldMessage
  <2>6. rr_output' \in Bounded(OutEvents) /\ (at' = "select" \/ at' = "blocked")
    BY <1>1, <2>4, <2>5, SendOutputType
  <2>7. Carried(swarm_events', Returns) \subseteq Carried(swarm_events, Returns)
    BY <1>3, <1>13, CarriedTail DEF YieldMessage
  <2> QED
    BY <1>1, <1>13, <2>2, <2>6, <2>7
       DEF YieldMessage, Typed, OutboundBudget, maps, memory, past
<1>14. CASE YieldFailure
  <2>1. Head(swarm_events) \in SwarmEvents /\ swarm_events' \in Seq(SwarmEvents)
    BY <1>3, <1>14, TailPlaces DEF YieldFailure
  <2>2. Head(swarm_events).id \in OutboundIds
    BY <1>14, <2>1, SwarmKinds DEF YieldFailure
  <2>3. Carried(swarm_events', Returns) \subseteq Carried(swarm_events, Returns)
    BY <1>3, <1>14, CarriedTail DEF YieldFailure
  <2> QED
    BY <1>1, <1>14, <2>1, <2>2, <2>3
       DEF YieldFailure, Typed, OutboundBudget, queues, maps, memory, past
<1>15. CASE MakeRequest
  <2>1. Head(rr_input) \in MakeRequests /\ Head(rr_input).request \in Requests
        /\ Tail(rr_input) \in Bounded(InEvents)
    BY <1>1, <1>3, <1>15, BoundedSend, InKinds DEF MakeRequest, Typed
  <2>2. /\ Count(rr_input, MakeRequests) = Count(rr_input', MakeRequests) + 1
        /\ Count(rr_input', MakeRequests) \in Nat
    BY <1>3, <1>15, <2>1, CountTail DEF MakeRequest
  <2>3. last_id + 1 <= MaxOutgoing /\ last_id + 1 \in OutboundIds
    <3>1. PICK i, w : i = Count(rr_input, MakeRequests) /\ w = Count(dm_output, Wants)
      OBVIOUS
    <3>2. last_id + i + w <= asked /\ i >= 1 /\ i \in Nat /\ w \in Nat
      BY <1>1, <1>4, <2>2, <3>1 DEF OutboundBudget
    <3>3. last_id \in Nat /\ asked \in Nat /\ asked <= MaxOutgoing /\ MaxOutgoing \in Nat
      BY <1>3, <1>4
    <3> QED
      BY <3>2, <3>3 DEF OutboundIds
  <2>4. PICK item : item = [type |-> "AssignedRequestId", id |-> last_id + 1,
                            request |-> Head(rr_input).request]
    OBVIOUS
  <2>5. item \in OutEvents
    BY <2>1, <2>3, <2>4, Items DEF AssignedIds, Kind
  <2>6. SendOutput(item)
    BY <1>15, <2>4 DEF MakeRequest
  <2>7. rr_output' \in Bounded(OutEvents) /\ (at' = "select" \/ at' = "blocked")
    BY <1>1, <2>5, <2>6, SendOutputType
  <2>8. last_id' = last_id + 1 /\ outbound' = outbound \cup {last_id + 1}
    BY <1>15 DEF MakeRequest
  <2>9. Typed'
    BY <1>1, <1>3, <1>4, <1>15, <2>1, <2>3, <2>7, <2>8 DEF MakeRequest, Typed, maps, memory, past
  <2>10. /\ 1 .. last_id \subseteq 1 .. last_id + 1 /\ last_id + 1 \in 1 .. last_id + 1
    BY <1>3
  <2>11. last_id' + Count(rr_input', MakeRequests) + Count(dm_output', Wants) <= asked'
    BY <1>1, <1>3, <1>4, <1>15, <2>2, <2>8 DEF MakeRequest, OutboundBudget, memory
  <2> QED
    BY <1>1, <1>15, <2>8, <2>9, <2>10, <2>11 DEF MakeRequest, OutboundBudget, maps, memory, past
<1>16. CASE Respond
  <2>1. Head(rr_input) \in InEvents /\ Head(rr_input) \in Responds
        /\ Head(rr_input) \notin MakeRequests /\ Tail(rr_input) \in Bounded(InEvents)
    BY <1>1, <1>3, <1>16, BoundedSend, InKinds DEF Respond, Typed
  <2>2. PICK answer : answer = [id |-> Head(rr_input).id, request |-> Head(rr_input).request,
                                version |-> Head(rr_input).version]
    OBVIOUS
  <2>3. answer \in Answers
    BY <2>1, <2>2, InKinds DEF Answers
  <2>4. answered' = Append(answered, answer) /\ answered' \in Seq(Answers)
    BY <1>3, <1>16, <2>2, <2>3 DEF Respond
  <2>5. Count(rr_input, MakeRequests) = Count(rr_input', MakeRequests)
    BY <1>3, <1>16, <2>1, CountTail DEF Respond
  <2> QED
    BY <1>1, <1>16, <2>1, <2>4, <2>5 DEF Respond, Typed, OutboundBudget, maps, libp2p, memory, past
<1>17. CASE HandleDataMemoryInput
  <2>1. PICK e : e = Head(dm_input)
    OBVIOUS
  <2>2. e \in MemoryInputs /\ e.request \in Requests /\ Tail(dm_input) \in Bounded(MemoryInputs)
    BY <1>1, <1>17, <2>1, BoundedSend, MemoryInKinds DEF HandleDataMemoryInput, Typed
  <2>3. shard[e.request] \in Versions
    BY <1>1, <2>2 DEF Typed
  <2>4. PICK item : item = [type |-> "response", request |-> e.request, version |-> shard[e.request]]
    OBVIOUS
  <2>5. item \in MemoryOutputs /\ item \notin Wants
    <3>1. item \in MemoryOutputs /\ item.type = "response"
      BY <2>2, <2>3, <2>4, Items
    <3> QED
      BY <3>1, MemoryOutKinds
  <2>6. dm_output' = Append(dm_output, item) \/ dm_output' = dm_output
    <3>1. \/ dm_output' = Append(dm_output, [type |-> "response", request |-> Head(dm_input).request,
                                              version |-> shard[Head(dm_input).request]])
          \/ dm_output' = dm_output
      BY <1>17, Zenon DEF HandleDataMemoryInput
    <3> QED
      BY <2>1, <2>4, <3>1
  <2>7. dm_output' \in Bounded(MemoryOutputs)
    <3>1. dm_output \in Bounded(MemoryOutputs) /\ Len(dm_output) < Capacity
      BY <1>1, <1>17 DEF HandleDataMemoryInput, Typed
    <3>2. Append(dm_output, item) \in Bounded(MemoryOutputs)
      BY <2>5, <3>1, BoundedSend
    <3> QED
      BY <2>6, <3>1, <3>2
  <2>8. Count(dm_output', Wants) = Count(dm_output, Wants)
    <3>1. Count(Append(dm_output, item), Wants) = Count(dm_output, Wants) + 0
      BY <1>3, <2>5, CountAppend
    <3>2. CASE dm_output' = dm_output
      BY <3>2
    <3>3. CASE dm_output' = Append(dm_output, item)
      BY <1>4, <3>1, <3>3
    <3> QED
      BY <2>6, <3>2, <3>3
  <2>9. /\ dm_input' = Tail(dm_input)
        /\ UNCHANGED <<at, rr_input, rr_output, maps, libp2p, memory, incoming, answered,
                       resolved, failed, unmatched>>
    BY <1>17 DEF HandleDataMemoryInput
  <2>10. passed' \in {passed, passed + 1} /\ used' \in {used, used + 1}
    BY <1>17, Zenon DEF HandleDataMemoryInput
  <2>11. passed' \in Nat /\ used' \in Nat
    BY <1>1, <2>10 DEF Typed
  <2> QED
    BY <1>1, <2>2, <2>7, <2>8, <2>9, <2>11
       DEF Typed, OutboundBudget, maps, libp2p, memory
<1>18. CASE Initialize
  BY <1>1, <1>18 DEF Initialize, Typed, OutboundBudget, queues, maps, libp2p, past
<1>19. ASSUME NEW r \in Requests, StoreShard(r)
       PROVE  Typed' /\ Len(incoming') <= MaxIncoming /\ OutboundBudget'
  <2>1. shard[r] + 1 \in Versions
    BY <1>1, <1>19, BoundAssumption DEF StoreShard, Typed, Versions
  <2>2. shard' \in [Requests -> Versions]
    BY <1>1, <1>19, <2>1 DEF StoreShard, Typed
  <2> QED
    BY <1>1, <1>19, <2>2 DEF StoreShard, Typed, OutboundBudget, queues, maps, libp2p, past
<1>20. ASSUME NEW r \in Requests, AskForShard(r)
       PROVE  Typed' /\ Len(incoming') <= MaxIncoming /\ OutboundBudget'
  <2>1. PICK item : item = [type |-> "request", request |-> r]
    OBVIOUS
  <2>2. item \in Wants /\ item \in MemoryOutputs
    BY <2>1, Items DEF Wants, Kind
  <2>3. dm_output' = Append(dm_output, item) /\ Len(dm_output) < Capacity
    BY <1>20, <2>1 DEF AskForShard
  <2>4. dm_output' \in Bounded(MemoryOutputs)
    BY <1>1, <2>2, <2>3, BoundedSend DEF Typed
  <2>5. Count(dm_output', Wants) = Count(dm_output, Wants) + 1
    BY <1>3, <2>2, <2>3, CountAppend
  <2>6. asked' = asked + 1 /\ asked' \in 0 .. MaxOutgoing
    BY <1>3, <1>4, <1>20 DEF AskForShard
  <2>7. Typed'
    BY <1>1, <1>20, <2>4, <2>6 DEF AskForShard, Typed, maps, libp2p, past
  <2>8. last_id' + Count(rr_input', MakeRequests) + Count(dm_output', Wants) <= asked'
    <3>1. last_id' = last_id /\ rr_input' = rr_input
      BY <1>20 DEF AskForShard, libp2p
    <3>2. last_id + Count(rr_input, MakeRequests) + Count(dm_output, Wants) <= asked
      BY <1>1 DEF OutboundBudget
    <3> QED
      BY <1>3, <1>4, <2>5, <2>6, <3>1, <3>2, SMTT(30)
  <2> QED
    BY <1>1, <1>20, <2>7, <2>8 DEF AskForShard, OutboundBudget, libp2p, past
<1>21. ASSUME NEW r \in Requests, RemoteRequest(r)
       PROVE  Typed' /\ Len(incoming') <= MaxIncoming /\ OutboundBudget'
  <2>1. PICK question : question = [request |-> r, version |-> shard[r], initialized |-> initialized]
    OBVIOUS
  <2>2. question \in Questions
    BY <1>1, <2>1 DEF Typed, Questions
  <2>3. incoming' = Append(incoming, question)
    BY <1>21, <2>1 DEF RemoteRequest
  <2>4. incoming' \in Seq(Questions) /\ Len(incoming') = Len(incoming) + 1
    BY <1>3, <2>2, <2>3, AppendPlaces
  <2>5. Len(incoming') <= MaxIncoming /\ Len(incoming) + 1 \in InboundIds
    BY <1>3, <1>4, <1>21, <2>4 DEF RemoteRequest, InboundIds
  <2>6. PICK item : item = [type |-> "request", id |-> Len(incoming) + 1, request |-> r]
    OBVIOUS
  <2>7. item \in Arrivals /\ item \in SwarmEvents /\ item.type = "request"
    BY <2>5, <2>6, Items DEF Arrivals, Kind
  <2>8. swarm_events' = Append(swarm_events, item)
    BY <1>21, <2>6 DEF RemoteRequest
  <2>9. swarm_events' \in Seq(SwarmEvents)
    BY <1>3, <2>7, <2>8, AppendPlaces
  <2>10. Carried(swarm_events', Returns) = Carried(swarm_events, Returns)
    <3>1. item \notin Returns
      BY <2>7, SwarmKinds
    <3>2. swarm_events \in Seq(SwarmEvents) /\ item \in SwarmEvents
      BY <1>3, <2>7
    <3>3. Carried(Append(swarm_events, item), Returns) = Carried(swarm_events, Returns) \cup {}
      BY <3>1, <3>2, CarriedAppend
    <3> QED
      BY <2>8, <3>3
  <2> QED
    BY <1>1, <1>21, <2>4, <2>5, <2>9, <2>10
       DEF RemoteRequest, Typed, OutboundBudget, queues, maps, memory
<1>22. ASSUME NEW id \in outbound, NEW type \in {"response", "failure"}, RemoteResponse(id, type)
       PROVE  Typed' /\ Len(incoming') <= MaxIncoming /\ OutboundBudget'
  <2>1. PICK item : item = [type |-> type, id |-> id]
    OBVIOUS
  <2>2. item \in SwarmEvents /\ item.id = id
    BY <1>1, <2>1 DEF Typed, SwarmEvents
  <2>3. swarm_events' = Append(swarm_events, item)
    BY <1>22, <2>1 DEF RemoteResponse
  <2>4. swarm_events' \in Seq(SwarmEvents)
    BY <1>3, <2>2, <2>3, AppendPlaces
  <2>5. Carried(swarm_events', Returns) \subseteq Carried(swarm_events, Returns) \cup {id}
    <3>1. Carried(Append(swarm_events, item), Returns)
            = Carried(swarm_events, Returns) \cup (IF item \in Returns THEN {item.id} ELSE {})
      BY <1>3, <2>2, CarriedAppend
    <3> QED
      BY <2>2, <2>3, <3>1
  <2> QED
    BY <1>1, <1>22, <2>4, <2>5
       DEF RemoteResponse, Typed, OutboundBudget, queues, maps, memory, past
<1> QED
  BY <1>5, <1>6, <1>7, <1>8, <1>9, <1>10, <1>11, <1>12, <1>13, <1>14, <1>15, <1>16, <1>17,
     <1>18, <1>19, <1>20, <1>21, <1>22 DEF Next, MainTask

(* Every reachable state is typed: in particular every id libp2p gives out *)
(* belongs to a request the data memory made.                              *)
THEOREM TypeCorrect == Spec => []TypeOK
<1>1. TypeInv => TypeOK
  BY DEF TypeInv
<1> QED
  BY <1>1, TypeInit, TypeNext, PTL DEF Spec

-----------------------------------------------------------------------------
(* Responses are matched.                                                  *)

(* What libp2p yields goes to request_response.output, or the task blocks. *)
LEMMA YieldSends ==
  ASSUME Typed, YieldMessage
  PROVE  \E e \in SwarmEvents, item \in OutEvents :
           /\ swarm_events # <<>> /\ e = Head(swarm_events) /\ swarm_events' = Tail(swarm_events)
           /\ e.type = "request" =>
                /\ e \in Arrivals /\ e \notin Returns
                /\ item = [type |-> "IncomingRequest", id |-> e.id, request |-> e.request]
                /\ item \in IncomingRequests /\ item \notin OutResponses /\ item \notin AssignedIds
           /\ e.type # "request" =>
                /\ e \in Returns /\ e \notin Arrivals
                /\ item = [type |-> "Response", id |-> e.id]
                /\ item \in OutResponses /\ item \notin IncomingRequests /\ item \notin AssignedIds
           /\ item.id = e.id
           /\ \/ rr_output' = Append(rr_output, item) /\ at' = "select"
              \/ rr_output' = rr_output /\ at' = "blocked" /\ ~ (Len(rr_output) < Capacity)
<1>1. swarm_events \in Seq(SwarmEvents)
  BY Channels
<1>2. PICK e : e = Head(swarm_events)
  OBVIOUS
<1>3. e \in SwarmEvents
  BY <1>1, <1>2, TailPlaces DEF YieldMessage
<1>4. PICK item : item = IF e.type = "request"
                         THEN [type |-> "IncomingRequest", id |-> e.id, request |-> e.request]
                         ELSE [type |-> "Response", id |-> e.id]
  OBVIOUS
<1>5. CASE e.type = "request"
  <2>1. e.id \in InboundIds /\ e.request \in Requests /\ e \in Arrivals /\ e \notin Returns
    BY <1>3, <1>5, SwarmKinds
  <2>2. item = [type |-> "IncomingRequest", id |-> e.id, request |-> e.request]
    BY <1>4, <1>5
  <2>3. item \in OutEvents /\ item.type = "IncomingRequest" /\ item.id = e.id
    BY <2>1, <2>2 DEF OutEvents
  <2>4. SendOutput(item)
    BY <1>2, <1>4 DEF YieldMessage
  <2> QED
    BY <1>2, <1>3, <1>5, <2>1, <2>2, <2>3, <2>4, OutKinds, SendOutputType DEF YieldMessage
<1>6. CASE e.type # "request"
  <2>1. e.id \in OutboundIds /\ e \in Returns /\ e \notin Arrivals
    BY <1>3, <1>6, SwarmKinds
  <2>2. item = [type |-> "Response", id |-> e.id]
    BY <1>4, <1>6
  <2>3. item \in OutEvents /\ item.type = "Response" /\ item.id = e.id
    BY <2>1, <2>2 DEF OutEvents
  <2>4. SendOutput(item)
    BY <1>2, <1>4 DEF YieldMessage
  <2> QED
    BY <1>2, <1>3, <1>6, <2>1, <2>2, <2>3, <2>4, OutKinds, SendOutputType DEF YieldMessage
<1> QED
  BY <1>5, <1>6

(* The id of a request that is made follows the ids given so far. *)
LEMMA MakeRequestSends ==
  ASSUME TypeInv, MakeRequest
  PROVE  /\ last_id + 1 \in OutboundIds
         /\ \E item \in AssignedIds :
              /\ item \in OutEvents /\ item.id = last_id + 1 /\ item.request \in Requests
              /\ item \notin OutResponses /\ item \notin IncomingRequests
              /\ \/ rr_output' = Append(rr_output, item) /\ at' = "select"
                 \/ rr_output' = rr_output /\ at' = "blocked" /\ ~ (Len(rr_output) < Capacity)
<1>1. Typed /\ OutboundBudget
  BY TypedIsTypeOK DEF TypeInv
<1>2. rr_input \in Seq(InEvents) /\ dm_output \in Seq(MemoryOutputs) /\ last_id \in Nat
      /\ asked \in Nat /\ asked <= MaxOutgoing /\ MaxOutgoing \in Nat
  BY <1>1, Channels, BoundAssumption DEF Typed
<1>3. Head(rr_input) \in MakeRequests /\ Head(rr_input).request \in Requests
  BY <1>2, TailPlaces, InKinds DEF MakeRequest
<1>4. last_id + 1 \in OutboundIds
  <2>1. /\ Count(rr_input, MakeRequests) = Count(Tail(rr_input), MakeRequests) + 1
        /\ Count(Tail(rr_input), MakeRequests) \in Nat
    BY <1>2, <1>3, CountTail DEF MakeRequest
  <2>2. Count(dm_output, Wants) \in Nat
    BY <1>2, CountType
  <2> QED
    BY <1>1, <1>2, <2>1, <2>2 DEF OutboundBudget, OutboundIds
<1>5. PICK item : item = [type |-> "AssignedRequestId", id |-> last_id + 1,
                          request |-> Head(rr_input).request]
  OBVIOUS
<1>6. item \in AssignedIds /\ item.id = last_id + 1 /\ item.request \in Requests
  BY <1>3, <1>4, <1>5, Items
<1>7. item \in OutEvents
  BY <1>6 DEF AssignedIds, Kind
<1>8. SendOutput(item)
  BY <1>5 DEF MakeRequest
<1> QED
  BY <1>1, <1>4, <1>6, <1>7, <1>8, OutKinds, SendOutputType

(* A request of another peer gets the next inbound id. *)
LEMMA RemoteRequestArrives ==
  ASSUME Typed, NEW r \in Requests, RemoteRequest(r)
  PROVE  /\ Len(incoming) + 1 \in InboundIds /\ Len(incoming') = Len(incoming) + 1
         /\ \A id \in 1 .. Len(incoming) : incoming'[id] = incoming[id]
         /\ incoming'[Len(incoming) + 1].request = r
         /\ incoming'[Len(incoming) + 1].version = shard[r]
         /\ \E item \in SwarmEvents :
              /\ item \in Arrivals /\ item \notin Returns
              /\ item.id = Len(incoming) + 1 /\ item.request = r
              /\ swarm_events' = Append(swarm_events, item)
<1>1. incoming \in Seq(Questions) /\ Len(incoming) \in Nat /\ MaxIncoming \in Nat
  BY Channels, BoundAssumption
<1>2. Len(incoming) + 1 \in InboundIds
  BY <1>1 DEF RemoteRequest, InboundIds
<1>3. PICK question : question = [request |-> r, version |-> shard[r], initialized |-> initialized]
  OBVIOUS
<1>4. question \in Questions /\ question.request = r /\ question.version = shard[r]
  BY <1>3 DEF Typed, Questions
<1>5. incoming' = Append(incoming, question)
  BY <1>3 DEF RemoteRequest
<1>6. /\ Len(incoming') = Len(incoming) + 1
      /\ \A id \in 1 .. Len(incoming) : incoming'[id] = incoming[id]
      /\ incoming'[Len(incoming) + 1] = question
  BY <1>1, <1>4, <1>5, AppendPlaces
<1>7. PICK item : item = [type |-> "request", id |-> Len(incoming) + 1, request |-> r]
  OBVIOUS
<1>8. /\ item \in SwarmEvents /\ item.type = "request"
      /\ item.id = Len(incoming) + 1 /\ item.request = r
  BY <1>2, <1>7 DEF SwarmEvents
<1>9. swarm_events' = Append(swarm_events, item)
  BY <1>7 DEF RemoteRequest
<1> QED
  BY <1>2, <1>4, <1>6, <1>8, <1>9, SwarmKinds

(* What one branch of the poll may do to the rest: stop the task. *)
LEMMA PollStops ==
  ASSUME Typed, PollMakeRequest \/ PollRespond
  PROVE  /\ at = "data_memory" /\ at' \in {"data_memory", "stopped"}
         /\ UNCHANGED <<rr_output, dm_input, pending_response, libp2p, memory, incoming, answered,
                        resolved, failed, unmatched, used>>
<1>1. at = "data_memory"
      /\ UNCHANGED <<rr_output, dm_input, pending_response, libp2p, memory, incoming, answered,
                     resolved, failed, unmatched, used>>
  BY DEF PollMakeRequest, PollRespond, maps, past
<1>2. \A items : SendInput(items) => at' = at \/ at' = "stopped"
  BY DEF SendInput
<1>3. CASE PollMakeRequest
  BY <1>1, <1>2, <1>3 DEF PollMakeRequest
<1>4. CASE PollRespond
  BY <1>1, <1>2, <1>4 DEF PollRespond
<1> QED
  BY <1>1, <1>3, <1>4

(* Initially no id is given. *)
LEMMA MatchedInit == Init => MatchedInv
<1> SUFFICES ASSUME Init PROVE MatchedInv
  OBVIOUS
<1>1. Carried(swarm_events, Returns) = {} /\ Carried(rr_output, OutResponses) = {}
  BY CountEmpty DEF Init
<1> QED
  BY <1>1 DEF Init, MatchedInv, ResponsesAreMatched

(* An id is announced before its response is looked at. *)
LEMMA MatchedNext == TypeInv /\ MatchedInv /\ [Next]_vars => MatchedInv'
<1> SUFFICES ASSUME TypeInv, MatchedInv, [Next]_vars PROVE MatchedInv'
  OBVIOUS
<1>1. Typed /\ OutboundBudget
  BY TypedIsTypeOK DEF TypeInv
<1>2. /\ rr_output \in Seq(OutEvents) /\ swarm_events \in Seq(SwarmEvents)
      /\ pending_response \in [OutboundIds -> Requests \cup {NoRequest}]
  BY <1>1, Channels DEF Typed
<1> DEFINE Known(id) == pending_response[id] # NoRequest
           Expected == outbound \cup Carried(swarm_events, Returns)
<1>3. /\ at = "network" => rr_output = <<>>
      /\ at # "blocked" => \A id \in Expected : Known(id) \/ id \in Carried(rr_output, AssignedIds)
      /\ \A id \in Carried(rr_output, OutResponses) : Known(id)
      /\ unmatched = {}
  BY DEF MatchedInv, ResponsesAreMatched
<1>4. ASSUME UNCHANGED <<rr_output, pending_response, outbound, swarm_events, unmatched>>,
             at' # at => at # "blocked" /\ at' # "network"
      PROVE  MatchedInv'
  BY <1>3, <1>4 DEF MatchedInv, ResponsesAreMatched
<1>5. CASE UNCHANGED vars \/ HandleDataMemoryInput \/ Initialize
           \/ \E r \in Requests : StoreShard(r) \/ AskForShard(r)
  BY <1>4, <1>5 DEF vars, queues, maps, libp2p, past, HandleDataMemoryInput, Initialize,
                    StoreShard, AskForShard
<1>6. CASE PollMakeRequest \/ PollRespond
  <2>1. /\ at = "data_memory" /\ at' \in {"data_memory", "stopped"}
        /\ UNCHANGED <<rr_output, pending_response, outbound, swarm_events, unmatched>>
    BY <1>1, <1>6, PollStops DEF libp2p, past
  <2> QED
    BY <1>4, <2>1
<1>7. CASE StartPoll
  BY <1>4, <1>7, Sections DEF StartPoll, queues, maps, libp2p, past
<1>8. CASE EndSection
  <2>1. UNCHANGED <<rr_output, pending_response, outbound, swarm_events, unmatched>>
    BY <1>8 DEF EndSection, queues, maps, libp2p, past
  <2>2. at # "blocked" /\ (at' = "network" => rr_output = <<>>)
    BY <1>8, Sections DEF EndSection
  <2> QED
    BY <1>3, <2>1, <2>2 DEF MatchedInv, ResponsesAreMatched
<1>9. CASE Respond
  BY <1>4, <1>9 DEF Respond, maps, libp2p
<1>10. CASE PollAssignedRequestId
  <2>1. PICK e : e = Head(rr_output)
    OBVIOUS
  <2>2. e \in OutEvents /\ e.type = "AssignedRequestId" /\ e.id \in OutboundIds
        /\ e.request \in Requests /\ e \in AssignedIds /\ e \notin OutResponses
    BY <1>2, <1>10, <2>1, TailPlaces, OutKinds DEF PollAssignedRequestId
  <2>3. /\ Carried(rr_output, AssignedIds) = Carried(rr_output', AssignedIds) \cup {e.id}
        /\ Carried(rr_output, OutResponses) = Carried(rr_output', OutResponses) \cup {}
    BY <1>2, <1>10, <2>1, <2>2, CarriedTail DEF PollAssignedRequestId
  <2>4. pending_response' = [pending_response EXCEPT ![e.id] = e.request] /\ e.request # NoRequest
    BY <1>10, <2>1, <2>2, SentinelAssumption DEF PollAssignedRequestId
  <2>5. pending_response'[e.id] # NoRequest /\ \A id : Known(id) => pending_response'[id] # NoRequest
    BY <1>2, <2>2, <2>4
  <2>6. UNCHANGED <<at, outbound, swarm_events, unmatched>> /\ at = "request_response"
    BY <1>10 DEF PollAssignedRequestId, libp2p, past
  <2> QED
    BY <1>3, <2>3, <2>5, <2>6 DEF MatchedInv, ResponsesAreMatched
<1>11. CASE PollResponse
  <2>1. PICK e : e = Head(rr_output)
    OBVIOUS
  <2>2. e \in OutEvents /\ e \notin AssignedIds /\ e \in OutResponses
    BY <1>2, <1>11, <2>1, TailPlaces, OutKinds DEF PollResponse
  <2>3. /\ Carried(rr_output, AssignedIds) = Carried(rr_output', AssignedIds) \cup {}
        /\ Carried(rr_output, OutResponses) = Carried(rr_output', OutResponses) \cup {e.id}
    BY <1>2, <1>11, <2>1, <2>2, CarriedTail DEF PollResponse
  <2>4. pending_response[e.id] # NoRequest
    BY <1>3, <2>3
  <2>5. unmatched' = unmatched /\ at' \in {"request_response", "stopped"} /\ at = "request_response"
    BY <1>11, <2>1, <2>4 DEF PollResponse, SendDataMemory
  <2>6. UNCHANGED <<outbound, swarm_events, pending_response>>
    BY <1>11 DEF PollResponse, libp2p, maps
  <2> QED
    BY <1>3, <2>3, <2>5, <2>6 DEF MatchedInv, ResponsesAreMatched
<1>12. CASE PollIncomingRequest
  <2>1. PICK e : e = Head(rr_output)
    OBVIOUS
  <2>2. e \in OutEvents /\ e \notin AssignedIds /\ e \notin OutResponses
    BY <1>2, <1>12, <2>1, TailPlaces, OutKinds DEF PollIncomingRequest
  <2>3. /\ Carried(rr_output, AssignedIds) = Carried(rr_output', AssignedIds) \cup {}
        /\ Carried(rr_output, OutResponses) = Carried(rr_output', OutResponses) \cup {}
    BY <1>2, <1>12, <2>1, <2>2, CarriedTail DEF PollIncomingRequest
  <2>4. at' \in {"request_response", "stopped"} /\ at = "request_response"
    BY <1>12 DEF PollIncomingRequest, SendDataMemory
  <2>5. UNCHANGED <<outbound, swarm_events, pending_response, unmatched>>
    BY <1>12 DEF PollIncomingRequest, libp2p, past
  <2> QED
    BY <1>3, <2>3, <2>4, <2>5 DEF MatchedInv, ResponsesAreMatched
<1>13. CASE YieldMessage
  <2>1. PICK e \in SwarmEvents, item \in OutEvents :
           /\ swarm_events # <<>> /\ e = Head(swarm_events) /\ swarm_events' = Tail(swarm_events)
           /\ e.type = "request" => item \notin OutResponses /\ item \notin AssignedIds
           /\ e.type # "request" => e \in Returns /\ item \notin AssignedIds
           /\ item.id = e.id
           /\ \/ rr_output' = Append(rr_output, item) /\ at' = "select"
              \/ rr_output' = rr_output /\ at' = "blocked" /\ ~ (Len(rr_output) < Capacity)
    BY <1>1, <1>13, YieldSends
  <2>2. rr_output = <<>> /\ at = "network"
    BY <1>3, <1>13 DEF YieldMessage
  <2>3. Carried(rr_output, AssignedIds) = {} /\ Carried(rr_output, OutResponses) = {}
    BY <2>2, CountEmpty
  <2>4. Carried(swarm_events', Returns) \subseteq Carried(swarm_events, Returns)
        /\ (e \in Returns => e.id \in Carried(swarm_events, Returns))
    BY <1>2, <2>1, CarriedTail
  <2>5. \A id \in Expected : Known(id)
    BY <1>3, <2>2, <2>3
  <2>6. UNCHANGED <<pending_response, outbound, unmatched>>
    BY <1>13 DEF YieldMessage, maps, past
  <2>7. \A id \in Carried(rr_output', OutResponses) : Known(id)
    <3>1. Carried(Append(rr_output, item), OutResponses)
            = Carried(rr_output, OutResponses) \cup (IF item \in OutResponses THEN {item.id} ELSE {})
      BY <1>2, CarriedAppend
    <3>2. item \in OutResponses => Known(item.id)
      BY <2>1, <2>4, <2>5
    <3>3. CASE rr_output' = Append(rr_output, item)
      BY <2>3, <3>1, <3>2, <3>3
    <3>4. CASE rr_output' = rr_output
      BY <2>3, <3>4
    <3> QED
      BY <2>1, <3>3, <3>4
  <2> QED
    BY <1>3, <2>1, <2>4, <2>5, <2>6, <2>7 DEF MatchedInv, ResponsesAreMatched
<1>14. CASE YieldFailure
  <2>1. Carried(swarm_events', Returns) \subseteq Carried(swarm_events, Returns)
    BY <1>2, <1>14, CarriedTail DEF YieldFailure
  <2>2. UNCHANGED <<rr_output, pending_response, outbound, unmatched>> /\ at' = "select"
        /\ at = "network"
    BY <1>14 DEF YieldFailure, queues, maps
  <2> QED
    BY <1>3, <2>1, <2>2 DEF MatchedInv, ResponsesAreMatched
<1>15. CASE MakeRequest
  <2>1. PICK item \in AssignedIds :
              /\ item \in OutEvents /\ item.id = last_id + 1 /\ item \notin OutResponses
              /\ \/ rr_output' = Append(rr_output, item) /\ at' = "select"
                 \/ rr_output' = rr_output /\ at' = "blocked"
    BY <1>15, MakeRequestSends
  <2>2. at = "select" /\ outbound' = outbound \cup {last_id + 1}
        /\ UNCHANGED <<pending_response, swarm_events, unmatched>>
    BY <1>15 DEF MakeRequest, maps, past
  <2>3. CASE rr_output' = Append(rr_output, item) /\ at' = "select"
    <3>a. \A M : Carried(Append(rr_output, item), M)
                  = Carried(rr_output, M) \cup (IF item \in M THEN {item.id} ELSE {})
      BY <1>2, <2>1, CarriedAppend
    <3>1. /\ Carried(rr_output', AssignedIds) = Carried(rr_output, AssignedIds) \cup {last_id + 1}
          /\ Carried(rr_output', OutResponses) = Carried(rr_output, OutResponses) \cup {}
      BY <2>1, <2>3, <3>a
    <3> QED
      BY <1>3, <2>2, <2>3, <3>1 DEF MatchedInv, ResponsesAreMatched
  <2>4. CASE rr_output' = rr_output /\ at' = "blocked"
    BY <1>3, <2>2, <2>4 DEF MatchedInv, ResponsesAreMatched
  <2> QED
    BY <2>1, <2>3, <2>4
<1>16. ASSUME NEW r \in Requests, RemoteRequest(r) PROVE MatchedInv'
  <2>1. PICK item \in SwarmEvents : item \notin Returns /\ swarm_events' = Append(swarm_events, item)
    BY <1>1, <1>16, RemoteRequestArrives
  <2>2. Carried(Append(swarm_events, item), Returns) = Carried(swarm_events, Returns) \cup {}
    BY <1>2, <2>1, CarriedAppend
  <2>3. Carried(swarm_events', Returns) = Carried(swarm_events, Returns)
    BY <2>1, <2>2
  <2>4. UNCHANGED <<at, rr_output, pending_response, outbound, unmatched>>
    BY <1>16 DEF RemoteRequest, queues, maps
  <2> QED
    BY <1>3, <2>3, <2>4 DEF MatchedInv, ResponsesAreMatched
<1>17. ASSUME NEW id \in outbound, NEW type \in {"response", "failure"}, RemoteResponse(id, type)
       PROVE  MatchedInv'
  <2>1. PICK item : item = [type |-> type, id |-> id]
    OBVIOUS
  <2>2. item \in SwarmEvents /\ item.id = id
    BY <1>1, <2>1 DEF Typed, SwarmEvents
  <2>3. Carried(swarm_events', Returns)
          = Carried(swarm_events, Returns) \cup (IF item \in Returns THEN {item.id} ELSE {})
    BY <1>2, <1>17, <2>1, <2>2, CarriedAppend DEF RemoteResponse
  <2>4. outbound' \cup Carried(swarm_events', Returns) \subseteq Expected
    BY <1>17, <2>2, <2>3 DEF RemoteResponse
  <2>5. UNCHANGED <<at, rr_output, pending_response, unmatched>>
    BY <1>17 DEF RemoteResponse, queues, maps, past
  <2> QED
    BY <1>3, <2>4, <2>5 DEF MatchedInv, ResponsesAreMatched
<1> QED
  BY <1>5, <1>6, <1>7, <1>8, <1>9, <1>10, <1>11, <1>12, <1>13, <1>14, <1>15, <1>16, <1>17
     DEF Next, MainTask

(* A response is never for an unknown request, whatever the capacity of    *)
(* the channels: not even after the task blocked or the node stopped.      *)
THEOREM ResponsesMatched == Spec => []ResponsesAreMatched
<1>1. TypeInv /\ MatchedInv => ResponsesAreMatched
  BY DEF MatchedInv
<1> QED
  BY <1>1, TypeInit, TypeNext, MatchedInit, MatchedNext, PTL DEF Spec

-----------------------------------------------------------------------------
(* Answers fit their questions.                                            *)

(* A request of the data memory goes to request_response.input. *)
LEMMA PollMakeRequestSends ==
  ASSUME Typed, PollMakeRequest
  PROVE  /\ dm_output # <<>> /\ dm_output' = Tail(dm_output)
         /\ Head(dm_output) \in Wants /\ Head(dm_output) \notin MemoryAnswers
         /\ \E item \in InEvents :
              /\ item \in MakeRequests /\ item \notin Responds
              /\ \/ rr_input' = Append(rr_input, item) /\ at' = at
                 \/ rr_input' = rr_input /\ at' = "stopped" /\ ~ (Len(rr_input) + 1 <= Capacity)
<1>1. rr_input \in Seq(InEvents) /\ dm_output \in Seq(MemoryOutputs)
  BY Channels
<1>2. dm_output # <<>> /\ dm_output' = Tail(dm_output) /\ Head(dm_output).type = "request"
  BY DEF PollMakeRequest
<1>3. Head(dm_output) \in MemoryOutputs
  BY <1>1, <1>2, TailPlaces
<1>4. PICK item : item = [type |-> "MakeRequest", request |-> Head(dm_output).request]
  OBVIOUS
<1>5. item \in MakeRequests /\ item.type = "MakeRequest"
  BY <1>3, <1>4, Items, MemoryOutKinds
<1>6. item \in InEvents
  BY <1>5 DEF MakeRequests, Kind
<1>7. SendInput(<<item>>)
  BY <1>4 DEF PollMakeRequest
<1>8. \/ rr_input' = Append(rr_input, item) /\ at' = at
      \/ rr_input' = rr_input /\ at' = "stopped" /\ ~ (Len(rr_input) + 1 <= Capacity)
  BY <1>6, <1>7, SendInputOne
<1> QED
  BY <1>2, <1>3, <1>5, <1>6, <1>8, InKinds, MemoryOutKinds

(* A response of the data memory goes to everybody who waits for it, or to *)
(* those for whom there is room.                                           *)
LEMMA PollRespondSends ==
  ASSUME Typed, PollRespond
  PROVE  /\ dm_output # <<>> /\ dm_output' = Tail(dm_output)
         /\ Head(dm_output) \in MemoryAnswers /\ Head(dm_output) \notin Wants
         /\ \E r \in Requests, v \in Versions, front \in Seq(InboundIds) :
              /\ r = Head(dm_output).request /\ v = Head(dm_output).version
              /\ processed_requests' = [processed_requests EXCEPT ![r] = <<>>]
              /\ Len(front) <= Len(processed_requests[r])
              /\ \A i \in 1 .. Len(front) : front[i] = processed_requests[r][i]
              /\ rr_input' = rr_input \o RespondTo(front, r, v)
              /\ \/ at' = at
                 \/ /\ at' = "stopped"
                    /\ ~ (Len(rr_input) + Len(processed_requests[r]) <= Capacity)
<1>1. dm_output \in Seq(MemoryOutputs)
  BY Channels
<1>2. dm_output # <<>> /\ dm_output' = Tail(dm_output) /\ Head(dm_output).type = "response"
  BY DEF PollRespond
<1>3. Head(dm_output) \in MemoryOutputs
  BY <1>1, <1>2, TailPlaces
<1>4. PICK r, v : r = Head(dm_output).request /\ v = Head(dm_output).version
  OBVIOUS
<1>5. r \in Requests /\ v \in Versions /\ Head(dm_output) \in MemoryAnswers
      /\ Head(dm_output) \notin Wants
  BY <1>2, <1>3, <1>4, MemoryOutKinds
<1>6. PICK w \in Seq(InboundIds) : w = processed_requests[r]
  BY <1>5 DEF Typed
<1>7. PICK items : items = RespondTo(w, r, v)
  OBVIOUS
<1>8. items \in Seq(InEvents) /\ Len(items) = Len(w) /\ Len(w) \in Nat
  BY <1>5, <1>6, <1>7, RespondItems
<1>9. SendInput(items) /\ processed_requests' = [processed_requests EXCEPT ![r] = <<>>]
  <2>1. SendInput(RespondTo(processed_requests[r], r, v))
    BY <1>4 DEF PollRespond, RespondTo
  <2>2. processed_requests' = [processed_requests EXCEPT ![r] = <<>>]
    BY <1>4 DEF PollRespond
  <2> QED
    BY <1>6, <1>7, <2>1, <2>2
<1>10. ASSUME rr_input' = rr_input \o items
       PROVE  \E front \in Seq(InboundIds) :
                /\ Len(front) <= Len(w) /\ \A i \in 1 .. Len(front) : front[i] = w[i]
                /\ rr_input' = rr_input \o RespondTo(front, r, v)
  <2>1. rr_input' = rr_input \o RespondTo(w, r, v)
    BY <1>7, <1>10
  <2>2. Len(w) <= Len(w) /\ \A i \in 1 .. Len(w) : w[i] = w[i]
    BY <1>8
  <2> QED
    BY <1>6, <2>1, <2>2
<1>11. ASSUME NEW n \in 0 .. Len(items), rr_input' = rr_input \o SubSeq(items, 1, n),
              at' = "stopped", ~ (Len(rr_input) + Len(items) <= Capacity)
       PROVE  \E front \in Seq(InboundIds) :
                /\ Len(front) <= Len(w) /\ \A i \in 1 .. Len(front) : front[i] = w[i]
                /\ rr_input' = rr_input \o RespondTo(front, r, v)
  <2>1. PICK front : front = SubSeq(w, 1, n)
    OBVIOUS
  <2>2. front \in Seq(InboundIds) /\ Len(front) = n /\ \A i \in 1 .. n : front[i] = w[i]
    BY <1>8, <1>11, <2>1, FrontPlaces
  <2>3. PICK sent : sent = SubSeq(items, 1, n)
    OBVIOUS
  <2>4. sent \in Seq(InEvents) /\ Len(sent) = n /\ \A i \in 1 .. n : sent[i] = items[i]
    BY <1>8, <1>11, <2>3, FrontPlaces
  <2>5. PICK some : some = RespondTo(front, r, v)
    OBVIOUS
  <2>6. some \in Seq(InEvents) /\ Len(some) = n
    BY <1>5, <2>2, <2>5, RespondItems
  <2>7. \A i \in 1 .. n : i \in 1 .. Len(w)
    BY <1>8, <1>11
  <2>8. \A i \in 1 .. n : some[i] = sent[i]
    BY <1>7, <2>2, <2>4, <2>5, <2>7 DEF RespondTo
  <2>9. some = sent
    BY <2>4, <2>6, <2>8
  <2>10. Len(front) <= Len(w) /\ \A i \in 1 .. Len(front) : front[i] = w[i]
    BY <1>8, <1>11, <2>2
  <2>11. rr_input' = rr_input \o RespondTo(front, r, v)
    BY <1>11, <2>3, <2>5, <2>9
  <2> QED
    BY <2>2, <2>10, <2>11
<1>12. /\ \E front \in Seq(InboundIds) :
              /\ Len(front) <= Len(w) /\ \A i \in 1 .. Len(front) : front[i] = w[i]
              /\ rr_input' = rr_input \o RespondTo(front, r, v)
       /\ at' = at \/ (at' = "stopped" /\ ~ (Len(rr_input) + Len(items) <= Capacity))
  <2>1. \/ rr_input' = rr_input \o items /\ at' = at
        \/ \E n \in 0 .. Len(items) :
             /\ rr_input' = rr_input \o SubSeq(items, 1, n) /\ at' = "stopped"
             /\ ~ (Len(rr_input) + Len(items) <= Capacity)
    BY <1>8, <1>9, SendInputType
  <2>2. CASE rr_input' = rr_input \o items /\ at' = at
    BY <1>10, <2>2
  <2>3. CASE \E n \in 0 .. Len(items) :
               /\ rr_input' = rr_input \o SubSeq(items, 1, n) /\ at' = "stopped"
               /\ ~ (Len(rr_input) + Len(items) <= Capacity)
    BY <1>11, <2>3
  <2> QED
    BY <2>1, <2>2, <2>3
<1>13. PICK front \in Seq(InboundIds) :
         /\ Len(front) <= Len(w) /\ \A i \in 1 .. Len(front) : front[i] = w[i]
         /\ rr_input' = rr_input \o RespondTo(front, r, v)
  BY <1>12
<1>14. /\ Len(front) <= Len(processed_requests[r])
       /\ \A i \in 1 .. Len(front) : front[i] = processed_requests[r][i]
       /\ at' = at \/ (at' = "stopped" /\ ~ (Len(rr_input) + Len(processed_requests[r]) <= Capacity))
  BY <1>6, <1>8, <1>12, <1>13
<1> QED
  BY <1>2, <1>4, <1>5, <1>9, <1>13, <1>14

(* Whoever is responded to did wait. *)
LEMMA FrontWaits ==
  ASSUME Typed, NEW r \in Requests, NEW front \in Seq(InboundIds),
         Len(front) <= Len(processed_requests[r]),
         \A i \in 1 .. Len(front) : front[i] = processed_requests[r][i]
  PROVE  \A i \in 1 .. Len(front) : front[i] \in WaitingFor(r)
<1>1. PICK w \in Seq(InboundIds) : w = processed_requests[r]
  BY DEF Typed
<1>2. \A i \in 1 .. Len(front) : i \in 1 .. Len(w) /\ front[i] = w[i]
  BY <1>1
<1> QED
  BY <1>1, <1>2 DEF WaitingFor

(* The data memory answers with the version it has now. *)
LEMMA HandleSends ==
  ASSUME Typed, HandleDataMemoryInput
  PROVE  \E item \in MemoryOutputs :
           /\ item \in MemoryAnswers /\ item \notin Wants
           /\ item.request \in Requests /\ item.version = shard[item.request]
           /\ dm_output' = dm_output \/ dm_output' = Append(dm_output, item)
<1>1. dm_input \in Seq(MemoryInputs)
  BY Channels
<1>2. PICK e : e = Head(dm_input)
  OBVIOUS
<1>3. e \in MemoryInputs /\ e.request \in Requests
  BY <1>1, <1>2, TailPlaces, MemoryInKinds DEF HandleDataMemoryInput
<1>4. PICK item : item = [type |-> "response", request |-> e.request, version |-> shard[e.request]]
  OBVIOUS
<1>5. shard[e.request] \in Versions
  BY <1>3 DEF Typed
<1>6. /\ item \in MemoryOutputs /\ item.type = "response" /\ item.request = e.request
      /\ item.version = shard[e.request]
  BY <1>3, <1>4, <1>5, Items
<1>7. dm_output' = dm_output \/ dm_output' = Append(dm_output, item)
  BY <1>2, <1>4 DEF HandleDataMemoryInput
<1> QED
  BY <1>3, <1>6, <1>7, MemoryOutKinds

(* Whoever asks waits. *)
LEMMA PollIncomingWaits ==
  ASSUME Typed, PollIncomingRequest
  PROVE  /\ rr_output # <<>> /\ rr_output' = Tail(rr_output)
         /\ \E e \in OutEvents :
              /\ e = Head(rr_output) /\ e \in IncomingRequests
              /\ e \notin OutResponses /\ e \notin AssignedIds
              /\ e.id \in InboundIds /\ e.request \in Requests
              /\ processed_requests' =
                   [processed_requests EXCEPT ![e.request] = Append(processed_requests[e.request], e.id)]
              /\ \A r \in Requests :
                   WaitingFor(r)' = WaitingFor(r) \cup (IF r = e.request THEN {e.id} ELSE {})
              /\ \E item \in MemoryInputs :
                   /\ item \in MemoryRequests /\ item \notin MemoryResponses
                   /\ item.request = e.request
                   /\ \/ dm_input' = Append(dm_input, item) /\ at' = at
                      \/ dm_input' = dm_input /\ at' = "stopped" /\ ~ (Len(dm_input) < Capacity)
<1>1. rr_output \in Seq(OutEvents) /\ rr_output # <<>> /\ rr_output' = Tail(rr_output)
  BY Channels DEF PollIncomingRequest
<1>2. PICK e : e = Head(rr_output)
  OBVIOUS
<1>3. /\ e \in OutEvents /\ e \in IncomingRequests /\ e \notin OutResponses /\ e \notin AssignedIds
      /\ e.id \in InboundIds /\ e.request \in Requests
  BY <1>1, <1>2, TailPlaces, OutKinds DEF PollIncomingRequest
<1>4. processed_requests' =
        [processed_requests EXCEPT ![e.request] = Append(processed_requests[e.request], e.id)]
  BY <1>2 DEF PollIncomingRequest
<1>5. ASSUME NEW r \in Requests
      PROVE  WaitingFor(r)' = WaitingFor(r) \cup (IF r = e.request THEN {e.id} ELSE {})
  <2>1. PICK w : w = processed_requests[r]
    OBVIOUS
  <2>2. w \in Seq(InboundIds)
    BY <2>1 DEF Typed
  <2>3. CASE r = e.request
    <3>1. processed_requests'[r] = Append(w, e.id)
      BY <1>4, <2>1, <2>3 DEF Typed
    <3>2. PICK t : t = Append(w, e.id)
      OBVIOUS
    <3>3. /\ Len(t) = Len(w) + 1 /\ Len(w) \in Nat /\ t[Len(w) + 1] = e.id
          /\ \A i \in 1 .. Len(w) : t[i] = w[i]
      BY <1>3, <2>2, <3>2, AppendPlaces
    <3>4. {t[i] : i \in 1 .. Len(t)} = {w[i] : i \in 1 .. Len(w)} \cup {e.id}
      <4>1. \A i \in 1 .. Len(t) : i \in 1 .. Len(w) \/ i = Len(w) + 1
        BY <3>3
      <4>2. \A i \in 1 .. Len(w) : i \in 1 .. Len(t)
        BY <3>3
      <4>3. Len(w) + 1 \in 1 .. Len(t)
        BY <3>3
      <4> QED
        BY <3>3, <4>1, <4>2, <4>3
    <3> QED
      BY <2>1, <2>3, <3>1, <3>2, <3>4 DEF WaitingFor
  <2>4. CASE r # e.request
    <3>1. processed_requests'[r] = processed_requests[r]
      BY <1>4, <2>4 DEF Typed
    <3> QED
      BY <2>4, <3>1 DEF WaitingFor
  <2> QED
    BY <2>3, <2>4
<1>6. PICK item : item = [type |-> "request", request |-> e.request]
  OBVIOUS
<1>7. item \in MemoryRequests /\ item.type = "request" /\ item.request = e.request
  BY <1>3, <1>6, Items
<1>8. item \in MemoryInputs
  BY <1>7 DEF MemoryRequests, Kind
<1>9. SendDataMemory(item)
  BY <1>2, <1>6 DEF PollIncomingRequest
<1>10. \/ dm_input' = Append(dm_input, item) /\ at' = at
       \/ dm_input' = dm_input /\ at' = "stopped" /\ ~ (Len(dm_input) < Capacity)
  BY <1>9 DEF SendDataMemory
<1> QED
  BY <1>1, <1>2, <1>3, <1>4, <1>5, <1>7, <1>8, <1>10, MemoryInKinds

(* Nobody waits for a shard that was just responded with. *)
LEMMA NobodyWaits ==
  ASSUME Typed, NEW r \in Requests, processed_requests' = [processed_requests EXCEPT ![r] = <<>>]
  PROVE  \A x \in Requests : WaitingFor(x)' = IF x = r THEN {} ELSE WaitingFor(x)
<1> SUFFICES ASSUME NEW x \in Requests
             PROVE  WaitingFor(x)' = IF x = r THEN {} ELSE WaitingFor(x)
  OBVIOUS
<1>1. CASE x = r
  <2>1. processed_requests'[x] = <<>>
    BY <1>1 DEF Typed
  <2>2. 1 .. Len(<<>>) = {}
    OBVIOUS
  <2> QED
    BY <1>1, <2>1, <2>2 DEF WaitingFor
<1>2. CASE x # r
  <2>1. processed_requests'[x] = processed_requests[x]
    BY <1>2 DEF Typed
  <2> QED
    BY <1>2, <2>1 DEF WaitingFor
<1> QED
  BY <1>1, <1>2

(* Initially nobody asked. *)
LEMMA FreshInit == Init => AskedInv /\ FreshInv
<1> SUFFICES ASSUME Init PROVE AskedInv /\ FreshInv
  OBVIOUS
<1>1. \A M : Content(<<>>, M) = {}
  BY DEF Content, Marked
<1>2. \A r \in Requests : WaitingFor(r) = {}
  <2>1. 1 .. Len(<<>>) = {}
    OBVIOUS
  <2>2. \A r \in Requests : processed_requests[r] = <<>>
    BY DEF Init
  <2> QED
    BY <2>1, <2>2 DEF WaitingFor
<1>3. 1 .. Len(incoming) = {}
  BY DEF Init
<1> QED
  BY <1>1, <1>2, <1>3 DEF Init, AskedInv, FreshInv

(* What a step without new questions, waiting handlers or responses of the *)
(* data memory must show.                                                  *)
LEMMA FreshKept ==
  ASSUME AskedInv, FreshInv,
         incoming' = incoming,
         \A r \in Requests : WaitingFor(r)' \subseteq WaitingFor(r),
         \A id \in 1 .. Len(incoming) : incoming[id].version <= shard'[incoming[id].request],
         Content(swarm_events', Arrivals) \subseteq Content(swarm_events, Arrivals),
         Content(dm_output', MemoryAnswers) \subseteq Content(dm_output, MemoryAnswers),
         Content(dm_output', MemoryAnswers) \subseteq MemoryAnswers,
         at' = "request_response" =>
           at = "request_response" \/ Content(dm_output', MemoryAnswers) = {},
         \A e \in Content(rr_output', IncomingRequests) :
           \/ e \in Content(rr_output, IncomingRequests)
           \/ /\ at' # "request_response"
              /\ e.id \in 1 .. Len(incoming) /\ e.request = incoming[e.id].request,
         \A e \in Content(rr_input', Responds) : Fits(e),
         \A e \in Content(answered', Answers) : Fits(e)
  PROVE  AskedInv' /\ FreshInv'
<1>1. AskedInv'
  BY DEF AskedInv
<1>2. \A e : Fits(e)' <=> Fits(e)
  BY DEF Fits
<1>3. \A m \in MemoryAnswers : m.request \in Requests
  BY MemoryOutKinds DEF MemoryAnswers, Kind
<1>4. FreshInv'
  BY <1>2, <1>3 DEF FreshInv
<1> QED
  BY <1>1, <1>4

(* A response is passed on by the poll that finds it, before the poll      *)
(* looks at who else asks.                                                 *)
LEMMA FreshNext == TypeInv /\ AskedInv /\ FreshInv /\ [Next]_vars => AskedInv' /\ FreshInv'
<1> SUFFICES ASSUME TypeInv, AskedInv, FreshInv, [Next]_vars PROVE AskedInv' /\ FreshInv'
  OBVIOUS
<1>1. Typed
  BY TypedIsTypeOK DEF TypeInv
<1>2. /\ rr_input \in Seq(InEvents) /\ rr_output \in Seq(OutEvents)
      /\ dm_output \in Seq(MemoryOutputs) /\ swarm_events \in Seq(SwarmEvents)
      /\ answered \in Seq(Answers) /\ incoming \in Seq(Questions) /\ Len(incoming) \in Nat
  BY <1>1, Channels
<1>3. /\ \A id \in 1 .. Len(incoming) : incoming[id].version <= shard[incoming[id].request]
      /\ \A e \in Content(rr_input, Responds) : Fits(e)
      /\ \A e \in Content(answered, Answers) : Fits(e)
  BY DEF FreshInv
<1>4. \A q : Content(q, MemoryAnswers) \subseteq MemoryAnswers
  BY ContentKind
<1>5. CASE UNCHANGED vars \/ Initialize
  <2>1. UNCHANGED <<at, queues, maps, libp2p, shard, incoming, answered>>
    BY <1>5 DEF vars, memory, past, Initialize
  <2> QED
    BY <1>3, <1>4, <2>1, FreshKept DEF queues, maps, libp2p, WaitingFor
<1>6. CASE StartPoll
  <2>1. UNCHANGED <<queues, maps, libp2p, memory, past>> /\ at' = "data_memory"
    BY <1>6, Sections DEF StartPoll
  <2> QED
    BY <1>3, <1>4, <2>1, FreshKept DEF queues, maps, libp2p, memory, past, WaitingFor
<1>7. CASE EndSection
  <2>1. UNCHANGED <<queues, maps, libp2p, memory, past>>
    BY <1>7 DEF EndSection
  <2>2. at' = "request_response" => dm_output = <<>>
    BY <1>7, Sections DEF EndSection
  <2>3. Content(<<>>, MemoryAnswers) = {}
    BY DEF Content, Marked
  <2> QED
    BY <1>3, <1>4, <2>1, <2>2, <2>3, FreshKept DEF queues, maps, libp2p, memory, past, WaitingFor
<1>8. CASE PollMakeRequest
  <2>1. PICK item \in InEvents :
           /\ item \notin Responds
           /\ rr_input' = Append(rr_input, item) \/ rr_input' = rr_input
    BY <1>1, <1>8, PollMakeRequestSends
  <2>2. dm_output # <<>> /\ dm_output' = Tail(dm_output)
    BY <1>1, <1>8, PollMakeRequestSends
  <2>3. Content(rr_input', Responds) = Content(rr_input, Responds)
    <3>1. Content(Append(rr_input, item), Responds) = Content(rr_input, Responds) \cup {}
      BY <1>2, <2>1, ContentAppend
    <3> QED
      BY <2>1, <3>1
  <2>4. Content(dm_output', MemoryAnswers) \subseteq Content(dm_output, MemoryAnswers)
    BY <1>2, <2>2, ContentTail
  <2>5. /\ at = "data_memory" /\ at' \in {"data_memory", "stopped"}
        /\ UNCHANGED <<rr_output, maps, libp2p, memory, past>>
    BY <1>1, <1>8, PollStops DEF PollMakeRequest
  <2> QED
    BY <1>3, <1>4, <2>3, <2>4, <2>5, FreshKept DEF maps, libp2p, memory, past, WaitingFor
<1>9. CASE PollRespond
  <2>1. PICK r \in Requests, v \in Versions, front \in Seq(InboundIds) :
              /\ r = Head(dm_output).request /\ v = Head(dm_output).version
              /\ processed_requests' = [processed_requests EXCEPT ![r] = <<>>]
              /\ Len(front) <= Len(processed_requests[r])
              /\ \A i \in 1 .. Len(front) : front[i] = processed_requests[r][i]
              /\ rr_input' = rr_input \o RespondTo(front, r, v)
    BY <1>1, <1>9, PollRespondSends
  <2>2. dm_output # <<>> /\ dm_output' = Tail(dm_output) /\ Head(dm_output) \in MemoryAnswers
    BY <1>1, <1>9, PollRespondSends
  <2>a. PICK items : items = RespondTo(front, r, v)
    OBVIOUS
  <2>b. /\ items \in Seq(InEvents) /\ Len(items) = Len(front)
        /\ \A i \in 1 .. Len(front) : /\ items[i].id = front[i] /\ items[i].request = r
                                      /\ items[i].version = v
    BY <2>a, RespondItems
  <2>3. \A e \in Content(items, Responds) : Fits(e)
    <3> SUFFICES ASSUME NEW i \in Marked(items, Responds) PROVE Fits(items[i])
      BY DEF Content
    <3>1. i \in 1 .. Len(front)
      BY <2>b DEF Marked
    <3>2. items[i].id = front[i] /\ items[i].request = r /\ items[i].version = v
      BY <2>b, <3>1
    <3>3. items[i].id \in WaitingFor(r)
      BY <1>1, <2>1, <3>1, <3>2, FrontWaits
    <3>4. Head(dm_output) \in Content(dm_output, MemoryAnswers)
      BY <1>2, <2>2, ContentTail
    <3>5. incoming[items[i].id].version <= v
      BY <2>1, <3>3, <3>4 DEF FreshInv
    <3>6. items[i].id \in 1 .. Len(incoming) /\ incoming[items[i].id].request = r
      BY <3>3 DEF AskedInv
    <3> QED
      BY <3>2, <3>5, <3>6 DEF Fits
  <2>4. \A e \in Content(rr_input', Responds) : Fits(e)
    <3>1. Content(rr_input \o items, Responds) \subseteq Content(rr_input, Responds) \cup Content(items, Responds)
      BY <1>2, <2>b, ContentConcat
    <3> QED
      BY <1>3, <2>1, <2>3, <2>a, <3>1
  <2>5. Content(dm_output', MemoryAnswers) \subseteq Content(dm_output, MemoryAnswers)
    BY <1>2, <2>2, ContentTail
  <2>6. /\ at = "data_memory" /\ at' \in {"data_memory", "stopped"}
        /\ UNCHANGED <<rr_output, libp2p, memory, incoming, answered>>
    BY <1>1, <1>9, PollStops
  <2>7. \A x \in Requests : WaitingFor(x)' \subseteq WaitingFor(x)
    BY <1>1, <2>1, NobodyWaits
  <2> QED
    BY <1>3, <1>4, <2>4, <2>5, <2>6, <2>7, FreshKept DEF libp2p, memory
<1>10. CASE PollAssignedRequestId \/ PollResponse
  <2>1. rr_output # <<>> /\ rr_output' = Tail(rr_output) /\ at = "request_response"
    BY <1>10 DEF PollAssignedRequestId, PollResponse
  <2>2. UNCHANGED <<rr_input, dm_output, processed_requests, swarm_events, shard, incoming, answered>>
    BY <1>10 DEF PollAssignedRequestId, PollResponse, maps, libp2p, memory, past
  <2>3. Content(rr_output', IncomingRequests) \subseteq Content(rr_output, IncomingRequests)
    BY <1>2, <2>1, ContentTail
  <2> QED
    BY <1>3, <1>4, <2>1, <2>2, <2>3, FreshKept DEF WaitingFor
<1>11. CASE PollIncomingRequest
  <2>1. PICK e \in OutEvents :
              /\ e = Head(rr_output) /\ e \in IncomingRequests
              /\ e.id \in InboundIds /\ e.request \in Requests
              /\ \A r \in Requests :
                   WaitingFor(r)' = WaitingFor(r) \cup (IF r = e.request THEN {e.id} ELSE {})
    BY <1>1, <1>11, PollIncomingWaits
  <2>2. rr_output # <<>> /\ rr_output' = Tail(rr_output) /\ at = "request_response"
    BY <1>11 DEF PollIncomingRequest
  <2>3. UNCHANGED <<rr_input, dm_output, swarm_events, shard, incoming, answered>>
    BY <1>11 DEF PollIncomingRequest, libp2p, memory, past
  <2>4. /\ Content(rr_output', IncomingRequests) \subseteq Content(rr_output, IncomingRequests)
        /\ e \in Content(rr_output, IncomingRequests)
    BY <1>2, <2>1, <2>2, ContentTail
  <2>5. e.id \in 1 .. Len(incoming) /\ incoming[e.id].request = e.request
    BY <2>4 DEF AskedInv
  <2>6. AskedInv'
    BY <2>1, <2>3, <2>4, <2>5 DEF AskedInv
  <2>7. \A m \in Content(dm_output, MemoryAnswers) :
          \A id \in WaitingFor(m.request)' : incoming[id].version <= m.version
    <3> SUFFICES ASSUME NEW m \in Content(dm_output, MemoryAnswers), NEW id \in WaitingFor(m.request)'
                 PROVE  incoming[id].version <= m.version
      OBVIOUS
    <3>1. m.request \in Requests
      BY <1>4, MemoryOutKinds DEF MemoryAnswers, Kind
    <3>2. CASE id \in WaitingFor(m.request)
      BY <3>2 DEF FreshInv
    <3>3. CASE id = e.id /\ m.request = e.request
      BY <2>2, <2>4, <3>3 DEF FreshInv
    <3> QED
      BY <2>1, <3>1, <3>2, <3>3
  <2>8. \A x : Fits(x)' <=> Fits(x)
    BY <2>3 DEF Fits
  <2>9. FreshInv'
    BY <1>3, <2>2, <2>3, <2>4, <2>7, <2>8 DEF FreshInv
  <2> QED
    BY <2>6, <2>9
<1>12. CASE YieldMessage
  <2>1. PICK e \in SwarmEvents, item \in OutEvents :
           /\ swarm_events # <<>> /\ e = Head(swarm_events) /\ swarm_events' = Tail(swarm_events)
           /\ e.type = "request" =>
                /\ e \in Arrivals
                /\ item = [type |-> "IncomingRequest", id |-> e.id, request |-> e.request]
           /\ e.type # "request" => item \notin IncomingRequests
           /\ \/ rr_output' = Append(rr_output, item) /\ at' = "select"
              \/ rr_output' = rr_output /\ at' = "blocked"
    BY <1>1, <1>12, YieldSends
  <2>2. /\ Content(swarm_events', Arrivals) \subseteq Content(swarm_events, Arrivals)
        /\ e \in Arrivals => e \in Content(swarm_events, Arrivals)
    BY <1>2, <2>1, ContentTail
  <2>3. item \in IncomingRequests =>
          item.id \in 1 .. Len(incoming) /\ item.request = incoming[item.id].request
    <3> SUFFICES ASSUME item \in IncomingRequests
                 PROVE  item.id \in 1 .. Len(incoming) /\ item.request = incoming[item.id].request
      OBVIOUS
    <3>1. e \in Content(swarm_events, Arrivals) /\ item.id = e.id /\ item.request = e.request
      BY <2>1, <2>2
    <3> QED
      BY <3>1 DEF AskedInv
  <2>4. \A x \in Content(rr_output', IncomingRequests) :
          x \in Content(rr_output, IncomingRequests) \/ (x = item /\ item \in IncomingRequests)
    <3>1. Content(Append(rr_output, item), IncomingRequests)
            = Content(rr_output, IncomingRequests)
                \cup (IF item \in IncomingRequests THEN {item} ELSE {})
      BY <1>2, ContentAppend
    <3>2. CASE rr_output' = rr_output
      BY <3>2
    <3>3. CASE rr_output' = Append(rr_output, item)
      BY <3>1, <3>3
    <3> QED
      BY <2>1, <3>2, <3>3
  <2>5. UNCHANGED <<rr_input, dm_output, maps, memory, past>>
    BY <1>12 DEF YieldMessage
  <2>6. at' # "request_response"
    BY <2>1
  <2> QED
    BY <1>3, <1>4, <2>2, <2>3, <2>4, <2>5, <2>6, FreshKept DEF maps, memory, past, WaitingFor
<1>13. CASE YieldFailure
  <2>1. Content(swarm_events', Arrivals) \subseteq Content(swarm_events, Arrivals)
    BY <1>2, <1>13, ContentTail DEF YieldFailure
  <2>2. UNCHANGED <<queues, maps, shard, incoming, answered>> /\ at' = "select"
    BY <1>13 DEF YieldFailure, memory
  <2> QED
    BY <1>3, <1>4, <2>1, <2>2, FreshKept DEF queues, maps, WaitingFor
<1>14. CASE MakeRequest
  <2>1. PICK item \in OutEvents : /\ item \notin IncomingRequests
              /\ \/ rr_output' = Append(rr_output, item) /\ at' = "select"
                 \/ rr_output' = rr_output /\ at' = "blocked"
    BY <1>14, MakeRequestSends
  <2>2. Content(rr_output', IncomingRequests) = Content(rr_output, IncomingRequests)
    <3>1. Content(Append(rr_output, item), IncomingRequests)
            = Content(rr_output, IncomingRequests) \cup {}
      BY <1>2, <2>1, ContentAppend
    <3> QED
      BY <2>1, <3>1
  <2>3. Content(rr_input', Responds) \subseteq Content(rr_input, Responds)
    BY <1>2, <1>14, ContentTail DEF MakeRequest
  <2>4. UNCHANGED <<dm_output, maps, swarm_events, memory, past>> /\ at' # "request_response"
    BY <1>14, <2>1 DEF MakeRequest
  <2> QED
    BY <1>3, <1>4, <2>2, <2>3, <2>4, FreshKept DEF maps, memory, past, WaitingFor
<1>15. CASE Respond
  <2>1. PICK e : e = Head(rr_input)
    OBVIOUS
  <2>2. e \in InEvents /\ e \in Responds /\ e.id \in InboundIds /\ e.request \in Requests
        /\ e.version \in Versions
    BY <1>2, <1>15, <2>1, TailPlaces, InKinds DEF Respond
  <2>3. /\ Content(rr_input', Responds) \subseteq Content(rr_input, Responds)
        /\ e \in Content(rr_input, Responds)
    BY <1>2, <1>15, <2>1, <2>2, ContentTail DEF Respond
  <2>4. PICK answer : answer = [id |-> e.id, request |-> e.request, version |-> e.version]
    OBVIOUS
  <2>5. answer \in Answers /\ Fits(answer)
    <3>1. Fits(e)
      BY <1>3, <2>3
    <3> QED
      BY <2>2, <2>4, <3>1 DEF Answers, Fits
  <2>6. answered' = Append(answered, answer)
    BY <1>15, <2>1, <2>4 DEF Respond
  <2>7. Content(Append(answered, answer), Answers) = Content(answered, Answers) \cup {answer}
    BY <1>2, <2>5, ContentAppend
  <2>8. \A x \in Content(answered', Answers) : Fits(x)
    BY <1>3, <2>5, <2>6, <2>7
  <2>9. UNCHANGED <<at, rr_output, dm_output, maps, libp2p, memory, incoming>>
    BY <1>15 DEF Respond
  <2> QED
    BY <1>3, <1>4, <2>3, <2>8, <2>9, FreshKept DEF maps, libp2p, memory, WaitingFor
<1>16. CASE HandleDataMemoryInput
  <2>1. PICK item \in MemoryOutputs :
           /\ item.request \in Requests /\ item.version = shard[item.request]
           /\ dm_output' = dm_output \/ dm_output' = Append(dm_output, item)
    BY <1>1, <1>16, HandleSends
  <2>2. \A m \in Content(dm_output', MemoryAnswers) :
          m \in Content(dm_output, MemoryAnswers) \/ m = item
    <3>1. Content(Append(dm_output, item), MemoryAnswers)
            = Content(dm_output, MemoryAnswers) \cup (IF item \in MemoryAnswers THEN {item} ELSE {})
      BY <1>2, ContentAppend
    <3>2. CASE dm_output' = dm_output
      BY <3>2
    <3>3. CASE dm_output' = Append(dm_output, item)
      BY <3>1, <3>3
    <3> QED
      BY <2>1, <3>2, <3>3
  <2>3. UNCHANGED <<at, rr_input, rr_output, maps, libp2p, memory, incoming, answered>>
    BY <1>16 DEF HandleDataMemoryInput
  <2>4. \A id \in 1 .. Len(incoming) : incoming[id].request = item.request
          => incoming[id].version <= item.version
    BY <1>3, <2>1
  <2>5. \A id \in WaitingFor(item.request) : incoming[id].version <= item.version
    BY <2>1, <2>4 DEF AskedInv
  <2>6. \A e \in Content(rr_output, IncomingRequests) :
          e.request = item.request => incoming[e.id].version <= item.version
    BY <2>4 DEF AskedInv
  <2>7. /\ \A x : Fits(x)' <=> Fits(x)
        /\ \A r : WaitingFor(r)' = WaitingFor(r)
    BY <2>3 DEF Fits, WaitingFor, maps
  <2>8. AskedInv'
    BY <2>3, <2>7 DEF AskedInv, libp2p
  <2>9. FreshInv'
    BY <1>3, <2>2, <2>3, <2>5, <2>6, <2>7 DEF FreshInv, memory
  <2> QED
    BY <2>8, <2>9
<1>17. ASSUME NEW r \in Requests, StoreShard(r) PROVE AskedInv' /\ FreshInv'
  <2>1. shard' = [shard EXCEPT ![r] = shard[r] + 1] /\ shard \in [Requests -> Versions]
        /\ Versions \subseteq Nat
    BY <1>1, <1>17, BoundAssumption DEF StoreShard, Typed, Versions
  <2>2. \A id \in 1 .. Len(incoming) : incoming[id].version <= shard'[incoming[id].request]
    <3> SUFFICES ASSUME NEW id \in 1 .. Len(incoming)
                 PROVE  incoming[id].version <= shard'[incoming[id].request]
      OBVIOUS
    <3>1. incoming[id] \in Questions
      BY <1>2
    <3>2. incoming[id].request \in Requests /\ incoming[id].version \in Nat
      BY <2>1, <3>1 DEF Questions
    <3>3. PICK x \in Requests : x = incoming[id].request
      BY <3>2
    <3>4. shard[x] \in Nat /\ shard'[x] \in Nat /\ shard[x] <= shard'[x]
      <4>1. shard[x] \in Nat
        BY <2>1
      <4>2. shard'[x] = IF x = r THEN shard[x] + 1 ELSE shard[x]
        BY <2>1
      <4> QED
        BY <4>1, <4>2
    <3>5. incoming[id].version <= shard[x]
      BY <1>3, <3>3
    <3> QED
      BY <3>2, <3>3, <3>4, <3>5
  <2>3. UNCHANGED <<at, queues, maps, libp2p, past>>
    BY <1>17 DEF StoreShard
  <2> QED
    BY <1>3, <1>4, <2>2, <2>3, FreshKept DEF queues, maps, libp2p, past, WaitingFor
<1>18. ASSUME NEW r \in Requests, AskForShard(r) PROVE AskedInv' /\ FreshInv'
  <2>1. PICK item : item = [type |-> "request", request |-> r]
    OBVIOUS
  <2>2. item \in Wants /\ item.type = "request"
    BY <2>1, Items
  <2>3. item \in MemoryOutputs
    BY <2>2 DEF Wants, Kind
  <2>4. item \notin MemoryAnswers
    BY <2>2, <2>3, MemoryOutKinds
  <2>5. Content(Append(dm_output, item), MemoryAnswers) = Content(dm_output, MemoryAnswers) \cup {}
    BY <1>2, <2>3, <2>4, ContentAppend
  <2>6. dm_output' = Append(dm_output, item)
        /\ UNCHANGED <<at, rr_input, rr_output, maps, libp2p, shard, past>>
    BY <1>18, <2>1 DEF AskForShard
  <2>7. Content(dm_output', MemoryAnswers) = Content(dm_output, MemoryAnswers)
    BY <2>5, <2>6
  <2> QED
    BY <1>3, <1>4, <2>6, <2>7, FreshKept DEF maps, libp2p, past, WaitingFor
<1>19. ASSUME NEW r \in Requests, RemoteRequest(r) PROVE AskedInv' /\ FreshInv'
  <2>1. /\ Len(incoming') = Len(incoming) + 1
        /\ \A id \in 1 .. Len(incoming) : incoming'[id] = incoming[id]
        /\ incoming'[Len(incoming) + 1].request = r
        /\ incoming'[Len(incoming) + 1].version = shard[r]
    BY <1>1, <1>19, RemoteRequestArrives
  <2>2. PICK item \in SwarmEvents :
              /\ item.id = Len(incoming) + 1 /\ item.request = r
              /\ swarm_events' = Append(swarm_events, item)
    BY <1>1, <1>19, RemoteRequestArrives
  <2>3. \A e \in Content(swarm_events', Arrivals) : e \in Content(swarm_events, Arrivals) \/ e = item
    <3>1. Content(Append(swarm_events, item), Arrivals)
            = Content(swarm_events, Arrivals) \cup (IF item \in Arrivals THEN {item} ELSE {})
      BY <1>2, ContentAppend
    <3> QED
      BY <2>2, <3>1
  <2>4. UNCHANGED <<at, queues, maps, memory, answered>>
    BY <1>19 DEF RemoteRequest
  <2>5. \A id \in 1 .. Len(incoming) : id \in 1 .. Len(incoming')
    BY <1>2, <2>1
  <2>6. \A id \in 1 .. Len(incoming') : id \in 1 .. Len(incoming) \/ id = Len(incoming) + 1
    BY <1>2, <2>1
  <2>7. Len(incoming) + 1 \in 1 .. Len(incoming')
    BY <1>2, <2>1
  <2>8. /\ \A x : Fits(x) => Fits(x)'
        /\ \A x : WaitingFor(x)' = WaitingFor(x)
    BY <2>1, <2>4, <2>5 DEF Fits, WaitingFor, maps
  <2>9. AskedInv'
    BY <2>1, <2>2, <2>3, <2>4, <2>5, <2>7, <2>8 DEF AskedInv, queues
  <2>10. \A id \in 1 .. Len(incoming') : incoming'[id].version <= shard'[incoming'[id].request]
    <3>1. shard[r] <= shard[r]
      <4>1. shard[r] \in Versions
        BY <1>1 DEF Typed
      <4> QED
        BY <4>1, BoundAssumption DEF Versions
    <3> QED
      BY <1>3, <2>1, <2>4, <2>6, <3>1 DEF memory
  <2>11. \A m \in Content(dm_output, MemoryAnswers) :
           \A id \in WaitingFor(m.request) : incoming'[id].version <= m.version
    <3>1. \A m \in Content(dm_output, MemoryAnswers) : m.request \in Requests
      BY <1>4, MemoryOutKinds DEF MemoryAnswers, Kind
    <3> QED
      BY <2>1, <3>1 DEF AskedInv, FreshInv
  <2>12. at = "request_response" =>
           \A m \in Content(dm_output, MemoryAnswers), e \in Content(rr_output, IncomingRequests) :
             e.request = m.request => incoming'[e.id].version <= m.version
    BY <2>1 DEF AskedInv, FreshInv
  <2>13. FreshInv'
    BY <1>3, <2>4, <2>8, <2>10, <2>11, <2>12 DEF FreshInv, queues
  <2> QED
    BY <2>9, <2>13
<1>20. ASSUME NEW id \in outbound, NEW type \in {"response", "failure"}, RemoteResponse(id, type)
       PROVE  AskedInv' /\ FreshInv'
  <2>1. PICK item : item = [type |-> type, id |-> id]
    OBVIOUS
  <2>2. item \in SwarmEvents /\ item.type # "request"
    BY <1>1, <2>1 DEF Typed, SwarmEvents
  <2>3. item \notin Arrivals
    BY <2>2, SwarmKinds
  <2>4. Content(Append(swarm_events, item), Arrivals) = Content(swarm_events, Arrivals) \cup {}
    BY <1>2, <2>2, <2>3, ContentAppend
  <2>5. swarm_events' = Append(swarm_events, item) /\ UNCHANGED <<at, queues, maps, memory, past>>
    BY <1>20, <2>1 DEF RemoteResponse
  <2>6. Content(swarm_events', Arrivals) = Content(swarm_events, Arrivals)
    BY <2>4, <2>5
  <2> QED
    BY <1>3, <1>4, <2>5, <2>6, FreshKept DEF queues, maps, memory, past, WaitingFor
<1> QED
  BY <1>5, <1>6, <1>7, <1>8, <1>9, <1>10, <1>11, <1>12, <1>13, <1>14, <1>15, <1>16, <1>17, <1>18,
     <1>19, <1>20 DEF Next, MainTask

(* Nobody is answered with a version that is older than the one stored     *)
(* when the question came, or with another shard than the one asked for.   *)
THEOREM AnswersFresh == Spec => []AnswersAreFresh
<1>1. TypeInv /\ FreshInv => AnswersAreFresh
  <2> SUFFICES ASSUME TypeInv, FreshInv, NEW i \in 1 .. Len(answered)
               PROVE  LET question == incoming[answered[i].id]
                      IN  /\ answered[i].request = question.request
                          /\ answered[i].version >= question.version
    BY DEF AnswersAreFresh
  <2>1. Typed
    BY TypedIsTypeOK DEF TypeInv
  <2>2. answered \in Seq(Answers) /\ incoming \in Seq(Questions)
    BY <2>1, Channels
  <2>3. answered[i] \in Answers
    BY <2>2
  <2>4. answered[i] \in Content(answered, Answers)
    BY <2>3 DEF Content, Marked
  <2>5. Fits(answered[i])
    BY <2>4 DEF FreshInv
  <2>6. answered[i].version \in Int /\ incoming[answered[i].id].version \in Int
    <3>1. Versions \subseteq Int
      BY BoundAssumption DEF Versions
    <3>2. incoming[answered[i].id] \in Questions
      BY <2>2, <2>5 DEF Fits
    <3> QED
      BY <2>3, <3>1, <3>2 DEF Answers, Questions
  <2> QED
    BY <2>5, <2>6 DEF Fits
<1> QED
  BY <1>1, TypeInit, TypeNext, FreshInit, FreshNext, PTL DEF Spec

-----------------------------------------------------------------------------
(* A request of another peer is in one place.                              *)

(* The handlers that wait for one shard are different. *)
Injective(w) == \A i, j \in 1 .. Len(w) : w[i] = w[j] => i = j

(* Initially nobody asked. *)
LEMMA PlacedInit == Init => PlacedInv
<1> SUFFICES ASSUME Init PROVE PlacedInv
  OBVIOUS
<1>1. \A M : Carried(<<>>, M) = {} /\ Distinct(<<>>, M)
  BY CountEmpty
<1>2. \A r \in Requests : processed_requests[r] = <<>>
  BY DEF Init
<1>3. 1 .. Len(<<>>) = {}
  OBVIOUS
<1>4. Waiting = {}
  BY <1>2, <1>3 DEF Waiting, WaitingFor
<1> QED
  BY <1>1, <1>2, <1>3, <1>4 DEF Init, PlacedInv

(* If ids only disappear they are still in one place at most. *)
LEMMA PlacedKept ==
  ASSUME PlacedInv,
         Distinct(swarm_events', Arrivals), Distinct(rr_output', IncomingRequests),
         Distinct(rr_input', Responds), Distinct(answered', Answers),
         \A r \in Requests : Injective(processed_requests'[r]),
         Carried(swarm_events', Arrivals) \subseteq Carried(swarm_events, Arrivals),
         Carried(rr_output', IncomingRequests) \subseteq Carried(rr_output, IncomingRequests),
         Waiting' \subseteq Waiting,
         Carried(rr_input', Responds) \subseteq Carried(rr_input, Responds),
         Carried(answered', Answers) \subseteq Carried(answered, Answers)
  PROVE  PlacedInv'
BY DEF PlacedInv, Injective

(* Who waits, by request. *)
LEMMA WaitingIs == \A id : id \in Waiting <=> \E r \in Requests : id \in WaitingFor(r)
BY DEF Waiting

(* The ids in use are those of the questions. *)
LEMMA PlacedIds ==
  ASSUME AskedInv, FreshInv
  PROVE  /\ Carried(swarm_events, Arrivals) \subseteq 1 .. Len(incoming)
         /\ Carried(rr_output, IncomingRequests) \subseteq 1 .. Len(incoming)
         /\ Waiting \subseteq 1 .. Len(incoming)
         /\ Carried(rr_input, Responds) \subseteq 1 .. Len(incoming)
         /\ Carried(answered, Answers) \subseteq 1 .. Len(incoming)
<1>1. Carried(swarm_events, Arrivals) \subseteq 1 .. Len(incoming)
  BY ContentKind DEF AskedInv
<1>2. Carried(rr_output, IncomingRequests) \subseteq 1 .. Len(incoming)
  BY ContentKind DEF AskedInv
<1>3. Waiting \subseteq 1 .. Len(incoming)
  BY WaitingIs DEF AskedInv
<1>4. Carried(rr_input, Responds) \subseteq 1 .. Len(incoming)
  BY ContentKind DEF FreshInv, Fits
<1>5. Carried(answered, Answers) \subseteq 1 .. Len(incoming)
  BY ContentKind DEF FreshInv, Fits
<1> QED
  BY <1>1, <1>2, <1>3, <1>4, <1>5

(* The responses carry ids that waited, each once. *)
LEMMA RespondIds ==
  ASSUME Typed, NEW r \in Requests, NEW v \in Versions, Injective(processed_requests[r]),
         NEW front \in Seq(InboundIds),
         Len(front) <= Len(processed_requests[r]),
         \A i \in 1 .. Len(front) : front[i] = processed_requests[r][i],
         NEW items, items = RespondTo(front, r, v)
  PROVE  /\ items \in Seq(InEvents)
         /\ Carried(items, Responds) \subseteq WaitingFor(r)
         /\ Distinct(items, Responds)
<1>1. PICK w \in Seq(InboundIds) : w = processed_requests[r]
  BY DEF Typed
<1>2. /\ items \in Seq(InEvents) /\ Len(items) = Len(front)
      /\ \A i \in 1 .. Len(front) : items[i] \in Responds /\ items[i].id = front[i]
  BY RespondItems
<1>3. Marked(items, Responds) = 1 .. Len(front)
  BY <1>2 DEF Marked
<1>4. Carried(items, Responds) \subseteq WaitingFor(r)
  BY <1>2, <1>3, FrontWaits DEF Carried
<1>5. \A i \in 1 .. Len(front) : i \in 1 .. Len(w) /\ items[i].id = w[i]
  BY <1>1, <1>2
<1>6. Distinct(items, Responds)
  BY <1>1, <1>3, <1>5 DEF Distinct, Injective
<1> QED
  BY <1>2, <1>4, <1>6

(* Ids move from one place to the next. *)
LEMMA PlacedNext ==
  TypeInv /\ AskedInv /\ FreshInv /\ PlacedInv /\ [Next]_vars => PlacedInv'
<1> SUFFICES ASSUME TypeInv, AskedInv, FreshInv, PlacedInv, [Next]_vars PROVE PlacedInv'
  OBVIOUS
<1>1. Typed
  BY TypedIsTypeOK DEF TypeInv
<1>2. /\ rr_input \in Seq(InEvents) /\ rr_output \in Seq(OutEvents)
      /\ swarm_events \in Seq(SwarmEvents) /\ answered \in Seq(Answers)
      /\ Len(incoming) \in Nat
  BY <1>1, Channels
<1>3. /\ Distinct(swarm_events, Arrivals) /\ Distinct(rr_output, IncomingRequests)
      /\ Distinct(rr_input, Responds) /\ Distinct(answered, Answers)
      /\ \A r \in Requests : Injective(processed_requests[r])
  BY DEF PlacedInv, Injective
<1>4. ASSUME UNCHANGED processed_requests PROVE Waiting' = Waiting
  BY <1>4 DEF Waiting, WaitingFor
<1>5. CASE UNCHANGED <<rr_input, rr_output, processed_requests, swarm_events, answered>>
  BY <1>3, <1>4, <1>5, PlacedKept
<1>6. CASE UNCHANGED vars \/ Initialize \/ StartPoll \/ EndSection \/ HandleDataMemoryInput
           \/ \E r \in Requests : StoreShard(r) \/ AskForShard(r)
  BY <1>5, <1>6 DEF vars, queues, maps, libp2p, past, Initialize, StartPoll, EndSection,
                    HandleDataMemoryInput, StoreShard, AskForShard
<1>7. CASE PollMakeRequest
  <2>1. PICK item \in InEvents :
           /\ item \notin Responds
           /\ rr_input' = Append(rr_input, item) \/ rr_input' = rr_input
    BY <1>1, <1>7, PollMakeRequestSends
  <2>2. /\ Carried(Append(rr_input, item), Responds) = Carried(rr_input, Responds) \cup {}
        /\ Distinct(Append(rr_input, item), Responds)
    BY <1>2, <1>3, <2>1, CarriedAppend
  <2>3. Carried(rr_input', Responds) \subseteq Carried(rr_input, Responds)
        /\ Distinct(rr_input', Responds)
    BY <1>3, <2>1, <2>2
  <2>4. UNCHANGED <<rr_output, processed_requests, swarm_events, answered>>
    BY <1>7 DEF PollMakeRequest, maps, libp2p, past
  <2> QED
    BY <1>3, <1>4, <2>3, <2>4, PlacedKept
<1>8. CASE PollRespond
  <2>1. PICK r \in Requests, v \in Versions, front \in Seq(InboundIds) :
              /\ processed_requests' = [processed_requests EXCEPT ![r] = <<>>]
              /\ Len(front) <= Len(processed_requests[r])
              /\ \A i \in 1 .. Len(front) : front[i] = processed_requests[r][i]
              /\ rr_input' = rr_input \o RespondTo(front, r, v)
    BY <1>1, <1>8, PollRespondSends
  <2>a. PICK items : items = RespondTo(front, r, v)
    OBVIOUS
  <2>2. /\ items \in Seq(InEvents)
        /\ Carried(items, Responds) \subseteq WaitingFor(r) /\ Distinct(items, Responds)
    BY <1>1, <1>3, <2>1, <2>a, RespondIds
  <2>3. \A id \in WaitingFor(r) : id \in Waiting
    BY WaitingIs
  <2>4. \A x \in Requests : WaitingFor(x)' = IF x = r THEN {} ELSE WaitingFor(x)
    BY <1>1, <2>1, NobodyWaits
  <2>5. Waiting' = Waiting \ WaitingFor(r)
    <3>1. \A x, y \in Requests : \A id : id \in WaitingFor(x) /\ id \in WaitingFor(y) => x = y
      BY DEF AskedInv
    <3>2. \A id : id \in Waiting' <=> \E x \in Requests : id \in WaitingFor(x)'
      BY DEF Waiting
    <3>3. \A id : id \in Waiting' <=> \E x \in Requests : x # r /\ id \in WaitingFor(x)
      BY <2>4, <3>2
    <3>4. \A id : id \in Waiting' <=> id \in Waiting /\ id \notin WaitingFor(r)
      BY <3>1, <3>3, WaitingIs
    <3> QED
      BY <3>4
  <2>6. \A x \in Requests : Injective(processed_requests'[x])
    <3> SUFFICES ASSUME NEW x \in Requests PROVE Injective(processed_requests'[x])
      OBVIOUS
    <3>1. CASE x = r
      <4>1. processed_requests'[x] = <<>> /\ 1 .. Len(<<>>) = {}
        BY <1>1, <2>1, <3>1 DEF Typed
      <4> QED
        BY <4>1 DEF Injective
    <3>2. CASE x # r
      BY <1>1, <1>3, <2>1, <3>2 DEF Typed
    <3> QED
      BY <3>1, <3>2
  <2>7. UNCHANGED <<rr_output, swarm_events, answered>>
    BY <1>8 DEF PollRespond, libp2p, past
  <2>8. Carried(rr_input, Responds) \cap Carried(items, Responds) = {}
    BY <2>2, <2>3 DEF PlacedInv
  <2>9. /\ Carried(rr_input', Responds) = Carried(rr_input, Responds) \cup Carried(items, Responds)
        /\ Distinct(rr_input', Responds)
    BY <1>2, <1>3, <2>1, <2>2, <2>8, <2>a, CarriedConcat
  <2> QED
    BY <1>3, <2>2, <2>3, <2>5, <2>6, <2>7, <2>9 DEF PlacedInv, Injective
<1>9. CASE PollAssignedRequestId \/ PollResponse
  <2>1. rr_output # <<>> /\ rr_output' = Tail(rr_output)
        /\ UNCHANGED <<rr_input, processed_requests, swarm_events, answered>>
    BY <1>9 DEF PollAssignedRequestId, PollResponse, maps, libp2p, past
  <2>2. /\ Carried(rr_output', IncomingRequests) \subseteq Carried(rr_output, IncomingRequests)
        /\ Distinct(rr_output', IncomingRequests)
    BY <1>2, <1>3, <2>1, CarriedTail
  <2> QED
    BY <1>3, <1>4, <2>1, <2>2, PlacedKept
<1>10. CASE PollIncomingRequest
  <2>1. PICK e \in OutEvents :
              /\ e = Head(rr_output) /\ e \in IncomingRequests
              /\ e.id \in InboundIds /\ e.request \in Requests
              /\ processed_requests' =
                   [processed_requests EXCEPT ![e.request] = Append(processed_requests[e.request], e.id)]
              /\ \A r \in Requests :
                   WaitingFor(r)' = WaitingFor(r) \cup (IF r = e.request THEN {e.id} ELSE {})
    BY <1>1, <1>10, PollIncomingWaits
  <2>2. rr_output # <<>> /\ rr_output' = Tail(rr_output)
        /\ UNCHANGED <<rr_input, swarm_events, answered>>
    BY <1>10 DEF PollIncomingRequest, libp2p, past
  <2>3. /\ Carried(rr_output, IncomingRequests) = Carried(rr_output', IncomingRequests) \cup {e.id}
        /\ Distinct(rr_output', IncomingRequests)
        /\ e.id \notin Carried(rr_output', IncomingRequests)
    BY <1>2, <1>3, <2>1, <2>2, CarriedTail
  <2>4. Waiting' = Waiting \cup {e.id}
    <3>1. \A id : id \in Waiting' <=> \E x \in Requests : id \in WaitingFor(x)'
      BY DEF Waiting
    <3>2. \A id : id \in Waiting' <=> id \in Waiting \/ id = e.id
      BY <2>1, <3>1, WaitingIs
    <3> QED
      BY <3>2
  <2>5. \A x \in Requests : Injective(processed_requests'[x])
    <3> SUFFICES ASSUME NEW x \in Requests PROVE Injective(processed_requests'[x])
      OBVIOUS
    <3>1. CASE x = e.request
      <4>1. PICK w : w = processed_requests[x]
        OBVIOUS
      <4>2. w \in Seq(InboundIds) /\ Injective(w)
        BY <1>1, <1>3, <4>1 DEF Typed
      <4>3. PICK t : t = Append(w, e.id)
        OBVIOUS
      <4>4. processed_requests'[x] = t
        BY <1>1, <2>1, <3>1, <4>1, <4>3 DEF Typed
      <4>5. /\ Len(t) = Len(w) + 1 /\ Len(w) \in Nat /\ t[Len(w) + 1] = e.id
            /\ \A i \in 1 .. Len(w) : t[i] = w[i]
        BY <2>1, <4>2, <4>3, AppendPlaces
      <4>6. \A i \in 1 .. Len(w) : w[i] # e.id
        <5>1. e.id \notin Waiting
          BY <2>3 DEF PlacedInv
        <5>2. e.id \notin WaitingFor(x)
          BY <5>1, WaitingIs
        <5> QED
          BY <4>1, <5>2 DEF WaitingFor
      <4>7. \A i \in 1 .. Len(t) : i \in 1 .. Len(w) \/ i = Len(w) + 1
        BY <4>5
      <4>8. Injective(t)
        BY <4>2, <4>5, <4>6, <4>7 DEF Injective
      <4> QED
        BY <4>4, <4>8
    <3>2. CASE x # e.request
      BY <1>1, <1>3, <2>1, <3>2 DEF Typed
    <3> QED
      BY <3>1, <3>2
  <2> QED
    BY <1>3, <2>2, <2>3, <2>4, <2>5 DEF PlacedInv, Injective
<1>11. CASE YieldMessage
  <2>1. PICK e \in SwarmEvents, item \in OutEvents :
           /\ swarm_events # <<>> /\ e = Head(swarm_events) /\ swarm_events' = Tail(swarm_events)
           /\ e.type = "request" => e \in Arrivals
           /\ e.type # "request" => item \notin IncomingRequests
           /\ item.id = e.id
           /\ rr_output' = Append(rr_output, item) \/ rr_output' = rr_output
    BY <1>1, <1>11, YieldSends
  <2>2. /\ Carried(swarm_events, Arrivals)
              = Carried(swarm_events', Arrivals) \cup (IF e \in Arrivals THEN {e.id} ELSE {})
        /\ Distinct(swarm_events', Arrivals)
        /\ e \in Arrivals => e.id \notin Carried(swarm_events', Arrivals)
    BY <1>2, <1>3, <2>1, CarriedTail
  <2>3. UNCHANGED <<rr_input, processed_requests, answered>>
    BY <1>11 DEF YieldMessage, maps, past
  <2>4. CASE rr_output' = rr_output
    BY <1>3, <1>4, <2>2, <2>3, <2>4, PlacedKept
  <2>5. CASE rr_output' = Append(rr_output, item)
    <3>1. item \in IncomingRequests => e \in Arrivals
      BY <2>1
    <3>2. item \in IncomingRequests => item.id \notin Carried(rr_output, IncomingRequests)
      BY <2>1, <2>2, <3>1 DEF PlacedInv
    <3>3. /\ Carried(rr_output', IncomingRequests) = Carried(rr_output, IncomingRequests)
                \cup (IF item \in IncomingRequests THEN {item.id} ELSE {})
          /\ Distinct(rr_output', IncomingRequests)
      BY <1>2, <1>3, <2>5, <3>2, CarriedAppend
    <3>4. CASE item \in IncomingRequests
      <4>1. Carried(swarm_events, Arrivals) = Carried(swarm_events', Arrivals) \cup {e.id}
        BY <2>2, <3>1, <3>4
      <4>2. Carried(rr_output', IncomingRequests) = Carried(rr_output, IncomingRequests) \cup {e.id}
        BY <2>1, <3>3, <3>4
      <4>3. e.id \notin Carried(swarm_events', Arrivals)
        BY <2>2, <3>1, <3>4
      <4> QED
        BY <1>3, <1>4, <2>2, <2>3, <3>3, <4>1, <4>2, <4>3 DEF PlacedInv
    <3>5. CASE item \notin IncomingRequests
      BY <1>3, <1>4, <2>2, <2>3, <3>3, <3>5, PlacedKept
    <3> QED
      BY <3>4, <3>5
  <2> QED
    BY <2>1, <2>4, <2>5
<1>12. CASE YieldFailure
  <2>1. /\ Carried(swarm_events', Arrivals) \subseteq Carried(swarm_events, Arrivals)
        /\ Distinct(swarm_events', Arrivals)
    BY <1>2, <1>3, <1>12, CarriedTail DEF YieldFailure
  <2>2. UNCHANGED <<rr_input, rr_output, processed_requests, answered>>
    BY <1>12 DEF YieldFailure, queues, maps
  <2> QED
    BY <1>3, <1>4, <2>1, <2>2, PlacedKept
<1>13. CASE MakeRequest
  <2>1. PICK item \in OutEvents :
              /\ item \notin IncomingRequests
              /\ rr_output' = Append(rr_output, item) \/ rr_output' = rr_output
    BY <1>13, MakeRequestSends
  <2>2. /\ Carried(Append(rr_output, item), IncomingRequests)
              = Carried(rr_output, IncomingRequests) \cup {}
        /\ Distinct(Append(rr_output, item), IncomingRequests)
    <3>1. item \in OutEvents /\ item \notin IncomingRequests
      BY <2>1
    <3>2. /\ Carried(Append(rr_output, item), IncomingRequests)
                = Carried(rr_output, IncomingRequests)
                    \cup (IF item \in IncomingRequests THEN {item.id} ELSE {})
          /\ Distinct(Append(rr_output, item), IncomingRequests)
      BY <1>2, <1>3, <3>1, CarriedAppend
    <3> QED
      BY <3>1, <3>2
  <2>3. Carried(rr_output', IncomingRequests) \subseteq Carried(rr_output, IncomingRequests)
        /\ Distinct(rr_output', IncomingRequests)
    BY <1>3, <2>1, <2>2
  <2>4. Carried(rr_input', Responds) \subseteq Carried(rr_input, Responds)
        /\ Distinct(rr_input', Responds)
    BY <1>2, <1>3, <1>13, CarriedTail DEF MakeRequest
  <2>5. UNCHANGED <<processed_requests, swarm_events, answered>>
    BY <1>13 DEF MakeRequest, maps, past
  <2> QED
    BY <1>3, <1>4, <2>3, <2>4, <2>5, PlacedKept
<1>14. CASE Respond
  <2>1. PICK e : e = Head(rr_input)
    OBVIOUS
  <2>2. e \in Responds /\ e.id \in InboundIds /\ e.request \in Requests /\ e.version \in Versions
    BY <1>2, <1>14, <2>1, TailPlaces, InKinds DEF Respond
  <2>3. /\ Carried(rr_input, Responds) = Carried(rr_input', Responds) \cup {e.id}
        /\ Distinct(rr_input', Responds) /\ e.id \notin Carried(rr_input', Responds)
    BY <1>2, <1>3, <1>14, <2>1, <2>2, CarriedTail DEF Respond
  <2>4. PICK answer : answer = [id |-> e.id, request |-> e.request, version |-> e.version]
    OBVIOUS
  <2>5. answer \in Answers /\ answer.id = e.id
    BY <2>2, <2>4 DEF Answers
  <2>6. answered' = Append(answered, answer)
    BY <1>14, <2>1, <2>4 DEF Respond
  <2>7. e.id \notin Carried(answered, Answers)
    BY <2>3 DEF PlacedInv
  <2>8. /\ Carried(answered', Answers) = Carried(answered, Answers) \cup {e.id}
        /\ Distinct(answered', Answers)
    BY <1>2, <1>3, <2>5, <2>6, <2>7, CarriedAppend
  <2>9. UNCHANGED <<rr_output, processed_requests, swarm_events>>
    BY <1>14 DEF Respond, maps, libp2p
  <2> QED
    BY <1>3, <1>4, <2>3, <2>8, <2>9 DEF PlacedInv
<1>15. ASSUME NEW r \in Requests, RemoteRequest(r) PROVE PlacedInv'
  <2>1. PICK item \in SwarmEvents :
              /\ item \in Arrivals /\ item.id = Len(incoming) + 1
              /\ swarm_events' = Append(swarm_events, item)
    BY <1>1, <1>15, RemoteRequestArrives
  <2>2. Len(incoming) + 1 \notin 1 .. Len(incoming)
    BY <1>2
  <2>3. /\ item.id \notin Carried(swarm_events, Arrivals)
        /\ item.id \notin Carried(rr_output, IncomingRequests)
        /\ item.id \notin Waiting
        /\ item.id \notin Carried(rr_input, Responds)
        /\ item.id \notin Carried(answered, Answers)
    BY <2>1, <2>2, PlacedIds
  <2>4. /\ Carried(swarm_events', Arrivals) = Carried(swarm_events, Arrivals) \cup {item.id}
        /\ Distinct(swarm_events', Arrivals)
    BY <1>2, <1>3, <2>1, <2>3, CarriedAppend
  <2>5. UNCHANGED <<rr_input, rr_output, processed_requests, answered>>
    BY <1>15 DEF RemoteRequest, queues, maps
  <2> QED
    BY <1>3, <1>4, <2>3, <2>4, <2>5 DEF PlacedInv
<1>16. ASSUME NEW id \in outbound, NEW type \in {"response", "failure"}, RemoteResponse(id, type)
       PROVE  PlacedInv'
  <2>1. PICK item : item = [type |-> type, id |-> id]
    OBVIOUS
  <2>2. item \in SwarmEvents /\ item.type # "request"
    BY <1>1, <2>1 DEF Typed, SwarmEvents
  <2>3. item \notin Arrivals
    BY <2>2, SwarmKinds
  <2>4. swarm_events' = Append(swarm_events, item)
        /\ UNCHANGED <<rr_input, rr_output, processed_requests, answered>>
    BY <1>16, <2>1 DEF RemoteResponse, queues, maps, past
  <2>5. /\ Carried(swarm_events', Arrivals) \subseteq Carried(swarm_events, Arrivals)
        /\ Distinct(swarm_events', Arrivals)
    <3>1. /\ Carried(Append(swarm_events, item), Arrivals)
                = Carried(swarm_events, Arrivals) \cup (IF item \in Arrivals THEN {item.id} ELSE {})
          /\ Distinct(Append(swarm_events, item), Arrivals)
      BY <1>2, <1>3, <2>2, <2>3, CarriedAppend
    <3> QED
      BY <2>3, <2>4, <3>1
  <2> QED
    BY <1>3, <1>4, <2>4, <2>5, PlacedKept
<1> QED
  BY <1>6, <1>7, <1>8, <1>9, <1>10, <1>11, <1>12, <1>13, <1>14, <1>15, <1>16 DEF Next, MainTask

-----------------------------------------------------------------------------
(* The channels hold what is under way.                                    *)

(* The loads are numbers, and so are their parts. *)
LEMMA LoadTypes ==
  ASSUME Typed
  PROVE  /\ Count(swarm_events, Arrivals) \in Nat /\ Count(swarm_events, Returns) \in Nat
         /\ Count(rr_output, IncomingRequests) \in Nat /\ Count(rr_output, OutResponses) \in Nat
         /\ Count(rr_output, AssignedIds) \in Nat
         /\ Count(dm_input, MemoryRequests) \in Nat /\ Count(dm_input, MemoryResponses) \in Nat
         /\ Count(rr_input, MakeRequests) \in Nat /\ Count(rr_input, Responds) \in Nat
         /\ Count(dm_output, Wants) \in Nat /\ Count(dm_output, MemoryAnswers) \in Nat
         /\ IsFiniteSet(outbound) /\ Cardinality(outbound) \in Nat
         /\ IsFiniteSet(failed) /\ Cardinality(failed) \in Nat
         /\ last_id \in Nat /\ asked \in Nat /\ passed \in Nat /\ used \in Nat
         /\ Len(incoming) \in Nat /\ Len(answered) \in Nat
<1>1. /\ rr_input \in Seq(InEvents) /\ rr_output \in Seq(OutEvents)
      /\ dm_input \in Seq(MemoryInputs) /\ dm_output \in Seq(MemoryOutputs)
      /\ swarm_events \in Seq(SwarmEvents) /\ last_id \in Nat /\ asked \in Nat
      /\ Len(incoming) \in Nat /\ Len(answered) \in Nat
  BY Channels
<1>2. IsFiniteSet(OutboundIds)
  BY FS_Interval, BoundAssumption DEF OutboundIds
<1>3. IsFiniteSet(outbound) /\ Cardinality(outbound) \in Nat
  BY <1>2, FS_Subset, FS_CardinalityType DEF Typed
<1>4. IsFiniteSet(failed) /\ Cardinality(failed) \in Nat
  BY <1>2, FS_Subset, FS_CardinalityType DEF Typed
<1>5. passed \in Nat /\ used \in Nat
  BY DEF Typed
<1> QED
  BY <1>1, <1>3, <1>4, <1>5, CountType

(* Initially the channels are empty. *)
LEMMA LoadInit == Init => LoadInv
<1> SUFFICES ASSUME Init PROVE LoadInv
  OBVIOUS
<1>1. \A M : Count(<<>>, M) = 0
  BY CountEmpty
<1>2. Cardinality({}) = 0 /\ Len(<<>>) = 0
  BY FS_EmptySet
<1>3. InboundLoad = 0
  BY <1>1 DEF Init, InboundLoad
<1>4. OutboundLoad = 0
  BY <1>1, <1>2 DEF Init, OutboundLoad
<1> QED
  BY <1>1, <1>2, <1>3, <1>4 DEF Init, LoadInv

(* data_memory.input holds requests and responses. *)
LEMMA MemoryInputLoad ==
  ASSUME Typed
  PROVE  Len(dm_input) = Count(dm_input, MemoryRequests) + Count(dm_input, MemoryResponses)
<1>1. MemoryInputs \subseteq MemoryRequests \cup MemoryResponses
      /\ MemoryRequests \cap MemoryResponses = {}
  <2>1. \A e \in MemoryInputs : e \in MemoryRequests \cup MemoryResponses
    BY MemoryInKinds
  <2>2. \A e \in MemoryRequests : e \notin MemoryResponses
    BY DEF MemoryRequests, MemoryResponses, Kind
  <2> QED
    BY <2>1, <2>2
<1>2. dm_input \in Seq(MemoryInputs)
  BY Channels
<1> QED
  BY <1>1, <1>2, CountAll

(* request_response.input holds requests to make and responses. *)
LEMMA InputLoad ==
  ASSUME Typed
  PROVE  Len(rr_input) = Count(rr_input, MakeRequests) + Count(rr_input, Responds)
<1>1. InEvents \subseteq MakeRequests \cup Responds /\ MakeRequests \cap Responds = {}
  <2>1. \A e \in InEvents : e \in MakeRequests \cup Responds
    BY InKinds
  <2>2. \A e \in MakeRequests : e \notin Responds
    BY DEF MakeRequests, Responds, Kind
  <2> QED
    BY <2>1, <2>2
<1>2. rr_input \in Seq(InEvents)
  BY Channels
<1> QED
  BY <1>1, <1>2, CountAll

(* request_response.output holds ids, responses and requests. *)
LEMMA OutputLoad ==
  ASSUME Typed
  PROVE  Len(rr_output) = Count(rr_output, AssignedIds) + Count(rr_output, OutResponses)
                            + Count(rr_output, IncomingRequests)
<1>1. OutEvents \subseteq AssignedIds \cup OutResponses \cup IncomingRequests
  BY OutKinds
<1>2. /\ AssignedIds \cap OutResponses = {} /\ AssignedIds \cap IncomingRequests = {}
      /\ OutResponses \cap IncomingRequests = {}
  BY DEF AssignedIds, OutResponses, IncomingRequests, Kind
<1>3. rr_output \in Seq(OutEvents)
  BY Channels
<1> QED
  BY <1>1, <1>2, <1>3, CountThree

(* A question has at most one response, sent or to be sent, or waits.      *)
LEMMA ResponseLoad ==
  ASSUME Typed, AskedInv, FreshInv, PlacedInv, NEW W, W \subseteq Waiting
  PROVE  /\ IsFiniteSet(W) /\ Cardinality(W) \in Nat
         /\ Count(rr_input, Responds) + Cardinality(W) + Len(answered) <= Len(incoming)
<1>1. /\ Len(incoming) \in Nat /\ rr_input \in Seq(InEvents)
      /\ answered \in Seq(Answers) /\ Len(answered) \in Nat
  BY Channels
<1>2. PICK C, D : C = Carried(rr_input, Responds) /\ D = Carried(answered, Answers)
  OBVIOUS
<1>3. IsFiniteSet(1 .. Len(incoming)) /\ Cardinality(1 .. Len(incoming)) = Len(incoming)
  BY <1>1, IntervalSize
<1>4. /\ C \subseteq 1 .. Len(incoming) /\ W \subseteq 1 .. Len(incoming) /\ D \subseteq 1 .. Len(incoming)
      /\ C \cap W = {} /\ C \cap D = {} /\ W \cap D = {}
  BY <1>2, PlacedIds DEF PlacedInv
<1>5. IsFiniteSet(C) /\ Cardinality(C) = Count(rr_input, Responds)
  BY <1>1, <1>2, CountDistinct DEF PlacedInv
<1>6. IsFiniteSet(D) /\ Cardinality(D) = Len(answered)
  <2>1. Marked(answered, Answers) = 1 .. Len(answered)
    BY <1>1 DEF Marked
  <2>2. Count(answered, Answers) = Len(answered)
    BY <1>1, <2>1, IntervalSize DEF Count
  <2> QED
    BY <1>1, <1>2, <2>2, CountDistinct DEF PlacedInv
<1>7. IsFiniteSet(W) /\ Cardinality(W) \in Nat /\ Cardinality(C) \in Nat /\ Cardinality(D) \in Nat
  BY <1>3, <1>4, <1>5, <1>6, FS_Subset, FS_CardinalityType
<1>8. PICK V : V = C \cup W
  OBVIOUS
<1>9. IsFiniteSet(V) /\ Cardinality(V) = Cardinality(C) + Cardinality(W)
  <2>1. IsFiniteSet(V) /\ Cardinality(V) = Cardinality(C) + Cardinality(W) - Cardinality(C \cap W)
    BY <1>5, <1>7, <1>8, FS_Union
  <2>2. Cardinality(C \cap W) = 0
    BY <1>4, FS_EmptySet
  <2> QED
    BY <1>7, <2>1, <2>2
<1>10. Cardinality(V \cup D) = Cardinality(V) + Cardinality(D)
  <2>1. Cardinality(V \cup D) = Cardinality(V) + Cardinality(D) - Cardinality(V \cap D)
    BY <1>6, <1>9, FS_Union
  <2>2. V \cap D = {}
    BY <1>4, <1>8
  <2>3. Cardinality(V \cap D) = 0
    BY <2>2, FS_EmptySet
  <2> QED
    BY <1>7, <1>9, <2>1, <2>3
<1>11. V \cup D \subseteq 1 .. Len(incoming)
  BY <1>4, <1>8
<1>12. Cardinality(V \cup D) <= Len(incoming)
  BY <1>3, <1>11, FS_Subset
<1> QED
  BY <1>5, <1>6, <1>7, <1>9, <1>10, <1>12

(* The handlers that wait for one shard are as many as their ids. *)
LEMMA WaitingSize ==
  ASSUME NEW w \in Seq(InboundIds), Injective(w)
  PROVE  Cardinality({w[i] : i \in 1 .. Len(w)}) = Len(w)
<1>1. PICK n : n = Len(w)
  OBVIOUS
<1>2. n \in Nat
  BY <1>1
<1>3. IsFiniteSet(1 .. n) /\ Cardinality(1 .. n) = n
  BY <1>2, IntervalSize
<1>4. PICK W : W = {w[i] : i \in 1 .. n}
  OBVIOUS
<1>5. [i \in 1 .. n |-> w[i]] \in Bijection(1 .. n, W)
  BY <1>1, <1>4 DEF Injective, Bijection, Injection, Surjection, IsInjective
<1>6. Cardinality(W) = Cardinality(1 .. n)
  BY <1>3, <1>5, FS_Bijection DEF ExistsBijection
<1> QED
  BY <1>1, <1>3, <1>4, <1>6

(* What the behaviour takes from request_response.output counts there. *)
LEMMA HeadCounts ==
  ASSUME Typed, rr_output # <<>>, NEW M, Head(rr_output) \in M
  PROVE  Count(rr_output, M) \in Nat \ {0}
<1>1. rr_output \in Seq(OutEvents)
  BY Channels
<1>2. Count(rr_output, M) = Count(Tail(rr_output), M) + 1 /\ Count(Tail(rr_output), M) \in Nat
  BY <1>1, CountTail
<1> QED
  BY <1>2

(* What is under way covers what the channels hold, and the responses that *)
(* a poll may send at once.                                                *)
LEMMA UnderWayCovers ==
  ASSUME TypeInv, MatchedInv, AskedInv, FreshInv, PlacedInv, LoadInv, NEW W, W \subseteq Waiting
  PROVE  /\ UnderWay >= InboundLoad + OutboundLoad
                          + Count(rr_input, MakeRequests) + Count(dm_output, Wants)
         /\ UnderWay >= Count(rr_input, Responds) + Cardinality(W)
                          + Count(rr_input, MakeRequests) + Count(dm_output, Wants)
<1>1. Typed
  BY TypedIsTypeOK DEF TypeInv
<1>2. PICK a, b, c, d, e, f, i, o, w :
        /\ a = Count(rr_input, MakeRequests) /\ b = Count(dm_output, Wants)
        /\ c = Count(rr_input, Responds) /\ w = Cardinality(W)
        /\ d = Len(incoming) /\ e = Len(answered) /\ f = Cardinality(failed)
        /\ i = InboundLoad /\ o = OutboundLoad
  OBVIOUS
<1>3. /\ a \in Nat /\ b \in Nat /\ c \in Nat /\ d \in Nat /\ e \in Nat /\ f \in Nat
      /\ last_id \in Nat /\ asked \in Nat /\ passed \in Nat /\ used \in Nat
  BY <1>1, <1>2, LoadTypes
<1>4. i \in Nat /\ o \in Nat
  <2>1. i \in Nat
    <3>1. /\ Count(swarm_events, Arrivals) \in Nat /\ Count(rr_output, IncomingRequests) \in Nat
          /\ Count(dm_input, MemoryRequests) \in Nat /\ Count(dm_output, MemoryAnswers) \in Nat
      BY <1>1, LoadTypes
    <3> QED
      BY <1>2, <3>1 DEF InboundLoad
  <2>2. o \in Nat
    <3>1. /\ Count(swarm_events, Returns) \in Nat /\ Count(rr_output, OutResponses) \in Nat
          /\ Cardinality(outbound) \in Nat /\ Count(dm_input, MemoryResponses) \in Nat
      BY <1>1, LoadTypes
    <3> QED
      BY <1>2, <3>1 DEF OutboundLoad
  <2> QED
    BY <2>1, <2>2
<1>5. w \in Nat /\ c + w + e <= d
  BY <1>1, <1>2, ResponseLoad
<1>6. i + passed <= d /\ o + used + f <= last_id
  BY <1>2 DEF LoadInv
<1>7. last_id + a + b <= asked
  BY <1>2 DEF TypeInv, OutboundBudget
<1>8. OutboundUnderWay = asked - used - f - 0
  BY <1>2, FS_EmptySet DEF OutboundUnderWay, MatchedInv, ResponsesAreMatched
<1>9. OutboundUnderWay \in Int /\ OutboundUnderWay >= o + a + b
  BY <1>3, <1>4, <1>6, <1>7, <1>8
<1>10. InboundUnderWay \in Int /\ InboundUnderWay >= d - e /\ InboundUnderWay >= d - passed
  BY <1>2, <1>3 DEF InboundUnderWay
<1>11. InboundUnderWay >= i /\ InboundUnderWay >= c + w
  BY <1>3, <1>4, <1>5, <1>6, <1>10
<1>12. UnderWay = InboundUnderWay + OutboundUnderWay
  BY DEF UnderWay
<1>13. UnderWay >= i + o + a + b /\ UnderWay >= c + w + a + b
  BY <1>3, <1>4, <1>5, <1>9, <1>10, <1>11, <1>12
<1> QED
  BY <1>2, <1>13

(* A task that gives up finds a full channel, and one request more.        *)
LEMMA GivesUpStep ==
  ASSUME TypeInv, MatchedInv, AskedInv, FreshInv, PlacedInv, LoadInv, [Next]_vars,
         ~ GivenUp, GivenUp'
  PROVE  UnderWay > Capacity
<1>1. Typed
  BY TypedIsTypeOK DEF TypeInv
<1>2. at \notin {"blocked", "stopped"} /\ at' \in {"blocked", "stopped"}
  BY DEF GivenUp
<1> DEFINE AR == Count(swarm_events, Arrivals)
           RT == Count(swarm_events, Returns)
           IR == Count(rr_output, IncomingRequests)
           OR == Count(rr_output, OutResponses)
           AS == Count(rr_output, AssignedIds)
           MQ == Count(dm_input, MemoryRequests)
           MP == Count(dm_input, MemoryResponses)
           MR == Count(rr_input, MakeRequests)
           RS == Count(rr_input, Responds)
           WN == Count(dm_output, Wants)
           MA == Count(dm_output, MemoryAnswers)
           OB == Cardinality(outbound)
<1>3. /\ AR \in Nat /\ RT \in Nat /\ IR \in Nat /\ OR \in Nat /\ AS \in Nat /\ MQ \in Nat
      /\ MP \in Nat /\ MR \in Nat /\ RS \in Nat /\ WN \in Nat /\ MA \in Nat /\ OB \in Nat
  BY <1>1, LoadTypes
<1>4. UnderWay \in Int
  <2>1. /\ Len(incoming) \in Nat /\ Len(answered) \in Nat /\ passed \in Nat /\ asked \in Nat
        /\ used \in Nat /\ Cardinality(failed) \in Nat
    BY <1>1, LoadTypes
  <2>2. Cardinality(unmatched) = 0
    BY FS_EmptySet DEF MatchedInv, ResponsesAreMatched
  <2>3. InboundUnderWay \in Int /\ OutboundUnderWay \in Int
    BY <2>1, <2>2 DEF InboundUnderWay, OutboundUnderWay
  <2> QED
    BY <2>3 DEF UnderWay
<1>5. UnderWay >= (AR + IR + MQ + MA) + (RT + OR + OB + MP) + MR + WN
  <2>1. {} \subseteq Waiting
    OBVIOUS
  <2> QED
    BY <2>1, UnderWayCovers DEF InboundLoad, OutboundLoad
<1>6. Capacity \in Nat
  BY CapacityAssumption
<1>7. CASE UNCHANGED vars \/ PollAssignedRequestId \/ YieldFailure \/ Respond
           \/ HandleDataMemoryInput \/ Initialize
           \/ \E r \in Requests : StoreShard(r) \/ AskForShard(r) \/ RemoteRequest(r)
  BY <1>2, <1>7 DEF vars, PollAssignedRequestId, YieldFailure, Respond, HandleDataMemoryInput,
                    Initialize, StoreShard, AskForShard, RemoteRequest
<1>8. CASE StartPoll \/ EndSection
  BY <1>2, <1>8, Sections DEF StartPoll, EndSection
<1>9. CASE MakeRequest
  <2>1. ~ (Len(rr_output) < Capacity)
    BY <1>2, <1>9, MakeRequestSends
  <2>2. Len(rr_output) = AS + OR + IR
    BY <1>1, OutputLoad
  <2>3. AS <= RT + OB
    BY DEF LoadInv
  <2>4. MR >= 1
    <3>1. rr_input \in Seq(InEvents) /\ rr_input # <<>> /\ Head(rr_input).type = "MakeRequest"
      BY <1>1, <1>9, Channels DEF MakeRequest
    <3>2. Head(rr_input) \in MakeRequests
      BY <3>1, TailPlaces, InKinds
    <3>3. MR = Count(Tail(rr_input), MakeRequests) + 1 /\ Count(Tail(rr_input), MakeRequests) \in Nat
      BY <3>1, <3>2, CountTail
    <3> QED
      BY <3>3
  <2>5. AS + OR + IR >= Capacity
    BY <1>3, <1>6, <2>1, <2>2
  <2> HIDE DEF AR, RT, IR, OR, AS, MQ, MP, MR, RS, WN, MA, OB
  <2> QED
    BY <1>3, <1>4, <1>5, <1>6, <2>3, <2>4, <2>5
<1>10. CASE YieldMessage
  <2>1. rr_output = <<>> /\ Len(<<>>) = 0
    BY <1>10 DEF MatchedInv, YieldMessage
  <2>2. ~ (Len(rr_output) < Capacity)
    BY <1>1, <1>2, <1>10, YieldSends
  <2> QED
    BY <2>1, <2>2, CapacityAssumption
<1>11. CASE PollMakeRequest
  <2>1. /\ dm_output # <<>> /\ Head(dm_output) \in Wants
        /\ ~ (Len(rr_input) + 1 <= Capacity)
    BY <1>1, <1>2, <1>11, PollMakeRequestSends
  <2>2. WN >= 1
    <3>1. dm_output \in Seq(MemoryOutputs)
      BY <1>1, Channels
    <3>2. WN = Count(Tail(dm_output), Wants) + 1 /\ Count(Tail(dm_output), Wants) \in Nat
      BY <2>1, <3>1, CountTail
    <3> QED
      BY <3>2
  <2>3. UnderWay >= RS + 0 + MR + WN
    <3>1. {} \subseteq Waiting /\ Cardinality({}) = 0
      BY FS_EmptySet
    <3> QED
      BY <3>1, UnderWayCovers
  <2>4. Len(rr_input) = MR + RS
    BY <1>1, InputLoad
  <2>5. MR + RS >= Capacity
    BY <1>3, <1>6, <2>1, <2>4
  <2> HIDE DEF AR, RT, IR, OR, AS, MQ, MP, MR, RS, WN, MA, OB
  <2> QED
    BY <1>3, <1>4, <1>6, <2>2, <2>3, <2>5
<1>12. CASE PollRespond
  <2>1. PICK r \in Requests : ~ (Len(rr_input) + Len(processed_requests[r]) <= Capacity)
    BY <1>1, <1>2, <1>12, PollRespondSends
  <2>2. PICK w, n : w = processed_requests[r] /\ n = Cardinality(WaitingFor(r))
    OBVIOUS
  <2>3. w \in Seq(InboundIds) /\ Injective(w)
    BY <1>1, <2>2 DEF Typed, PlacedInv, Injective
  <2>4. n = Len(w) /\ Len(w) \in Nat
    BY <2>2, <2>3, WaitingSize DEF WaitingFor
  <2>5. UnderWay >= RS + n + MR + WN
    <3>1. WaitingFor(r) \subseteq Waiting
      BY WaitingIs
    <3> QED
      BY <2>2, <3>1, UnderWayCovers
  <2>6. Len(rr_input) = MR + RS
    BY <1>1, InputLoad
  <2>7. ~ (Len(rr_input) + n <= Capacity) /\ n \in Nat
    BY <2>1, <2>2, <2>4
  <2> HIDE DEF AR, RT, IR, OR, AS, MQ, MP, MR, RS, WN, MA, OB
  <2>8. MR + RS + n > Capacity
    BY <1>3, <1>6, <2>6, <2>7
  <2> QED
    BY <1>3, <1>4, <1>6, <2>5, <2>7, <2>8
<1>13. CASE PollResponse \/ PollIncomingRequest
  <2>1. ~ (Len(dm_input) < Capacity)
    BY <1>2, <1>13 DEF PollResponse, PollIncomingRequest, SendDataMemory
  <2>2. OR >= 1 \/ IR >= 1
    <3>1. rr_output \in Seq(OutEvents) /\ rr_output # <<>>
      BY <1>1, <1>13, Channels DEF PollResponse, PollIncomingRequest
    <3>2. Head(rr_output) \in OutResponses \/ Head(rr_output) \in IncomingRequests
      BY <1>13, <3>1, TailPlaces, OutKinds DEF PollResponse, PollIncomingRequest
    <3>3. OR \in Nat \ {0} \/ IR \in Nat \ {0}
      BY <1>1, <3>1, <3>2, HeadCounts
    <3> QED
      BY <3>3
  <2>3. Len(dm_input) = MQ + MP
    BY <1>1, MemoryInputLoad
  <2>4. MQ + MP >= Capacity
    BY <1>3, <1>6, <2>1, <2>3
  <2> HIDE DEF AR, RT, IR, OR, AS, MQ, MP, MR, RS, WN, MA, OB
  <2> QED
    BY <1>3, <1>4, <1>5, <1>6, <2>2, <2>4
<1>14. ASSUME NEW id \in outbound, NEW type \in {"response", "failure"}, RemoteResponse(id, type)
       PROVE  UnderWay > Capacity
  BY <1>2, <1>14 DEF RemoteResponse
<1> QED
  BY <1>7, <1>8, <1>9, <1>10, <1>11, <1>12, <1>13, <1>14 DEF Next, MainTask

(* The loads follow the requests under way: what a step takes from one     *)
(* channel it puts into one other at most, or it is counted as ended.      *)
LEMMA LoadNext ==
  ASSUME TypeInv, MatchedInv, LoadInv, [Next]_vars
  PROVE  LoadInv'
<1>1. Typed /\ outbound \subseteq 1 .. last_id
  BY TypedIsTypeOK DEF TypeInv, OutboundBudget
<1>2. /\ rr_input \in Seq(InEvents) /\ rr_output \in Seq(OutEvents)
      /\ dm_input \in Seq(MemoryInputs) /\ dm_output \in Seq(MemoryOutputs)
      /\ swarm_events \in Seq(SwarmEvents)
  BY <1>1, Channels
<1> DEFINE AR == Count(swarm_events, Arrivals)
           RT == Count(swarm_events, Returns)
           IR == Count(rr_output, IncomingRequests)
           OR == Count(rr_output, OutResponses)
           AS == Count(rr_output, AssignedIds)
           MQ == Count(dm_input, MemoryRequests)
           MP == Count(dm_input, MemoryResponses)
           MA == Count(dm_output, MemoryAnswers)
           OB == Cardinality(outbound)
           FA == Cardinality(failed)
           INC == Len(incoming)
           ARn == Count(swarm_events', Arrivals)
           RTn == Count(swarm_events', Returns)
           IRn == Count(rr_output', IncomingRequests)
           ORn == Count(rr_output', OutResponses)
           ASn == Count(rr_output', AssignedIds)
           MQn == Count(dm_input', MemoryRequests)
           MPn == Count(dm_input', MemoryResponses)
           MAn == Count(dm_output', MemoryAnswers)
           OBn == Cardinality(outbound')
           FAn == Cardinality(failed')
           INCn == Len(incoming')
           Ids == ASn <= RTn + OBn
           Inbound == ARn + IRn + MQn + MAn + passed' <= INCn
           Outbound == RTn + ORn + OBn + MPn + used' + FAn <= last_id'
           Goal == Ids /\ Inbound /\ Outbound
<1>3. SUFFICES Goal
  BY DEF LoadInv, InboundLoad, OutboundLoad
<1>4. /\ AR \in Nat /\ RT \in Nat /\ IR \in Nat /\ OR \in Nat /\ AS \in Nat /\ MQ \in Nat
      /\ MP \in Nat /\ MA \in Nat /\ OB \in Nat /\ FA \in Nat /\ INC \in Nat
      /\ last_id \in Nat /\ passed \in Nat /\ used \in Nat
      /\ IsFiniteSet(outbound) /\ IsFiniteSet(failed)
  BY <1>1, LoadTypes
<1>5. /\ AS <= RT + OB /\ AR + IR + MQ + MA + passed <= INC
      /\ RT + OR + OB + MP + used + FA <= last_id
  BY DEF LoadInv, InboundLoad, OutboundLoad
<1>6. /\ swarm_events' = swarm_events => ARn = AR /\ RTn = RT
      /\ rr_output' = rr_output => IRn = IR /\ ORn = OR /\ ASn = AS
      /\ dm_input' = dm_input => MQn = MQ /\ MPn = MP
      /\ dm_output' = dm_output => MAn = MA
      /\ outbound' = outbound => OBn = OB
      /\ failed' = failed => FAn = FA
      /\ incoming' = incoming => INCn = INC
  OBVIOUS
<1>7. ASSUME rr_output # <<>>, rr_output' = Tail(rr_output)
      PROVE  /\ IR = IRn + (IF Head(rr_output) \in IncomingRequests THEN 1 ELSE 0)
             /\ OR = ORn + (IF Head(rr_output) \in OutResponses THEN 1 ELSE 0)
             /\ AS = ASn + (IF Head(rr_output) \in AssignedIds THEN 1 ELSE 0)
             /\ IRn \in Nat /\ ORn \in Nat /\ ASn \in Nat
             /\ Head(rr_output) \in OutEvents
  BY <1>2, <1>7, CountTail, TailPlaces
<1>8. ASSUME swarm_events # <<>>, swarm_events' = Tail(swarm_events)
      PROVE  /\ AR = ARn + (IF Head(swarm_events) \in Arrivals THEN 1 ELSE 0)
             /\ RT = RTn + (IF Head(swarm_events) \in Returns THEN 1 ELSE 0)
             /\ ARn \in Nat /\ RTn \in Nat /\ Head(swarm_events) \in SwarmEvents
  BY <1>2, <1>8, CountTail, TailPlaces
<1>9. ASSUME dm_input # <<>>, dm_input' = Tail(dm_input)
      PROVE  /\ MQ = MQn + (IF Head(dm_input) \in MemoryRequests THEN 1 ELSE 0)
             /\ MP = MPn + (IF Head(dm_input) \in MemoryResponses THEN 1 ELSE 0)
             /\ MQn \in Nat /\ MPn \in Nat /\ Head(dm_input) \in MemoryInputs
  BY <1>2, <1>9, CountTail, TailPlaces
<1>10. ASSUME dm_output # <<>>, dm_output' = Tail(dm_output)
       PROVE  /\ MA = MAn + (IF Head(dm_output) \in MemoryAnswers THEN 1 ELSE 0)
              /\ MAn \in Nat /\ Head(dm_output) \in MemoryOutputs
  BY <1>2, <1>10, CountTail, TailPlaces
<1>11. ASSUME NEW e \in OutEvents, rr_output' = Append(rr_output, e)
       PROVE  /\ IRn = IR + (IF e \in IncomingRequests THEN 1 ELSE 0)
              /\ ORn = OR + (IF e \in OutResponses THEN 1 ELSE 0)
              /\ ASn = AS + (IF e \in AssignedIds THEN 1 ELSE 0)
  BY <1>2, <1>11, CountAppend
<1>12. ASSUME NEW e \in SwarmEvents, swarm_events' = Append(swarm_events, e)
       PROVE  /\ ARn = AR + (IF e \in Arrivals THEN 1 ELSE 0)
              /\ RTn = RT + (IF e \in Returns THEN 1 ELSE 0)
  BY <1>2, <1>12, CountAppend
<1>13. ASSUME NEW e \in MemoryInputs, dm_input' = Append(dm_input, e)
       PROVE  /\ MQn = MQ + (IF e \in MemoryRequests THEN 1 ELSE 0)
              /\ MPn = MP + (IF e \in MemoryResponses THEN 1 ELSE 0)
  BY <1>2, <1>13, CountAppend
<1>14. ASSUME NEW e \in MemoryOutputs, dm_output' = Append(dm_output, e)
       PROVE  MAn = MA + (IF e \in MemoryAnswers THEN 1 ELSE 0)
  BY <1>2, <1>14, CountAppend
<1>15. at = "network" => AS = 0
  BY CountEmpty DEF MatchedInv
<1>16. ASSUME MakeRequest
       PROVE  OBn = OB + 1 /\ last_id' = last_id + 1
  <2>1. outbound' = outbound \cup {last_id + 1} /\ last_id' = last_id + 1
    BY <1>16 DEF MakeRequest
  <2>2. last_id + 1 \notin outbound
    BY <1>1, <1>4
  <2> QED
    BY <1>4, <2>1, <2>2, FS_AddElement
<1>17. ASSUME NEW id \in outbound, outbound' = outbound \ {id}
       PROVE  OBn = OB - 1
  BY <1>4, <1>17, FS_RemoveElement
<1>18. ASSUME NEW id, failed' = failed \cup {id}
       PROVE  FAn = FA \/ FAn = FA + 1
  BY <1>4, <1>18, FS_AddElement
<1>19. ASSUME NEW r \in Requests, RemoteRequest(r)
       PROVE  INCn = INC + 1
  BY <1>1, <1>19, RemoteRequestArrives
<1> HIDE DEF AR, RT, IR, OR, AS, MQ, MP, MA, OB, FA, INC, ARn, RTn, IRn, ORn, ASn, MQn, MPn, MAn,
             OBn, FAn, INCn
<1>20. CASE UNCHANGED vars \/ Initialize \/ StartPoll \/ EndSection \/ Respond
            \/ \E r \in Requests : StoreShard(r)
  <2>1. UNCHANGED <<swarm_events, rr_output, dm_input, dm_output, outbound, last_id, incoming,
                    failed, passed, used>>
    BY <1>20 DEF vars, queues, libp2p, past, Initialize, StartPoll, EndSection, Respond, StoreShard
  <2> QED
    BY <1>5, <1>6, <2>1
<1>21. CASE PollMakeRequest
  <2>1. dm_output # <<>> /\ dm_output' = Tail(dm_output) /\ Head(dm_output) \notin MemoryAnswers
    BY <1>1, <1>21, PollMakeRequestSends
  <2>2. UNCHANGED <<swarm_events, rr_output, dm_input, outbound, last_id, incoming, failed,
                    passed, used>>
    BY <1>21 DEF PollMakeRequest, libp2p, past
  <2>3. MAn = MA
    BY <1>4, <1>10, <2>1
  <2> QED
    BY <1>5, <1>6, <2>2, <2>3
<1>22. CASE PollRespond
  <2>1. dm_output # <<>> /\ dm_output' = Tail(dm_output) /\ Head(dm_output) \in MemoryAnswers
    BY <1>1, <1>22, PollRespondSends
  <2>2. /\ UNCHANGED <<swarm_events, rr_output, dm_input, outbound, last_id, incoming, failed, used>>
        /\ passed' = passed + 1
    BY <1>22 DEF PollRespond, libp2p
  <2>3. MA = MAn + 1 /\ MAn \in Nat
    BY <1>10, <2>1
  <2> QED
    BY <1>4, <1>5, <1>6, <2>2, <2>3
<1>23. CASE PollAssignedRequestId
  <2>1. /\ rr_output # <<>> /\ rr_output' = Tail(rr_output)
        /\ UNCHANGED <<swarm_events, dm_input, dm_output, outbound, last_id, incoming, failed,
                       passed, used>>
        /\ Head(rr_output).type = "AssignedRequestId"
    BY <1>23 DEF PollAssignedRequestId, libp2p, past
  <2>2. Head(rr_output) \notin IncomingRequests /\ Head(rr_output) \notin OutResponses
    BY <1>7, <2>1, OutKinds
  <2>3. IR = IRn /\ OR = ORn /\ ASn <= AS /\ ASn \in Nat
    BY <1>4, <1>7, <2>1, <2>2
  <2> QED
    BY <1>4, <1>5, <1>6, <2>1, <2>3
<1>24. CASE PollResponse
  <2>1. /\ rr_output # <<>> /\ rr_output' = Tail(rr_output) /\ Head(rr_output).type = "Response"
        /\ UNCHANGED <<swarm_events, dm_output, outbound, last_id, incoming, failed, passed, used>>
    BY <1>24 DEF PollResponse, libp2p
  <2>2. /\ Head(rr_output) \in OutResponses /\ Head(rr_output) \notin IncomingRequests
        /\ Head(rr_output) \notin AssignedIds /\ Head(rr_output).id \in OutboundIds
    BY <1>7, <2>1, OutKinds
  <2>3. OR = ORn + 1 /\ IR = IRn /\ AS = ASn /\ ORn \in Nat
    BY <1>4, <1>7, <2>1, <2>2
  <2>4. PICK item : item = [type |-> "response", request |-> pending_response[Head(rr_output).id]]
    OBVIOUS
  <2>5. \/ dm_input' = dm_input
        \/ dm_input' = Append(dm_input, item) /\ pending_response[Head(rr_output).id] # NoRequest
    BY <1>24, <2>4 DEF PollResponse, SendDataMemory
  <2>6. ASSUME dm_input' = Append(dm_input, item), pending_response[Head(rr_output).id] # NoRequest
        PROVE  MQn = MQ /\ MPn = MP + 1
    <3>1. pending_response[Head(rr_output).id] \in Requests
      BY <1>1, <2>2, <2>6 DEF Typed
    <3>2. item \in MemoryInputs /\ item.type = "response"
      BY <2>4, <3>1 DEF MemoryInputs
    <3>3. item \in MemoryResponses /\ item \notin MemoryRequests
      BY <3>2, MemoryInKinds
    <3> QED
      BY <1>4, <1>13, <2>6, <3>2, <3>3
  <2>7. MQn = MQ /\ (MPn = MP \/ MPn = MP + 1)
    BY <1>6, <2>5, <2>6
  <2> QED
    BY <1>4, <1>5, <1>6, <2>1, <2>3, <2>7
<1>25. CASE PollIncomingRequest
  <2>1. /\ rr_output # <<>> /\ rr_output' = Tail(rr_output)
        /\ Head(rr_output) \in IncomingRequests /\ Head(rr_output) \notin OutResponses
        /\ Head(rr_output) \notin AssignedIds
    BY <1>1, <1>25, PollIncomingWaits
  <2>2. PICK item \in MemoryInputs :
          /\ item \in MemoryRequests /\ item \notin MemoryResponses
          /\ dm_input' = Append(dm_input, item) \/ dm_input' = dm_input
    BY <1>1, <1>25, PollIncomingWaits
  <2>3. UNCHANGED <<swarm_events, dm_output, outbound, last_id, incoming, failed, passed, used>>
    BY <1>25 DEF PollIncomingRequest, libp2p, past
  <2>4. OR = ORn /\ AS = ASn /\ IR = IRn + 1 /\ IRn \in Nat
    BY <1>4, <1>7, <2>1
  <2>5. (MQn = MQ \/ MQn = MQ + 1) /\ MPn = MP
    BY <1>4, <1>6, <1>13, <2>2
  <2> QED
    BY <1>4, <1>5, <1>6, <2>3, <2>4, <2>5
<1>26. CASE YieldMessage
  <2>1. PICK e \in SwarmEvents, item \in OutEvents :
           /\ swarm_events # <<>> /\ e = Head(swarm_events) /\ swarm_events' = Tail(swarm_events)
           /\ e.type = "request" =>
                /\ e \in Arrivals /\ e \notin Returns
                /\ item \in IncomingRequests /\ item \notin OutResponses /\ item \notin AssignedIds
           /\ e.type # "request" =>
                /\ e \in Returns /\ e \notin Arrivals
                /\ item \in OutResponses /\ item \notin IncomingRequests /\ item \notin AssignedIds
           /\ rr_output' = Append(rr_output, item) \/ rr_output' = rr_output
    BY <1>1, <1>26, YieldSends
  <2>2. /\ UNCHANGED <<dm_input, dm_output, outbound, last_id, incoming, failed, passed, used>>
        /\ at = "network"
    BY <1>26 DEF YieldMessage, past
  <2>3. ASn = 0 /\ AS = 0
    BY <1>4, <1>6, <1>11, <1>15, <2>1, <2>2
  <2>4. CASE e.type = "request"
    <3>1. AR = ARn + 1 /\ RT = RTn /\ ARn \in Nat
      BY <1>4, <1>8, <2>1, <2>4
    <3>2. (IRn = IR \/ IRn = IR + 1) /\ ORn = OR
      BY <1>4, <1>6, <1>11, <2>1, <2>4
    <3> QED
      BY <1>4, <1>5, <1>6, <2>2, <2>3, <3>1, <3>2
  <2>5. CASE e.type # "request"
    <3>1. RT = RTn + 1 /\ AR = ARn /\ RTn \in Nat
      BY <1>4, <1>8, <2>1, <2>5
    <3>2. IRn = IR /\ (ORn = OR \/ ORn = OR + 1)
      BY <1>4, <1>6, <1>11, <2>1, <2>5
    <3> QED
      BY <1>4, <1>5, <1>6, <2>2, <2>3, <3>1, <3>2
  <2> QED
    BY <2>4, <2>5
<1>27. CASE YieldFailure
  <2>1. /\ swarm_events # <<>> /\ swarm_events' = Tail(swarm_events) /\ at = "network"
        /\ Head(swarm_events).type = "failure" /\ failed' = failed \cup {Head(swarm_events).id}
        /\ UNCHANGED <<rr_output, dm_input, dm_output, outbound, last_id, incoming, passed, used>>
    BY <1>27 DEF YieldFailure, queues
  <2>2. Head(swarm_events) \in Returns /\ Head(swarm_events) \notin Arrivals
    BY <1>8, <2>1, SwarmKinds
  <2>3. RT = RTn + 1 /\ AR = ARn /\ RTn \in Nat
    BY <1>4, <1>8, <2>1, <2>2
  <2>4. (FAn = FA \/ FAn = FA + 1) /\ AS = 0
    BY <1>15, <1>18, <2>1
  <2>5. /\ IRn = IR /\ ORn = OR /\ ASn = AS /\ MQn = MQ /\ MPn = MP /\ MAn = MA /\ OBn = OB
        /\ INCn = INC /\ UNCHANGED <<passed, used, last_id>>
    BY <1>6, <2>1
  <2> QED
    BY <1>4, <1>5, <2>3, <2>4, <2>5
<1>28. CASE MakeRequest
  <2>1. PICK item \in OutEvents :
              /\ item \in AssignedIds /\ item \notin OutResponses /\ item \notin IncomingRequests
              /\ rr_output' = Append(rr_output, item) \/ rr_output' = rr_output
    BY <1>28, MakeRequestSends
  <2>2. UNCHANGED <<swarm_events, dm_input, dm_output, incoming, failed, passed, used>>
    BY <1>28 DEF MakeRequest, past
  <2>3. IRn = IR /\ ORn = OR /\ (ASn = AS \/ ASn = AS + 1)
    BY <1>4, <1>6, <1>11, <2>1
  <2> QED
    BY <1>4, <1>5, <1>6, <1>16, <1>28, <2>2, <2>3
<1>29. CASE HandleDataMemoryInput
  <2>1. /\ dm_input # <<>> /\ dm_input' = Tail(dm_input)
        /\ UNCHANGED <<swarm_events, rr_output, outbound, last_id, incoming, failed>>
    BY <1>29 DEF HandleDataMemoryInput, libp2p
  <2>2. PICK e \in MemoryInputs : e = Head(dm_input)
    BY <1>9, <2>1
  <2>3. PICK item : item = [type |-> "response", request |-> e.request, version |-> shard[e.request]]
    OBVIOUS
  <2>4. item \in MemoryOutputs /\ item \in MemoryAnswers
    <3>1. e.request \in Requests
      BY <2>2, MemoryInKinds
    <3>2. shard[e.request] \in Versions
      BY <1>1, <3>1 DEF Typed
    <3>3. item \in MemoryOutputs /\ item.type = "response"
      BY <2>3, <3>1, <3>2, Items
    <3> QED
      BY <3>3, MemoryOutKinds
  <2>5. \/ e.type = "request" /\ dm_output' = Append(dm_output, item) /\ UNCHANGED <<passed, used>>
        \/ e.type = "request" /\ passed' = passed + 1 /\ UNCHANGED <<dm_output, used>>
        \/ e.type = "response" /\ used' = used + 1 /\ UNCHANGED <<dm_output, passed>>
    BY <1>29, <2>2, <2>3 DEF HandleDataMemoryInput
  <2>6. CASE e.type = "request"
    <3>1. e \in MemoryRequests /\ e \notin MemoryResponses
      BY <2>2, <2>6, MemoryInKinds
    <3>2. MQ = MQn + 1 /\ MP = MPn /\ MQn \in Nat
      BY <1>4, <1>9, <2>1, <2>2, <3>1
    <3>3. /\ used' = used
          /\ \/ MAn = MA + 1 /\ passed' = passed
             \/ MAn = MA /\ passed' = passed + 1
      BY <1>6, <1>14, <2>4, <2>5, <2>6
    <3> QED
      BY <1>4, <1>5, <1>6, <2>1, <3>2, <3>3
  <2>7. CASE e.type = "response"
    <3>1. e \in MemoryResponses /\ e \notin MemoryRequests
      BY <2>2, <2>7, MemoryInKinds
    <3>2. MQ = MQn /\ MP = MPn + 1 /\ MPn \in Nat
      BY <1>4, <1>9, <2>1, <2>2, <3>1
    <3>3. used' = used + 1 /\ MAn = MA /\ passed' = passed
      BY <1>6, <2>5, <2>7
    <3> QED
      BY <1>4, <1>5, <1>6, <2>1, <3>2, <3>3
  <2> QED
    BY <2>5, <2>6, <2>7
<1>30. ASSUME NEW r \in Requests, AskForShard(r) PROVE Goal
  <2>1. PICK item : item = [type |-> "request", request |-> r]
    OBVIOUS
  <2>2. item \in MemoryOutputs /\ item.type = "request"
    BY <2>1 DEF MemoryOutputs
  <2>3. item \notin MemoryAnswers
    BY <2>2, MemoryOutKinds
  <2>4. /\ dm_output' = Append(dm_output, item)
        /\ UNCHANGED <<swarm_events, rr_output, dm_input, outbound, last_id, incoming, failed,
                       passed, used>>
    BY <1>30, <2>1 DEF AskForShard, libp2p, past
  <2>5. MAn = MA
    BY <1>4, <1>14, <2>2, <2>3, <2>4
  <2> QED
    BY <1>5, <1>6, <2>4, <2>5
<1>31. ASSUME NEW r \in Requests, RemoteRequest(r) PROVE Goal
  <2>1. PICK item \in SwarmEvents :
              /\ item \in Arrivals /\ item \notin Returns
              /\ swarm_events' = Append(swarm_events, item)
    BY <1>1, <1>31, RemoteRequestArrives
  <2>2. UNCHANGED <<rr_output, dm_input, dm_output, outbound, last_id, failed, passed, used>>
    BY <1>31 DEF RemoteRequest, queues
  <2>3. ARn = AR + 1 /\ RTn = RT /\ INCn = INC + 1
    BY <1>4, <1>12, <1>19, <1>31, <2>1
  <2> QED
    BY <1>4, <1>5, <1>6, <2>2, <2>3
<1>32. ASSUME NEW id \in outbound, NEW type \in {"response", "failure"}, RemoteResponse(id, type)
       PROVE  Goal
  <2>1. PICK item : item = [type |-> type, id |-> id]
    OBVIOUS
  <2>2. item \in SwarmEvents /\ item.type # "request"
    BY <1>1, <2>1 DEF Typed, SwarmEvents
  <2>3. item \notin Arrivals /\ item \in Returns
    BY <2>2, SwarmKinds
  <2>4. /\ swarm_events' = Append(swarm_events, item) /\ outbound' = outbound \ {id}
        /\ UNCHANGED <<rr_output, dm_input, dm_output, last_id, incoming, failed, passed, used>>
    BY <1>32, <2>1 DEF RemoteResponse, queues, past
  <2>5. RTn = RT + 1 /\ ARn = AR /\ OBn = OB - 1
    BY <1>4, <1>12, <1>17, <2>2, <2>3, <2>4
  <2> QED
    BY <1>4, <1>5, <1>6, <2>4, <2>5
<1> QED
  BY <1>20, <1>21, <1>22, <1>23, <1>24, <1>25, <1>26, <1>27, <1>28, <1>29, <1>30, <1>31, <1>32
     DEF Next, MainTask

(* However requests of this node, of other peers and their responses       *)
(* interleave, and however many there were before, the main task waits for *)
(* a channel only it empties, or stops for a full one, only when more      *)
(* requests are under way than a channel holds.                            *)
THEOREM GivesUpOverloaded == Spec => GivesUpOnlyOverloaded
<1> DEFINE Inv == TypeInv /\ MatchedInv /\ AskedInv /\ FreshInv /\ PlacedInv /\ LoadInv
<1>1. Init => Inv
  BY TypeInit, MatchedInit, FreshInit, PlacedInit, LoadInit
<1>2. Inv /\ [Next]_vars => Inv'
  <2> SUFFICES ASSUME Inv, [Next]_vars PROVE Inv'
    OBVIOUS
  <2>1. TypeInv'
    BY TypeNext
  <2>2. MatchedInv' /\ AskedInv' /\ FreshInv' /\ PlacedInv'
    BY MatchedNext, FreshNext, PlacedNext
  <2>3. LoadInv'
    BY LoadNext
  <2> QED
    BY <2>1, <2>2, <2>3
<1>3. Inv /\ [Next]_vars => [~ GivenUp /\ GivenUp' => UnderWay > Capacity]_vars
  BY GivesUpStep
<1> QED
  BY <1>1, <1>2, <1>3, PTL DEF Spec, GivesUpOnlyOverloaded

-----------------------------------------------------------------------------
(* Nobody is left in an entry of processed_requests.                       *)

(* Initially nobody waits. *)
LEMMA ServedInit == Init => ServedInv
<1> SUFFICES ASSUME Init PROVE ServedInv
  OBVIOUS
<1>1. 1 .. Len(<<>>) = {}
  OBVIOUS
<1>2. \A r \in Requests : processed_requests[r] = <<>>
  BY DEF Init
<1>3. \A r \in Requests : WaitingFor(r) = {}
  BY <1>1, <1>2 DEF WaitingFor
<1> QED
  BY <1>1, <1>3 DEF Init, ServedInv

(* What a step without new questions must show: whoever still waits has an *)
(* answer on its way if there was one before.                              *)
LEMMA ServedKept ==
  ASSUME ServedInv, incoming' = incoming, initialized => initialized', GivenUp => GivenUp',
         \A r \in Requests : WaitingFor(r)' \subseteq WaitingFor(r),
         \A r \in Requests : WaitingFor(r)' # {} /\ (Asked(r) \/ Answerable(r))
                               => Asked(r)' \/ Answerable(r)'
  PROVE  ServedInv'
BY DEF ServedInv

(* A request to the data memory stays, and so does an answer of it, while  *)
(* nothing is taken from the channel.                                      *)
LEMMA AskedKept ==
  ASSUME Typed, NEW r \in Requests
  PROVE  /\ dm_input' = dm_input => (Asked(r) => Asked(r)')
         /\ \A e \in MemoryInputs : dm_input' = Append(dm_input, e) =>
              /\ Asked(r) => Asked(r)'
              /\ e \in MemoryRequests /\ e.request = r => Asked(r)'
         /\ dm_input # <<>> /\ dm_input' = Tail(dm_input) /\ Asked(r) =>
              Asked(r)' \/ (Head(dm_input) \in MemoryRequests /\ Head(dm_input).request = r)
<1>1. dm_input \in Seq(MemoryInputs)
  BY Channels
<1>2. dm_input' = dm_input => (Asked(r) => Asked(r)')
  BY DEF Asked
<1>3. ASSUME NEW e \in MemoryInputs, dm_input' = Append(dm_input, e)
      PROVE  /\ Asked(r) => Asked(r)'
             /\ e \in MemoryRequests /\ e.request = r => Asked(r)'
  <2>1. Content(dm_input', MemoryRequests)
          = Content(dm_input, MemoryRequests) \cup (IF e \in MemoryRequests THEN {e} ELSE {})
    BY <1>1, <1>3, ContentAppend
  <2> QED
    BY <2>1 DEF Asked
<1>4. ASSUME dm_input # <<>>, dm_input' = Tail(dm_input), Asked(r)
      PROVE  Asked(r)' \/ (Head(dm_input) \in MemoryRequests /\ Head(dm_input).request = r)
  <2>1. PICK e \in Content(dm_input, MemoryRequests) : e.request = r
    BY <1>4 DEF Asked
  <2>2. e \in MemoryRequests
    BY ContentKind
  <2>3. e = Head(dm_input) \/ e \in Content(dm_input', MemoryRequests)
    BY <1>1, <1>4, ContentLeft
  <2> QED
    BY <2>1, <2>2, <2>3 DEF Asked
<1> QED
  BY <1>2, <1>3, <1>4

(* The same of data_memory.output. *)
LEMMA AnswerableKept ==
  ASSUME Typed, NEW r \in Requests
  PROVE  /\ dm_output' = dm_output => (Answerable(r) => Answerable(r)')
         /\ \A e \in MemoryOutputs : dm_output' = Append(dm_output, e) =>
              /\ Answerable(r) => Answerable(r)'
              /\ e \in MemoryAnswers /\ e.request = r => Answerable(r)'
         /\ dm_output # <<>> /\ dm_output' = Tail(dm_output) /\ Answerable(r) =>
              Answerable(r)' \/ (Head(dm_output) \in MemoryAnswers /\ Head(dm_output).request = r)
<1>1. dm_output \in Seq(MemoryOutputs)
  BY Channels
<1>2. dm_output' = dm_output => (Answerable(r) => Answerable(r)')
  BY DEF Answerable
<1>3. ASSUME NEW e \in MemoryOutputs, dm_output' = Append(dm_output, e)
      PROVE  /\ Answerable(r) => Answerable(r)'
             /\ e \in MemoryAnswers /\ e.request = r => Answerable(r)'
  <2>1. Content(dm_output', MemoryAnswers)
          = Content(dm_output, MemoryAnswers) \cup (IF e \in MemoryAnswers THEN {e} ELSE {})
    BY <1>1, <1>3, ContentAppend
  <2> QED
    BY <2>1 DEF Answerable
<1>4. ASSUME dm_output # <<>>, dm_output' = Tail(dm_output), Answerable(r)
      PROVE  Answerable(r)' \/ (Head(dm_output) \in MemoryAnswers /\ Head(dm_output).request = r)
  <2>1. PICK e \in Content(dm_output, MemoryAnswers) : e.request = r
    BY <1>4 DEF Answerable
  <2>2. e \in MemoryAnswers
    BY ContentKind
  <2>3. e = Head(dm_output) \/ e \in Content(dm_output', MemoryAnswers)
    BY <1>1, <1>4, ContentLeft
  <2> QED
    BY <2>1, <2>2, <2>3 DEF Answerable
<1> QED
  BY <1>2, <1>3, <1>4

(* A request that is taken from data_memory.input is answered, and the     *)
(* answer takes everybody who waits.                                       *)
LEMMA ServedNext == TypeInv /\ AskedInv /\ FreshInv /\ ServedInv /\ [Next]_vars => ServedInv'
<1> SUFFICES ASSUME TypeInv, AskedInv, FreshInv, ServedInv, [Next]_vars PROVE ServedInv'
  OBVIOUS
<1>1. Typed
  BY TypedIsTypeOK DEF TypeInv
<1>2. CASE UNCHANGED vars \/ StartPoll \/ EndSection \/ PollAssignedRequestId \/ YieldMessage
           \/ YieldFailure \/ MakeRequest \/ Respond \/ Initialize
           \/ (\E r \in Requests : StoreShard(r))
           \/ \E id \in outbound, type \in {"response", "failure"} : RemoteResponse(id, type)
  <2>1. UNCHANGED <<dm_input, dm_output, processed_requests, incoming>>
    BY <1>2 DEF vars, queues, maps, past, StartPoll, EndSection, PollAssignedRequestId, YieldMessage,
                YieldFailure, MakeRequest, Respond, Initialize, StoreShard, RemoteResponse
  <2>2. initialized => initialized'
    BY <1>2 DEF vars, memory, StartPoll, EndSection, PollAssignedRequestId, YieldMessage,
                YieldFailure, MakeRequest, Respond, Initialize, StoreShard, RemoteResponse
  <2>3. GivenUp => GivenUp'
    BY <1>2 DEF vars, GivenUp, StartPoll, EndSection, PollAssignedRequestId, YieldMessage,
                YieldFailure, MakeRequest, Respond, Initialize, StoreShard, RemoteResponse
  <2>4. \A r \in Requests : WaitingFor(r)' \subseteq WaitingFor(r)
    BY <2>1 DEF WaitingFor
  <2>5. \A r \in Requests : Asked(r) \/ Answerable(r) => Asked(r)' \/ Answerable(r)'
    BY <1>1, <2>1, AskedKept, AnswerableKept
  <2> QED
    BY <2>1, <2>2, <2>3, <2>4, <2>5, ServedKept
<1>3. CASE PollMakeRequest
  <2>1. dm_output # <<>> /\ dm_output' = Tail(dm_output) /\ Head(dm_output) \notin MemoryAnswers
    BY <1>1, <1>3, PollMakeRequestSends
  <2>2. UNCHANGED <<dm_input, processed_requests, incoming, initialized>> /\ at = "data_memory"
    BY <1>3 DEF PollMakeRequest, maps, memory, past
  <2>3. \A r \in Requests : WaitingFor(r)' \subseteq WaitingFor(r)
    BY <2>2 DEF WaitingFor
  <2>4. \A r \in Requests : Asked(r) \/ Answerable(r) => Asked(r)' \/ Answerable(r)'
    BY <1>1, <2>1, <2>2, AskedKept, AnswerableKept
  <2> QED
    BY <2>2, <2>3, <2>4, ServedKept DEF GivenUp
<1>4. CASE PollRespond
  <2>1. /\ dm_output # <<>> /\ dm_output' = Tail(dm_output)
        /\ UNCHANGED <<dm_input, incoming, initialized>> /\ at = "data_memory"
    BY <1>4 DEF PollRespond, memory
  <2>2. PICK r \in Requests : /\ r = Head(dm_output).request
                              /\ processed_requests' = [processed_requests EXCEPT ![r] = <<>>]
    BY <1>1, <1>4, PollRespondSends
  <2>3. \A x \in Requests : WaitingFor(x)' = IF x = r THEN {} ELSE WaitingFor(x)
    BY <1>1, <2>2, NobodyWaits
  <2>4. \A x \in Requests : WaitingFor(x)' # {} /\ (Asked(x) \/ Answerable(x))
                              => Asked(x)' \/ Answerable(x)'
    BY <1>1, <2>1, <2>2, <2>3, AskedKept, AnswerableKept
  <2>5. \A x \in Requests : WaitingFor(x)' \subseteq WaitingFor(x)
    BY <2>3
  <2> QED
    BY <2>1, <2>4, <2>5, ServedKept DEF GivenUp
<1>5. CASE PollResponse
  <2>1. /\ rr_output # <<>> /\ Head(rr_output).type = "Response" /\ at = "request_response"
        /\ UNCHANGED <<dm_output, processed_requests, incoming, initialized>>
    BY <1>5 DEF PollResponse, maps, memory
  <2>2. Head(rr_output).id \in OutboundIds
    BY <1>1, <2>1, Channels, TailPlaces, OutKinds
  <2>3. dm_input' = dm_input \/ \E e \in MemoryInputs : dm_input' = Append(dm_input, e)
    <3>1. PICK x : x = pending_response[Head(rr_output).id]
      OBVIOUS
    <3>2. x \in Requests \cup {NoRequest}
      BY <1>1, <2>2, <3>1 DEF Typed
    <3>3. x \in Requests => [type |-> "response", request |-> x] \in MemoryInputs
      BY DEF MemoryInputs
    <3>4. dm_input' = dm_input
          \/ (x # NoRequest /\ dm_input' = Append(dm_input, [type |-> "response", request |-> x]))
      BY <1>5, <3>1 DEF PollResponse, SendDataMemory
    <3> QED
      BY <3>2, <3>3, <3>4
  <2>4. \A r \in Requests : WaitingFor(r)' \subseteq WaitingFor(r)
    BY <2>1 DEF WaitingFor
  <2>5. \A r \in Requests : Asked(r) \/ Answerable(r) => Asked(r)' \/ Answerable(r)'
    BY <1>1, <2>1, <2>3, AskedKept, AnswerableKept
  <2> QED
    BY <2>1, <2>4, <2>5, ServedKept DEF GivenUp
<1>6. CASE PollIncomingRequest
  <2>1. PICK e \in OutEvents :
          /\ e.request \in Requests
          /\ \A r \in Requests :
               WaitingFor(r)' = WaitingFor(r) \cup (IF r = e.request THEN {e.id} ELSE {})
          /\ \E item \in MemoryInputs :
               /\ item \in MemoryRequests /\ item.request = e.request
               /\ \/ dm_input' = Append(dm_input, item)
                  \/ dm_input' = dm_input /\ at' = "stopped"
    BY <1>1, <1>6, PollIncomingWaits
  <2>2. UNCHANGED <<dm_output, incoming, initialized>> /\ at = "request_response"
    BY <1>6 DEF PollIncomingRequest, memory, past
  <2>3. CASE at' = "stopped"
    BY <2>2, <2>3 DEF ServedInv, GivenUp
  <2>4. CASE \E item \in MemoryInputs : /\ item \in MemoryRequests /\ item.request = e.request
                                        /\ dm_input' = Append(dm_input, item)
    <3>1. Asked(e.request)'
      BY <1>1, <2>1, <2>4, AskedKept
    <3>2. \A r \in Requests : (Asked(r) => Asked(r)') /\ (Answerable(r) => Answerable(r)')
      BY <1>1, <2>2, <2>4, AskedKept, AnswerableKept
    <3>3. ~ GivenUp
      BY <2>2 DEF GivenUp
    <3> QED
      BY <2>1, <2>2, <3>1, <3>2, <3>3 DEF ServedInv
  <2> QED
    BY <2>1, <2>3, <2>4
<1>7. CASE HandleDataMemoryInput
  <2>1. /\ dm_input # <<>> /\ dm_input' = Tail(dm_input)
        /\ UNCHANGED <<at, processed_requests, incoming, initialized>>
    BY <1>7 DEF HandleDataMemoryInput, maps, memory
  <2>2. PICK e \in MemoryInputs : e = Head(dm_input)
    BY <1>1, <2>1, Channels, TailPlaces
  <2>3. PICK item : item = [type |-> "response", request |-> e.request, version |-> shard[e.request]]
    OBVIOUS
  <2>4. item \in MemoryOutputs /\ item \in MemoryAnswers /\ item.request = e.request
    <3>1. e.request \in Requests
      BY <2>2, MemoryInKinds
    <3>2. shard[e.request] \in Versions
      BY <1>1, <3>1 DEF Typed
    <3>3. item \in MemoryOutputs /\ item.type = "response" /\ item.request = e.request
      BY <2>3, <3>1, <3>2, Items
    <3> QED
      BY <3>3, MemoryOutKinds
  <2>5. \/ dm_output' = Append(dm_output, item)
        \/ e.type = "request" /\ ~ initialized /\ dm_output' = dm_output
        \/ e.type = "response" /\ dm_output' = dm_output
    BY <1>7, <2>2, <2>3 DEF HandleDataMemoryInput
  <2>6. \A r \in Requests : WaitingFor(r)' \subseteq WaitingFor(r)
    BY <2>1 DEF WaitingFor
  <2>7. CASE dm_output' = Append(dm_output, item)
    <3>1. \A r \in Requests : Answerable(r) => Answerable(r)'
      BY <1>1, <2>4, <2>7, AnswerableKept
    <3>2. \A r \in Requests : e.request = r => Answerable(r)'
      BY <1>1, <2>4, <2>7, AnswerableKept
    <3>3. \A r \in Requests : Asked(r) => Asked(r)' \/ e.request = r
      BY <1>1, <2>1, <2>2, AskedKept
    <3>4. \A r \in Requests : Asked(r) \/ Answerable(r) => Asked(r)' \/ Answerable(r)'
      BY <3>1, <3>2, <3>3
    <3> QED
      BY <2>1, <2>6, <3>4, ServedKept DEF GivenUp
  <2>8. CASE ~ initialized
    <3>1. \A r \in Requests : \A id \in WaitingFor(r)' : id \in 1 .. Len(incoming)
      BY <2>6 DEF AskedInv
    <3>2. \A id \in 1 .. Len(incoming) : incoming[id].initialized => initialized
      BY DEF ServedInv
    <3> QED
      BY <2>1, <2>8, <3>1, <3>2 DEF ServedInv
  <2>9. CASE e.type = "response" /\ dm_output' = dm_output
    <3>1. e \notin MemoryRequests
      BY <2>2, <2>9, MemoryInKinds
    <3>2. \A r \in Requests : Asked(r) => Asked(r)'
      BY <1>1, <2>1, <2>2, <3>1, AskedKept
    <3>3. \A r \in Requests : Answerable(r) => Answerable(r)'
      BY <1>1, <2>9, AnswerableKept
    <3>4. \A r \in Requests : Asked(r) \/ Answerable(r) => Asked(r)' \/ Answerable(r)'
      BY <3>2, <3>3
    <3> QED
      BY <2>1, <2>6, <3>4, ServedKept DEF GivenUp
  <2> QED
    BY <2>5, <2>7, <2>8, <2>9
<1>8. ASSUME NEW r \in Requests, AskForShard(r) PROVE ServedInv'
  <2>1. PICK item : item = [type |-> "request", request |-> r]
    OBVIOUS
  <2>2. item \in MemoryOutputs
    BY <2>1 DEF MemoryOutputs
  <2>3. /\ dm_output' = Append(dm_output, item)
        /\ UNCHANGED <<at, dm_input, processed_requests, incoming, initialized>>
    BY <1>8, <2>1 DEF AskForShard, maps, past
  <2>4. \A x \in Requests : WaitingFor(x)' \subseteq WaitingFor(x)
    BY <2>3 DEF WaitingFor
  <2>5. \A x \in Requests : Asked(x) \/ Answerable(x) => Asked(x)' \/ Answerable(x)'
    BY <1>1, <2>2, <2>3, AskedKept, AnswerableKept
  <2> QED
    BY <2>3, <2>4, <2>5, ServedKept DEF GivenUp
<1>9. ASSUME NEW r \in Requests, RemoteRequest(r) PROVE ServedInv'
  <2>1. /\ Len(incoming) \in Nat /\ Len(incoming') = Len(incoming) + 1
        /\ \A id \in 1 .. Len(incoming) : incoming'[id] = incoming[id]
    BY <1>1, <1>9, RemoteRequestArrives, Channels
  <2>2. incoming'[Len(incoming) + 1].initialized = initialized
    <3>1. PICK question : question = [request |-> r, version |-> shard[r], initialized |-> initialized]
      OBVIOUS
    <3>2. question \in Questions
      BY <1>1, <3>1 DEF Typed, Questions
    <3>3. incoming \in Seq(Questions) /\ incoming' = Append(incoming, question)
      BY <1>1, <1>9, <3>1, Channels DEF RemoteRequest
    <3>4. incoming'[Len(incoming) + 1] = question
      BY <3>2, <3>3, AppendPlaces
    <3> QED
      BY <3>1, <3>4
  <2>3. UNCHANGED <<at, dm_input, dm_output, processed_requests, initialized>>
    BY <1>9 DEF RemoteRequest, queues, maps, memory
  <2>4. \A id \in 1 .. Len(incoming') : incoming'[id].initialized => initialized'
    <3> SUFFICES ASSUME NEW id \in 1 .. Len(incoming'), incoming'[id].initialized
                 PROVE  initialized
      BY <2>3
    <3>1. id \in 1 .. Len(incoming) \/ id = Len(incoming) + 1
      BY <2>1
    <3> QED
      BY <2>1, <2>2, <3>1 DEF ServedInv
  <2>5. \A x \in Requests : /\ WaitingFor(x)' = WaitingFor(x)
                            /\ \A id \in WaitingFor(x) : incoming'[id] = incoming[id]
    BY <2>1, <2>3 DEF WaitingFor, AskedInv
  <2>6. \A x \in Requests : Asked(x) \/ Answerable(x) => Asked(x)' \/ Answerable(x)'
    BY <1>1, <2>3, AskedKept, AnswerableKept
  <2>7. GivenUp' = GivenUp
    BY <2>3 DEF GivenUp
  <2> QED
    BY <2>4, <2>5, <2>6, <2>7 DEF ServedInv
<1> QED
  BY <1>2, <1>3, <1>4, <1>5, <1>6, <1>7, <1>8, <1>9 DEF Next, MainTask

(* However equal requests of other peers, their answers and those to       *)
(* others interleave: whoever is remembered as waiting by the behaviour,   *)
(* and asked when the data memory was initialized, has an answer coming.   *)
THEOREM WaitersServed == Spec => []WaitersAreServed
<1>1. TypeInv /\ ServedInv => WaitersAreServed
  <2> SUFFICES ASSUME TypeInv, ServedInv, ~ GivenUp,
                      NEW r \in Requests, NEW i \in 1 .. Len(processed_requests[r]),
                      incoming[processed_requests[r][i]].initialized
               PROVE  \/ \E j \in 1 .. Len(dm_input) :
                           dm_input[j] = [type |-> "request", request |-> r]
                      \/ \E j \in 1 .. Len(dm_output) : /\ dm_output[j].type = "response"
                                                        /\ dm_output[j].request = r
    BY DEF WaitersAreServed
  <2>1. dm_input \in Seq(MemoryInputs) /\ dm_output \in Seq(MemoryOutputs)
    BY TypedIsTypeOK, Channels DEF TypeInv
  <2>2. processed_requests[r][i] \in WaitingFor(r)
    BY DEF WaitingFor
  <2>3. CASE Asked(r)
    <3>1. PICK j \in Marked(dm_input, MemoryRequests) : dm_input[j].request = r
      BY <2>3 DEF Asked, Content
    <3>2. dm_input[j] \in MemoryRequests /\ j \in 1 .. Len(dm_input)
      BY DEF Marked
    <3>3. dm_input[j] = [type |-> "request", request |-> r]
      BY <3>1, <3>2 DEF MemoryRequests, Kind, MemoryInputs
    <3> QED
      BY <3>2, <3>3
  <2>4. CASE Answerable(r)
    <3>1. PICK j \in Marked(dm_output, MemoryAnswers) : dm_output[j].request = r
      BY <2>4 DEF Answerable, Content
    <3>2. dm_output[j] \in MemoryAnswers /\ j \in 1 .. Len(dm_output)
      BY DEF Marked
    <3>3. dm_output[j].type = "response"
      BY <3>2 DEF MemoryAnswers, Kind
    <3> QED
      BY <3>1, <3>2, <3>3
  <2> QED
    BY <2>2, <2>3, <2>4 DEF ServedInv
<1> QED
  BY <1>1, TypeInit, TypeNext, FreshInit, FreshNext, ServedInit, ServedNext, PTL DEF Spec

=============================================================================
