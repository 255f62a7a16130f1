----------------------------- MODULE ServiceCalls -----------------------------
(***************************************************************************)
(* Service calls end to end: a client session (ClientCalls) sends requests *)
(* over one connection of a transport (ServiceCodec); the server decodes   *)
(* and routes each (binary Runtime and ServiceDispatcher, the WebSocket    *)
(* server, ServerRuntime::Handle), puts it to the session, to its own      *)
(* services or to a callback of the application (ServiceHandler), and      *)
(* answers.  Callbacks answer whenever they like, and the session of the   *)
(* connection can be removed at any time.                                  *)
(*                                                                         *)
(* A call is sent, then waits for an answer ("asked", or "silent" when the *)
(* server will never answer it), is answered ("replied"), and is done.     *)
(* The client has no timeout of its own for a call.                        *)
(***************************************************************************)
EXTENDS ServiceCodec, ServiceHandler, ClientCalls, Messages, FiniteSets

CONSTANTS
  Calls,          \* concurrent calls of the client, each a name for its request handle
  Transports,     \* the transports to use, of "binary" and "websocket"
  Inputs,         \* per call, the calls it may make: api, service, input and trace context
  SessionIds,     \* the sequence of session ids handed out
  MaxReferences,  \* bound on the references of one browsed node
  MaxBrowses,     \* bound on the number of browses answered
  kMaxBrowseContinuationPoints

\* The ids of a W3C traceparent are hex digits; a browse has a bound, a UInt32.
HexDigits == 0 .. 15
IsTraceable(trace) ==
  trace # <<>> /\ IsW3CTraceParent(trace[1]) =>
    /\ trace[1].trace \in HexDigits \X HexDigits
    /\ trace[1].span \in HexDigits \X HexDigits
IsBounded(body) ==
  /\ "requested_max_references_per_node" \in DOMAIN body
  /\ body.requested_max_references_per_node \in Nat

ASSUME ServiceCallsAssumption ==
  /\ Transports \subseteq {"binary", "websocket"}
  /\ MaxReferences \in Nat /\ MaxBrowses \in Nat
  /\ kMaxBrowseContinuationPoints \in Nat \ {0}
  /\ SessionIds # <<>>
  /\ \A c \in Calls : \A in \in Inputs[c] :
       /\ IsTraceable(in.trace)
       /\ in.service = "Browse" => IsBounded(ClientRequest(in.api, in.input))

VARIABLES
  transport,
  calls,         \* per call: phase, what was asked of the server, and what came of it
  session,       \* index of the connection's session, which its token names
  attached,      \* whether that session still exists
  continuations, \* browse_continuations_ of the session: continuation id to references
  next_id,       \* next_browse_continuation_id_
  crashed,       \* the server used the memory of a removed session, and ended
  browsed,       \* ghost: per answered browse of this session, the references found
  handed         \* ghost: the references handed out, released or refused, in order

vars == <<transport, calls, session, attached, continuations, next_id, crashed, browsed, handed>>
store == <<continuations, next_id, browsed, handed>>

Idle == [phase |-> "idle", api |-> "", service |-> "", input |-> <<>>, trace |-> <<>>,
         wire |-> <<>>, session |-> 0, request |-> <<>>, question |-> <<>>,
         answer |-> <<>>, reply |-> <<>>, result |-> <<>>]

ConnectionToken == Token(SessionIds[session])

Init ==
  /\ transport \in Transports
  /\ calls = [c \in Calls |-> Idle]
  /\ session = 1 /\ attached = TRUE /\ crashed = FALSE
  /\ continuations = <<>> /\ next_id = 1
  /\ browsed = <<>> /\ handed = <<>>

(***************************************************************************)
(* The client sends.  The JSON peer writes its trace itself, either as a   *)
(* traceparent or only as a SpanContext.                                   *)
(***************************************************************************)
PeerParameters(trace) ==
  {[NoParameters EXCEPT !.traceparent = trace]}
    \cup IF trace = <<>> THEN {}
         ELSE {[NoParameters EXCEPT !.SpanContext =
                  Each(TraceParentToSpanContext(trace[1]),
                       LAMBDA s : ToJsonExtensionObject("SpanContextDataType", s))]}

EncodeRequest(c, in, trace) ==
  LET body == ClientRequest(in.api, in.input)
  IN  IF transport = "binary"
        THEN {EncodeServiceRequest(ConnectionToken, c, trace, in.service, body)}
        ELSE LET json == EncodeJsonRequest(c, in.service, body)
             IN  {IF "body" \in DOMAIN json THEN [json EXCEPT !.body.parameters = p] ELSE json :
                    p \in PeerParameters(trace)}

\* The session services name the session by the client's token.
Addressed(in) ==
  IF in.service \in {"ActivateSession", "CloseSession"}
    THEN [in EXCEPT !.input.authentication_token = ConnectionToken] ELSE in

\* A method of ClientSession hands its arguments and the trace on to the session
\* and, on Deliver, the result back; one that is not connected is Connect's
\* CallUnconnected.
Send(c) ==
  /\ calls[c].phase = "idle"
  /\ \E any \in Inputs[c] :
       LET in == Addressed(any) IN
       \E wire \in EncodeRequest(c, in, in.trace) :
         calls' = [calls EXCEPT ![c] =
           [Idle EXCEPT !.phase = "sent", !.api = in.api, !.service = in.service,
                        !.input = in.input, !.trace = in.trace, !.wire = wire]]
  /\ UNCHANGED <<transport, session, attached, crashed, store>>

(***************************************************************************)
(* The server reads a request and routes it.                               *)
(***************************************************************************)
DecodeRequest(wire) ==
  IF transport = "binary" THEN DecodeServiceRequest(wire) ELSE DecodeRequestMessage(wire)

EncodeResponse(handle, service, body) ==
  IF transport = "binary" THEN EncodeServiceResponse(handle, service, body)
  ELSE EncodeJsonResponse(handle, service, body)

Fault(code) == [status |-> Bad(code)]

\* A response of the service's own type that carries nothing but a status.
NoMessage == [sequence_number |-> 0, publish_time |-> "", notification_data |-> <<>>]
NoRevision == [revised_publishing_interval_ms |-> 0, revised_lifetime_count |-> 0,
               revised_max_keep_alive_count |-> 0]
BuildRuntimeErrorResponse(service, status) ==
  CASE service = "CreateSubscription" -> NoRevision @@ [status |-> status, subscription_id |-> 0]
    [] service = "ModifySubscription" -> NoRevision @@ [status |-> status]
    [] service \in {"CreateMonitoredItems", "ModifyMonitoredItems"} ->
         [status |-> status, results |-> <<>>]
    [] service = "Publish" ->
         [status |-> status, subscription_id |-> 0, results |-> <<>>, more_notifications |-> FALSE,
          notification_message |-> NoMessage, available_sequence_numbers |-> <<>>]
    [] service = "Republish" -> [status |-> status, notification_message |-> NoMessage]
    [] service = "CloseSession" -> [status |-> status]
    [] OTHER -> Refusal(status)

\* ServerRuntime answers the services of a session in their own type, and the
\* others with a fault, which the binary runtime turns into their own type too.
SessionMissingResponse(c, service) ==
  IF transport = "websocket" /\ service \in HandlerServices
    THEN EncodeResponse(c, "ServiceFault", Fault("Bad_SessionIdInvalid"))
    ELSE EncodeResponse(c, service, BuildRuntimeErrorResponse(service, Bad("Bad_SessionIdInvalid")))

Replied(c, reply) == calls' = [calls EXCEPT ![c].phase = "replied", ![c].reply = <<reply>>]

\* The dispatcher's fault names the request; the WebSocket server's does not.
ReceiveUndecodable(c) ==
  /\ DecodeRequest(calls[c].wire) = <<>>
  /\ Replied(c, IF transport = "binary"
                  THEN EncodeResponse(DecodeRequestHandle(calls[c].wire)[1], "ServiceFault",
                                      Fault("Bad_ServiceUnsupported"))
                  ELSE EncodeResponse("no handle", "ServiceFault", Fault("Bad_TypeMismatch")))
  /\ UNCHANGED store

\* Put to the application or to the server's own services; the trace goes with
\* the services whose callback takes the service context.
ContextServices ==
  {"Read", "Write", "Browse", "Call", "HistoryUpdate", "AddNodes", "DeleteNodes",
   "AddReferences", "DeleteReferences"}
Ask(c, d, question) ==
  calls' = [calls EXCEPT
    ![c].phase = "asked", ![c].session = session, ![c].request = <<d.body>>,
    ![c].question = <<[asked |-> question,
                       trace |-> IF d.service \in ContextServices THEN d.trace_parent ELSE <<>>]>>]

\* Discovery and session services need no attached session.
ReceiveSessionless(c, d) ==
  /\ d.service \in DiscoveryServices \cup SessionServices
  /\ UNCHANGED store
  /\ IF /\ transport = "binary" /\ d.service \in {"ActivateSession", "CloseSession"}
        /\ ~(attached /\ d.authentication_token = ConnectionToken)
       THEN IF d.service = "ActivateSession"
              THEN calls' = [calls EXCEPT ![c].phase = "silent"]
              ELSE Replied(c, EncodeResponse(c, d.service,
                     BuildRuntimeErrorResponse(d.service, Bad("Bad_SessionIdInvalid"))))
       ELSE Ask(c, d, d.body)

\* The binary runtime has no route for these two.
ReceiveUnrouted(c, d) ==
  /\ d.service \in {"RegisterNodes", "UnregisterNodes"}
  /\ calls' = [calls EXCEPT ![c].phase = "silent"]
  /\ UNCHANGED store

Authenticated(d) ==
  d.service \in Services \ (DiscoveryServices \cup SessionServices
                              \cup {"RegisterNodes", "UnregisterNodes"})

ReceiveWithoutSession(c, d) ==
  /\ Authenticated(d)
  /\ \/ ~attached
     \/ transport = "binary" /\ d.authentication_token # ConnectionToken
  /\ Replied(c, SessionMissingResponse(c, d.service))
  /\ UNCHANGED store

\* BrowseNext is the session's own: it hands out all that is left, or forgets it.
Resume(point, release) ==
  CASE point \notin DOMAIN continuations ->
         [status_code |-> Bad("Bad_ContinuationPointInvalid"), continuation_point |-> 0, references |-> <<>>]
    [] release -> [status_code |-> Good, continuation_point |-> 0, references |-> <<>>]
    [] OTHER   -> [status_code |-> Good, continuation_point |-> 0, references |-> continuations[point]]

\* Defect: a continuation point that was resumed can be resumed again.
EraseContinuationKept(point) == continuations

EraseContinuation(point) == [p \in DOMAIN continuations \ {point} |-> continuations[p]]

TargetsOf(references) == Each(references, LAMBDA r : r.node_id.id)

ReceiveBrowseNext(c, d) ==
  /\ Authenticated(d) /\ d.service = "BrowseNext" /\ attached
  /\ transport = "binary" => d.authentication_token = ConnectionToken
  /\ LET point == d.body.continuation_points[1]
         release == d.body.release_continuation_points
         result == Resume(point, release)
     IN  /\ Replied(c, EncodeResponse(c, "BrowseNext",
                                     [service_result |-> Good, results |-> <<result>>]))
         /\ continuations' = EraseContinuation(point)
         /\ handed' = handed \o TargetsOf(IF release /\ point \in DOMAIN continuations
                                           THEN continuations[point] ELSE result.references)
         /\ UNCHANGED <<next_id, browsed>>

\* The handler refuses, or asks; a raw read bounded by nothing fails for its node.
ReceiveAttached(c, d) ==
  /\ Authenticated(d) /\ d.service # "BrowseNext" /\ attached
  /\ transport = "binary" => d.authentication_token = ConnectionToken
  /\ UNCHANGED store
  /\ CASE d.service \notin HandlerServices -> Ask(c, d, d.body)
       [] d.service \in HandlerServices /\ Validate(d.service, d.body) # Accepted ->
            Replied(c, EncodeResponse(c, d.service, Refusal(Validate(d.service, d.body)[1])))
       [] OTHER ->
            IF d.service = "HistoryRead" /\ Unbounded(Handle(d.service, d.body))
              THEN Replied(c, EncodeResponse(c, d.service,
                     ToWireRawResponse(Failed(Bad("Bad_HistoryOperationInvalid")))))
              ELSE Ask(c, d, Handle(d.service, d.body))

Receive(c) ==
  /\ calls[c].phase = "sent" /\ ~crashed
  /\ \/ ReceiveUndecodable(c)
     \/ \E k \in DOMAIN DecodeRequest(calls[c].wire) :
          LET d == DecodeRequest(calls[c].wire)[k]
          IN  \/ ReceiveSessionless(c, d)
              \/ ReceiveUnrouted(c, d)
              \/ ReceiveWithoutSession(c, d)
              \/ ReceiveBrowseNext(c, d)
              \/ ReceiveAttached(c, d)
  /\ UNCHANGED <<transport, session, attached, crashed>>

(***************************************************************************)
(* Answers.  What a callback may answer is any StatusOr of its type; the   *)
(* server's own services answer any response of theirs.                    *)
(***************************************************************************)
OneOf(S) == {Failed(Refused)} \cup {Ok(<<v>>) : v \in S}
BrowseOutcomes ==
  {Failed(Refused)}
    \cup {Ok(<<[status_code |-> Good, continuation_point |-> 0,
                references |-> [i \in 1 .. n |-> ReferenceDescription(<<Len(browsed) + 1, i>>)]]>>) :
            n \in 0 .. MaxReferences}
MethodOutcomes == {Failed(Refused), Ok(<<<<"Int32", 7>>>>)}

\* ServerSession passes a request on to the subscription it names, which may not
\* be there; too many items are refused before that.
SubscriptionOutcomes(service, answers) ==
  answers \cup {BuildRuntimeErrorResponse(service, Bad("Bad_SubscriptionIdInvalid"))}
CreateMonitoredItemsOutcomes(question) ==
  IF Len(question.items_to_create) > operation_limits["max_monitored_items_per_call"]
    THEN {BuildRuntimeErrorResponse("CreateMonitoredItems", Bad("Bad_TooManyMonitoredItems"))}
    ELSE SubscriptionOutcomes("CreateMonitoredItems", CreateMonitoredItemsResponse)
StatusResults == {[service_result |-> Good, results |-> <<Good, Detailed>>]}

Outcomes(service, question) ==
  CASE service = "Read"                          -> OneOf(DataValue)
    [] service = "Browse"                        -> BrowseOutcomes
    [] service = "TranslateBrowsePathsToNodeIds" -> OneOf(BrowsePathResult)
    [] service = "Call"                          -> [DOMAIN question -> MethodOutcomes]
    [] service = "HistoryRead" ->
         {Failed(Refused)} \cup {Ok(r) : r \in IF question.kind = "raw" THEN HistoryReadRawResult
                                               ELSE HistoryReadEventsResult}
    [] service = "AddNodes"                      -> OneOf(AddNodesResult)
    [] service \in HandlerServices               -> OneOf({Good, CodeOf(Detailed)})
    [] service = "FindServers"                   -> FindServersResponse
    [] service = "GetEndpoints"                  -> GetEndpointsResponse
    [] service = "RegisterServer"                -> RegisterServerResponse
    [] service = "RegisterServer2"               -> RegisterServer2Response
    [] service = "CreateSession"                 -> CreateSessionResponse
    [] service = "ActivateSession"               -> ActivateSessionResponse
    [] service = "CloseSession"                  -> CloseSessionResponse
    [] service = "CreateSubscription"            -> CreateSubscriptionResponse
    [] service = "ModifySubscription"            -> SubscriptionOutcomes(service, ModifySubscriptionResponse)
    [] service = "CreateMonitoredItems"          -> CreateMonitoredItemsOutcomes(question)
    [] service = "ModifyMonitoredItems"          -> SubscriptionOutcomes(service, ModifyMonitoredItemsResponse)
    [] service = "Publish"                       -> PublishResponse
    [] service = "Republish"                     -> SubscriptionOutcomes(service, RepublishResponse)
    [] service \in {"DeleteMonitoredItems", "SetMonitoringMode"} ->
         SubscriptionOutcomes(service, StatusResults)
    [] OTHER -> StatusResults

Answered(c, answer, body) ==
  calls' = [calls EXCEPT ![c].phase = "replied", ![c].answer = <<answer>>,
                         ![c].reply = <<EncodeResponse(c, calls[c].service, body)>>]

Answer(c) ==
  /\ calls[c].phase = "asked" /\ calls[c].service # "Browse" /\ ~crashed
  /\ \E answer \in Outcomes(calls[c].service, calls[c].question[1].asked) :
       Answered(c, answer,
                IF calls[c].service \in HandlerServices
                  THEN RespondTo(calls[c].service, calls[c].request[1], answer) ELSE answer)
  /\ UNCHANGED <<transport, session, attached, crashed, store>>

(***************************************************************************)
(* Browse: the answer is cut into pages by the session found before the    *)
(* callback was asked.                                                     *)
(***************************************************************************)
Cut(result, max) ==
  [result EXCEPT !.references = SubSeq(@, 1, max), !.continuation_point = next_id]
Remaining(result, max) == SubSeq(result.references, max + 1, Len(result.references))
NoContinuationPoints ==
  [status_code |-> Bad("Bad_NoContinuationPoints"), continuation_point |-> 0, references |-> <<>>]

\* A page is cut when more was found than the client asked for.
TooLong(body, max) == body.results # <<>> /\ max > 0 /\ Len(body.results[1].references) > max

\* What is handed out is what the reply carries, or what a refusal drops.
MakeBrowseContinuationPoint == next_id' = next_id + 1

StoreBrowseResults(c, answer, body, max) ==
  CASE ~TooLong(body, max) ->
         /\ Answered(c, answer, body)
         /\ handed' = IF body.results = <<>> THEN handed
                      ELSE handed \o TargetsOf(body.results[1].references)
         /\ UNCHANGED <<continuations, next_id>>
    [] /\ TooLong(body, max)
       /\ Cardinality(DOMAIN continuations) >= kMaxBrowseContinuationPoints ->
         /\ Answered(c, answer, [body EXCEPT !.results = <<NoContinuationPoints>>])
         /\ handed' = handed \o TargetsOf(body.results[1].references)
         /\ UNCHANGED <<continuations, next_id>>
    [] OTHER ->
         LET result == body.results[1]
             page == Cut(result, max)
         IN  /\ Answered(c, answer, [body EXCEPT !.results = <<page>>])
             /\ continuations' = (next_id :> Remaining(result, max)) @@ continuations
             /\ MakeBrowseContinuationPoint
             /\ handed' = handed \o TargetsOf(page.references)

\* The session it was put to is still the connection's.
OfSession(c) == attached /\ calls[c].session = session

AnswerBrowse(c) ==
  /\ calls[c].phase = "asked" /\ calls[c].service = "Browse" /\ ~crashed
  /\ Len(browsed) < MaxBrowses
  /\ \E answer \in BrowseOutcomes :
       LET body == RespondTo("Browse", calls[c].request[1], answer)
       IN  /\ OfSession(c)
           /\ StoreBrowseResults(c, answer, body,
                                 calls[c].request[1].requested_max_references_per_node)
           /\ browsed' = Append(browsed, IF answer.value = <<>> THEN 0
                                         ELSE Len(answer.value[1][1].references))
  /\ UNCHANGED <<transport, session, attached, crashed>>

\* The session is gone: an answer that fits its page is returned untouched; one
\* that does not is cut with memory that was freed, which ends the server or
\* hands out a continuation point that nobody holds.
AnswerBrowseOfRemoved(c) ==
  /\ calls[c].phase = "asked" /\ calls[c].service = "Browse" /\ ~crashed
  /\ ~OfSession(c)
  /\ \E answer \in BrowseOutcomes :
       LET body == RespondTo("Browse", calls[c].request[1], answer)
           max == calls[c].request[1].requested_max_references_per_node
       IN  IF ~TooLong(body, max)
             THEN Answered(c, answer, body) /\ UNCHANGED crashed
             ELSE \/ crashed' = TRUE /\ UNCHANGED calls
                  \/ /\ Answered(c, answer, [body EXCEPT !.results = <<Cut(body.results[1], max)>>])
                     /\ UNCHANGED crashed
  /\ UNCHANGED <<transport, session, attached, store>>

(***************************************************************************)
(* The reply reaches the client, which finds its call by the handle.       *)
(***************************************************************************)
DecodeResponse(reply) ==
  IF transport = "binary" THEN <<DecodeServiceResponse(reply)>> ELSE DecodeResponseMessage(reply)

Deliver(c) ==
  /\ calls[c].phase = "replied"
  /\ \E k \in DOMAIN DecodeResponse(calls[c].reply[1]) :
       LET reply == DecodeResponse(calls[c].reply[1])[k]
       IN  calls' = [calls EXCEPT
             ![c].phase = IF reply.request_handle = c THEN "done" ELSE "silent",
             ![c].result = IF reply.request_handle = c
                             THEN <<CallTyped(calls[c].api, calls[c].service, reply)>> ELSE <<>>]
  /\ UNCHANGED <<transport, session, attached, crashed, store>>

\* The caller goes on with the result.
Finish(c) ==
  /\ calls[c].phase = "done"
  /\ calls' = [calls EXCEPT ![c] = Idle]
  /\ UNCHANGED <<transport, session, attached, crashed, store>>

(***************************************************************************)
(* The session is closed elsewhere or expires; the client creates another, *)
(* after what it sent on the connection before has been read.              *)
(***************************************************************************)
RemoveSession ==
  /\ attached /\ attached' = FALSE
  /\ continuations' = <<>> /\ browsed' = <<>> /\ handed' = <<>>
  /\ UNCHANGED <<transport, calls, session, next_id, crashed>>

NewSession ==
  /\ ~attached /\ ~crashed /\ session < Len(SessionIds)
  /\ \A c \in Calls : calls[c].phase # "sent"
  /\ session' = session + 1 /\ attached' = TRUE
  /\ next_id' = 1
  /\ UNCHANGED <<transport, calls, continuations, crashed, browsed, handed>>

Next ==
  \/ \E c \in Calls : Send(c) \/ Receive(c) \/ Answer(c) \/ AnswerBrowse(c)
                        \/ AnswerBrowseOfRemoved(c) \/ Deliver(c) \/ Finish(c)
  \/ RemoveSession \/ NewSession

Fairness ==
  \A c \in Calls : WF_vars(Receive(c)) /\ WF_vars(Answer(c)) /\ WF_vars(Deliver(c))

Spec == Init /\ [][Next]_vars
FairSpec == Spec /\ Fairness

(***************************************************************************)
(* Properties                                                              *)
(***************************************************************************)
Asked(c) == calls[c].question # <<>>
Typed(c) == calls[c].api \in DOMAIN ServiceOf

\* What is known to be lost on the way: a severity above 16 bits, a source name that
\* is not given, the attributes of nodes without a value, the count and the origin
\* of an aggregate, the parts of an event filter that are left to their defaults, the
\* publishing flag of a modification, an unknown url, the flags of a write, and of the
\* session services the session id, delete_existing and a password already encrypted.
CarriedEvent(e) ==
  [e EXCEPT !.severity = @ % 2^16,
            !.source_name = IF @ = "" THEN Text(e.source_node_id) ELSE @]
CarriedBlob(b) ==
  Object((IF b = <<"null">> THEN BuildEventFilter(<<>>)[2] ELSE b[2]) @@ NoWhere)
CarriedFilter(i) ==
  [i EXCEPT !.requested_parameters.filter =
     Each(@, LAMBDA f : IF f[1] = "Event" THEN <<"Event", CarriedBlob(f[2])>> ELSE f)]
CarriedItem(i) ==
  IF i.node_class = "Variable" THEN i
  ELSE [i EXCEPT !.attributes.data_type = "", !.attributes.value = <<>>]
CarriedCredentials(in) ==
  [in EXCEPT !.session_id = "", !.delete_existing = FALSE,
             !.encrypted_password = "", !.password_encryption_algorithm = "",
             !.password = IF @ = <<>> /\ ~in.allow_anonymous THEN <<"">> ELSE @]
Meant(c) ==
  LET in == calls[c].input
  IN  CASE calls[c].api = "Call" -> <<in>>
        [] calls[c].api = "Write" -> Each(in, LAMBDA v : [v EXCEPT !.flags = {}])
        [] calls[c].api = "ActivateSession" -> CarriedCredentials(in)
        [] calls[c].api = "CloseSession" -> [in EXCEPT !.session_id = ""]
        [] calls[c].api = "AddNodes" -> Each(in, CarriedItem)
        [] calls[c].api = "HistoryReadRaw" ->
             IF in.aggregation.interval = 0 THEN in
             ELSE [in EXCEPT !.max_count = 0, !.aggregation.start_time = in.from]
        [] calls[c].api = "HistoryUpdateEvent" -> [in EXCEPT !.events = Each(@, CarriedEvent)]
        [] calls[c].api = "ModifySubscription" -> [in EXCEPT !.parameters.publishing_enabled = TRUE]
        [] calls[c].api = "CreateMonitoredItems" ->
             [in EXCEPT !.items_to_create = Each(@, CarriedFilter)]
        [] calls[c].api = "CreateSession" ->
             [in EXCEPT !.endpoint_url = IF @ = "" THEN "opc.tcp://localhost:4840" ELSE @]
        [] OTHER -> in

\* What reaches a callback or a service of the server is what the caller meant:
\* no member of any request is dropped, swapped or misread on the way through
\* the client API, either codec and the handler, but for the losses named above.
RequestIsHeard ==
  \A c \in Calls :
    Asked(c) /\ (Typed(c) \/ calls[c].service \notin HandlerServices)
      => calls[c].question[1].asked = Meant(c)

\* What the caller of a typed call, or of a service of the server, is told.
Told(c) ==
  LET answer == calls[c].answer[1]
  IN  CASE calls[c].api = "Call" ->
             Ok([status |-> answer[1].status, input_argument_results |-> <<>>,
                 output_arguments |-> ValueOrNothing(answer[1])])
        [] calls[c].api = "HistoryReadEvents" /\ answer.value # <<>> ->
             Ok([events |-> Each(answer.value[1].events, CarriedEvent)])
        [] Typed(c) -> answer
        [] OTHER -> Ok(answer)

\* No false success and no lost answer: the result of a call is the answer that
\* was given to it, whichever transport carried it and whatever else happened on
\* the connection, and a call that was never put to anyone has failed.
AnswerIsFaithful ==
  \A c \in Calls : calls[c].phase = "done" /\ calls[c].service # "BrowseNext" =>
    /\ (Typed(c) \/ calls[c].service \notin HandlerServices) /\ calls[c].answer # <<>>
         => calls[c].result[1] = Told(c)
    /\ calls[c].answer = <<>> =>
         LET r == calls[c].result[1]
         IN  \/ IsBad(r.status)
             \/ "service_result" \in DOMAIN r.value[1] /\ IsBad(r.value[1].service_result)
             \/ "status" \in DOMAIN r.value[1] /\ IsBad(r.value[1].status)
             \/ calls[c].service = "HistoryRead" /\ IsBad(r.value[1].results[1].status_code)

\* The references found, the ones handed out, released or refused, and those held.
Found == {t \in (DOMAIN browsed) \X (1 .. MaxReferences) : t[2] <= browsed[t[1]]}
Given == {handed[k] : k \in DOMAIN handed}
TargetSet(references) == {references[k].node_id.id : k \in DOMAIN references}
Held == UNION {TargetSet(continuations[p]) : p \in DOMAIN continuations}

\* Paging neither loses nor repeats a reference, however browses, continuations
\* and releases of one session interleave: each reference found is handed out,
\* released or refused once, or is still held for the client.
PagesAddUp ==
  /\ \A j, k \in DOMAIN handed : handed[j] = handed[k] => j = k
  /\ Given \cap Held = {}
  /\ Given \cup Held = Found

\* A callback runs in the trace of its caller: the same trace and span, and with
\* the caller's sampling decision wherever the caller sent its traceparent.
TraceIsContinued ==
  \A c \in Calls : Asked(c) /\ calls[c].service \in ContextServices =>
    LET seen == calls[c].question[1].trace
        sent == calls[c].wire.body.parameters
    IN  \/ seen = calls[c].trace
        \/ /\ sent.traceparent = <<>>
           /\ IF sent.SpanContext = <<>> THEN seen = <<>>
              ELSE /\ seen # <<>>
                   /\ seen[1].trace = calls[c].trace[1].trace
                   /\ seen[1].span = calls[c].trace[1].span

\* message.h and message_codec.cpp say that RegisterNodes and UnregisterNodes are
\* served over UA Binary: a request for them is answered.
RegistrationIsAnswered ==
  \A c \in Calls :
    calls[c].phase = "sent" /\ calls[c].service \in {"RegisterNodes", "UnregisterNodes"}
      ~> calls[c].phase = "done"
================================================================================
