-------------------------- MODULE ServiceCallsProofs --------------------------
(***************************************************************************)
(* What holds of service calls for any calls, transports, inputs, sessions *)
(* and bounds: the trace of a caller is continued by the callback, and the *)
(* pages of browses add up.                                                *)
(***************************************************************************)
EXTENDS ServiceCalls, SequenceTheorems, TLAPS

(***************************************************************************)
(* The trace: what a header's parameters can be for a trace, and what the  *)
(* server makes of them.                                                   *)
(***************************************************************************)
SpanOnly(trace) ==
  [traceparent |-> <<>>,
   SpanContext |-> Each(TraceParentToSpanContext(trace[1]),
                        LAMBDA s : ToJsonExtensionObject("SpanContextDataType", s))]
TextOnly(trace) == [traceparent |-> trace, SpanContext |-> <<>>]
TextAndSpan(trace) ==
  [traceparent |-> trace,
   SpanContext |-> IF trace = <<>> THEN <<>>
                   ELSE Each(TraceParentToSpanContext(trace[1]),
                             LAMBDA c : ToExtensionObject("SpanContextDataType", c))]
SentParameters(trace) ==
  {TextOnly(trace), TextAndSpan(trace)} \cup (IF trace = <<>> THEN {} ELSE {SpanOnly(trace)})

Continues(seen, trace, sent) ==
  \/ seen = trace
  \/ /\ sent.traceparent = <<>>
     /\ IF sent.SpanContext = <<>> THEN seen = <<>>
        ELSE /\ seen # <<>>
             /\ seen[1].trace = trace[1].trace
             /\ seen[1].span = trace[1].span

\* The ids of a traceparent survive the way through a Guid and a number.
LEMMA IdsSurvive ==
  ASSUME NEW hex \in HexDigits \X HexDigits
  PROVE  /\ ToTraceIdHex(ToGuidText(hex)) = hex
         /\ FormatSpanId(ParseSpanId(hex)) = hex
<1>1. hex = <<hex[1], hex[2]>> /\ hex[1] \in 0 .. 15 /\ hex[2] \in 0 .. 15
  BY DEF HexDigits
<1>2. ToTraceIdHex(ToGuidText(hex)) = <<hex[1], hex[2]>>
  <2>1. ToGuidText(hex)[1] = <<hex[1]>> /\ ToGuidText(hex)[2] = <<hex[2]>>
    BY DEF ToGuidText
  <2>2. \A x, y \in Int : <<x>> \o <<y>> = <<x, y>>
    <3> TAKE x, y \in Int
    <3>1. <<x>> \in Seq(Int) /\ <<y>> \in Seq(Int) /\ Len(<<x>>) = 1 /\ Len(<<y>>) = 1
      OBVIOUS
    <3>2. <<x>> \o <<y>> \in Seq(Int) /\ Len(<<x>> \o <<y>>) = 2
      BY <3>1
    <3>3. (<<x>> \o <<y>>)[1] = x /\ (<<x>> \o <<y>>)[2] = y
      BY <3>1
    <3>4. <<x, y>> \in Seq(Int) /\ Len(<<x, y>>) = 2 /\ <<x, y>>[1] = x /\ <<x, y>>[2] = y
      OBVIOUS
    <3>5. \A i \in 1 .. 2 : i = 1 \/ i = 2
      OBVIOUS
    <3> QED
      BY <3>2, <3>3, <3>4, <3>5, SeqEqual
  <2> QED
    BY <1>1, <2>1, <2>2 DEF ToTraceIdHex
<1>3. ParseSpanId(hex) \in Nat /\ ParseSpanId(hex) \div 16 = hex[1] /\ ParseSpanId(hex) % 16 = hex[2]
  BY <1>1 DEF ParseSpanId
<1>4. hex[1] % 16 = hex[1]
  BY <1>1
<1>5. FormatSpanId(ParseSpanId(hex)) = <<hex[1], hex[2]>>
  BY <1>3, <1>4 DEF FormatSpanId
<1> QED
  BY <1>1, <1>2, <1>5

\* Whichever of the three forms the parameters take, the server continues the trace.
LEMMA TraceSurvives ==
  ASSUME NEW trace, IsTraceable(trace), NEW p \in SentParameters(trace)
  PROVE  Continues(GetTraceParent(p), trace, p)
<1>1. CASE p = TextOnly(trace)
  <2>1. GetSpanContextTraceParent(p) = <<>>
    BY <1>1 DEF TextOnly, GetSpanContextTraceParent
  <2> QED
    BY <1>1, <2>1 DEF TextOnly, GetTraceParent, Continues
<1>2. CASE p = TextAndSpan(trace)
  <2>1. trace # <<>> /\ ~IsW3CTraceParent(trace[1]) => p.SpanContext = <<>>
    BY <1>2 DEF TextAndSpan, TraceParentToSpanContext, Each
  <2>2. trace = <<>> => p.SpanContext = <<>>
    BY <1>2 DEF TextAndSpan
  <2>3. p.traceparent = trace
    BY <1>2 DEF TextAndSpan
  <2>4. p.SpanContext = <<>> => GetSpanContextTraceParent(p) = <<>>
    BY DEF GetSpanContextTraceParent
  <2> QED
    BY <2>1, <2>2, <2>3, <2>4 DEF GetTraceParent, Continues
<1>3. CASE trace # <<>> /\ p = SpanOnly(trace)
  <2>1. p.traceparent = <<>>
    BY <1>3 DEF SpanOnly
  <2>2. GetTraceParent(p) = GetSpanContextTraceParent(p)
    BY <2>1 DEF GetTraceParent
  <2>3. CASE TraceParentToSpanContext(trace[1]) = <<>>
    <3>1. p.SpanContext = <<>>
      BY <1>3, <2>3 DEF SpanOnly, Each
    <3> QED
      BY <2>1, <2>2, <3>1 DEF GetSpanContextTraceParent, Continues
  <2>4. CASE TraceParentToSpanContext(trace[1]) # <<>>
    <3> DEFINE context == [trace_id |-> ToGuidText(trace[1].trace), span_id |-> ParseSpanId(trace[1].span)]
    <3>1. /\ IsW3CTraceParent(trace[1])
          /\ ToGuidText(trace[1].trace) # NullGuid /\ ParseSpanId(trace[1].span) # 0
          /\ TraceParentToSpanContext(trace[1]) = <<context>>
      BY <2>4 DEF TraceParentToSpanContext
    <3>2. p.SpanContext = <<ToJsonExtensionObject("SpanContextDataType", context)>>
      BY <1>3, <3>1 DEF SpanOnly, Each
    <3>3. FromAnyExtensionObject(p.SpanContext[1], "SpanContextDataType") = <<context>>
      <4> DEFINE x == ToJsonExtensionObject("SpanContextDataType", context)
      <4>1. FromExtensionObject(x, "SpanContextDataType") = <<>>
        BY DEF FromExtensionObject, ToJsonExtensionObject
      <4>2. FromJsonExtensionObject(x, "SpanContextDataType") = <<context>>
        BY DEF FromJsonExtensionObject, ToJsonExtensionObject
      <4> HIDE DEF context
      <4>3. <<>> \o <<context>> = <<context>>
        <5>1. <<context>> \in Seq({context}) /\ <<>> \in Seq({context})
          OBVIOUS
        <5> QED
          BY <5>1
      <4>4. p.SpanContext[1] = x
        BY <3>2
      <4> QED
        BY <4>1, <4>2, <4>3, <4>4 DEF FromAnyExtensionObject
    <3>4. GetSpanContextTraceParent(p) = SpanContextToTraceParent(context)
      BY <3>2, <3>3 DEF GetSpanContextTraceParent
    <3>5. SpanContextToTraceParent(context) =
            <<[form |-> "w3c", trace |-> ToTraceIdHex(ToGuidText(trace[1].trace)),
               span |-> FormatSpanId(ParseSpanId(trace[1].span)), sampled |-> TRUE]>>
      BY <3>1 DEF SpanContextToTraceParent
    <3>6. /\ ToTraceIdHex(ToGuidText(trace[1].trace)) = trace[1].trace
          /\ FormatSpanId(ParseSpanId(trace[1].span)) = trace[1].span
      BY <1>3, <3>1, IdsSurvive DEF IsTraceable
    <3> QED
      BY <2>1, <2>2, <3>2, <3>4, <3>5, <3>6 DEF Continues
  <2> QED
    BY <2>3, <2>4
<1> QED
  BY <1>1, <1>2, <1>3 DEF SentParameters

(***************************************************************************)
(* The wire: what a request that was encoded carries, and what is decoded  *)
(* from it.                                                                *)
(***************************************************************************)
Carries(wire, service, trace) ==
  /\ wire.service = service
  /\ wire.body.parameters \in SentParameters(trace)
  /\ service = "Browse" => IsBounded(wire.body)

\* Both encodings name the service and carry the trace in one of the three forms.
LEMMA EncodedCarries ==
  ASSUME NEW c, NEW in, NEW wire \in EncodeRequest(c, in, in.trace),
         in.service = "Browse" => IsBounded(ClientRequest(in.api, in.input))
  PROVE  /\ "body" \in DOMAIN wire => Carries(wire, in.service, in.trace)
         /\ transport = "binary" => "body" \in DOMAIN wire
<1> DEFINE m == ClientRequest(in.api, in.input)
<1>1. CASE transport = "binary"
  <2> DEFINE header == [authentication_token |-> ConnectionToken, request_handle |-> c,
                        parameters |-> TextAndSpan(in.trace)]
             message == [parameters |-> NoParameters] @@ ToWireRequest(in.service, m)
             body == header @@ message
  <2>1. wire = [service |-> in.service, body |-> body]
    <3>1. message.parameters = NoParameters
      BY DEF @@
    <3> DEFINE context == IF in.trace = <<>> THEN <<>>
                          ELSE Each(TraceParentToSpanContext(in.trace[1]),
                                    LAMBDA s : ToExtensionObject("SpanContextDataType", s))
               named == SetAdditionalParameter(NoParameters, "traceparent", in.trace)
    <3>2. TextAndSpan(in.trace) = [traceparent |-> in.trace, SpanContext |-> context]
      BY DEF TextAndSpan
    <3> HIDE DEF context, message
    <3>3. named = [traceparent |-> in.trace, SpanContext |-> <<>>]
      BY DEF SetAdditionalParameter, NoParameters
    <3> HIDE DEF named
    <3>4. SetAdditionalParameter(named, "SpanContext", context) = TextAndSpan(in.trace)
      BY <3>2, <3>3 DEF SetAdditionalParameter
    <3>5. ApplyRequestEnvelope(message, ConnectionToken, c, in.trace) = body
      BY <3>1, <3>4 DEF ApplyRequestEnvelope, context, named
    <3> QED
      BY <1>1, <3>5 DEF EncodeRequest, EncodeServiceRequest, message
  <2>2. DOMAIN header = {"authentication_token", "request_handle", "parameters"}
    OBVIOUS
  <2>3. body.parameters = TextAndSpan(in.trace)
    BY <2>2 DEF @@
  <2>4. ASSUME in.service = "Browse" PROVE IsBounded(body)
    <3>1. ToWireRequest(in.service, m) = m
      BY <2>4 DEF ToWireRequest
    <3> QED
      BY <2>2, <2>4, <3>1 DEF @@, IsBounded
  <2> HIDE DEF body
  <2> QED
    BY <2>1, <2>3, <2>4 DEF Carries, SentParameters
<1>2. CASE transport # "binary"
  <2> DEFINE json == EncodeJsonRequest(c, in.service, m)
  <2>1. PICK p \in PeerParameters(in.trace) :
          wire = IF "body" \in DOMAIN json THEN [json EXCEPT !.body.parameters = p] ELSE json
    BY <1>2 DEF EncodeRequest
  <2>2. p \in SentParameters(in.trace)
    BY DEF PeerParameters, SentParameters, NoParameters, TextOnly, SpanOnly
  <2>3. CASE in.service \in BinaryOnly
    <3>1. "body" \notin DOMAIN json
      BY <2>3 DEF EncodeJsonRequest, Unsupported
    <3> QED
      BY <1>2, <2>1, <3>1
  <2>4. CASE in.service \notin BinaryOnly
    <3> DEFINE rest == [authentication_token |-> [id |-> "", numeric |-> TRUE],
                        request_handle |-> 0, parameters |-> NoParameters]
               body == JsonBody(in.service, "EncodeRequest", m) @@ rest
    <3>1. json = [service |-> in.service, request_handle |-> c, body |-> body]
      BY <2>4 DEF EncodeJsonRequest
    <3>2. "parameters" \in DOMAIN body
      BY DEF @@
    <3>3. ASSUME in.service = "Browse" PROVE IsBounded(body)
      <4>1. JsonBody(in.service, "EncodeRequest", m) = m
        BY <3>3 DEF JsonBody, JsonServiceMessage, SessionServices, DiscoveryServices,
                    JsonSubscriptionServices, JsonItemsServices, JsonPublishServices
      <4> QED
        BY <3>3, <4>1 DEF @@, IsBounded
    <3> HIDE DEF body, json
    <3>4. wire = [json EXCEPT !.body = [body EXCEPT !.parameters = p]]
      BY <2>1, <3>1
    <3>5. /\ wire.service = in.service
          /\ wire.body = [body EXCEPT !.parameters = p]
      BY <3>1, <3>4
    <3>6. wire.body.parameters = p
      BY <3>2, <3>5
    <3>7. IsBounded(body) => IsBounded(wire.body)
      BY <3>5 DEF IsBounded
    <3> QED
      BY <1>2, <2>2, <3>3, <3>5, <3>6, <3>7 DEF Carries
  <2> QED
    BY <2>3, <2>4
<1> QED
  BY <1>1, <1>2

\* What is decoded from a request: its service, its trace and its bound.
LEMMA DecodedCarries ==
  ASSUME NEW wire, transport = "binary" => "body" \in DOMAIN wire,
         NEW k \in DOMAIN DecodeRequest(wire)
  PROVE  LET d == DecodeRequest(wire)[k]
         IN  /\ "body" \in DOMAIN wire
             /\ d.service = wire.service
             /\ d.trace_parent = GetTraceParent(wire.body.parameters)
             /\ wire.service = "Browse" /\ IsBounded(wire.body) => IsBounded(d.body)
<1>0. ASSUME IsBounded(wire.body) PROVE IsBounded(WithoutHeader(wire.body))
  BY <1>0 DEF IsBounded, WithoutHeader, Carry
<1>1. CASE transport = "binary"
  <2> DEFINE bodies == DecodeRequestBody(wire.service, wire.body)
  <2>1. /\ k \in DOMAIN bodies
        /\ DecodeRequest(wire)[k] =
             [authentication_token |-> wire.body.authentication_token,
              request_handle |-> wire.body.request_handle,
              trace_parent |-> GetTraceParent(wire.body.parameters),
              service |-> wire.service, body |-> bodies[k]]
    BY <1>1 DEF DecodeRequest, DecodeServiceRequest, Each
  <2>2. ASSUME wire.service = "Browse", IsBounded(wire.body) PROVE IsBounded(bodies[k])
    <3>1. bodies = <<WithoutHeader(wire.body)>>
      BY <2>2 DEF DecodeRequestBody, DecodeGeneratedRequest, DiscoveryServices, SessionServices,
                  GeneratedServices, HandlerServices
    <3> QED
      BY <1>0, <2>1, <2>2, <3>1
  <2> HIDE DEF bodies
  <2> QED
    BY <1>1, <2>1, <2>2
<1>2. CASE transport # "binary"
  <2> DEFINE bodies == JsonBody(wire.service, "DecodeRequest", wire.body)
  <2>1. DecodeRequest(wire) = DecodeRequestMessage(wire)
    BY <1>2 DEF DecodeRequest
  <2>2. "body" \in DOMAIN wire
    BY <2>1 DEF DecodeRequestMessage, RequireField
  <2>3. /\ k \in DOMAIN bodies
        /\ DecodeRequest(wire)[k] =
             [request_handle |-> wire.request_handle,
              trace_parent |-> GetTraceParent(wire.body.parameters),
              service |-> wire.service, body |-> bodies[k]]
    BY <2>1, <2>2 DEF DecodeRequestMessage, RequireField, Each, RequestMessage, ReadTraceParent
  <2>4. ASSUME wire.service = "Browse", IsBounded(wire.body) PROVE IsBounded(bodies[k])
    <3>1. bodies = <<WithoutHeader(wire.body)>>
      BY <2>4 DEF JsonBody, JsonServiceMessage, SessionServices, DiscoveryServices, HandlerServices,
                  JsonSubscriptionServices, JsonItemsServices, JsonPublishServices
    <3> QED
      BY <1>0, <2>3, <2>4, <3>1
  <2> HIDE DEF bodies
  <2> QED
    BY <2>2, <2>3, <2>4
<1> QED
  BY <1>1, <1>2

(***************************************************************************)
(* The calls: what each one carries from its request to its end.           *)
(***************************************************************************)
CallFields == DOMAIN Idle
CallOk(k) ==
  /\ DOMAIN k = CallFields
  /\ k.phase = "idle" => k.question = <<>>
  /\ k.phase # "idle" =>
       /\ IsTraceable(k.trace)
       /\ transport = "binary" => "body" \in DOMAIN k.wire
       /\ "body" \in DOMAIN k.wire => Carries(k.wire, k.service, k.trace)
  /\ k.question # <<>> =>
       /\ "body" \in DOMAIN k.wire
       /\ k.service \in ContextServices =>
            k.question[1].trace = GetTraceParent(k.wire.body.parameters)
  /\ k.phase = "asked" /\ k.service = "Browse" => IsBounded(k.request[1])

\* Every call carries its own trace and, while a callback browses for it, its bound.
CallsInv ==
  /\ DOMAIN calls = Calls
  /\ \A c \in Calls : CallOk(calls[c])

\* A call that is answered, refused or left alone keeps what it carries.
LEMMA EndingKeepsCall ==
  ASSUME NEW k, NEW k2, CallOk(k), k.phase # "idle",
         DOMAIN k2 = CallFields, k2.phase \notin {"idle", "asked"},
         k2.trace = k.trace, k2.wire = k.wire, k2.service = k.service, k2.question = k.question
  PROVE  CallOk(k2)
BY DEF CallOk

\* Changing one call, and not the transport, keeps the others.
LEMMA OneCall ==
  ASSUME CallsInv, UNCHANGED transport, NEW c \in Calls, NEW k,
         calls' = [calls EXCEPT ![c] = k], CallOk(k)
  PROVE  CallsInv'
<1>1. CallOk(k)'
  BY DEF CallOk
<1>2. \A e \in Calls : CallOk(calls[e])'
  <2> TAKE e \in Calls
  <2>1. CASE e = c
    BY <1>1, <2>1 DEF CallsInv
  <2>2. CASE e # c
    <3>1. calls'[e] = calls[e] /\ CallOk(calls[e])
      BY <2>2 DEF CallsInv
    <3> QED
      BY <3>1 DEF CallOk
  <2> QED
    BY <2>1, <2>2
<1> QED
  BY <1>2 DEF CallsInv

\* Nor does a step that leaves them all alone.
LEMMA NoCall ==
  ASSUME CallsInv, UNCHANGED <<transport, calls>>
  PROVE  CallsInv'
BY DEF CallsInv, CallOk

LEMMA SendKeepsCalls ==
  ASSUME CallsInv, NEW c \in Calls, Send(c)
  PROVE  CallsInv'
<1>1. PICK any \in Inputs[c] : \E wire \in EncodeRequest(c, Addressed(any), Addressed(any).trace) :
         calls' = [calls EXCEPT ![c] =
           [Idle EXCEPT !.phase = "sent", !.api = Addressed(any).api,
                        !.service = Addressed(any).service, !.input = Addressed(any).input,
                        !.trace = Addressed(any).trace, !.wire = wire]]
  BY DEF Send
<1> DEFINE in == Addressed(any)
<1>2. /\ in.service = any.service /\ in.api = any.api /\ in.trace = any.trace
      /\ in.service = "Browse" => in = any
  BY DEF Addressed
<1>3. /\ IsTraceable(in.trace)
      /\ in.service = "Browse" => IsBounded(ClientRequest(in.api, in.input))
  BY <1>2, ServiceCallsAssumption
<1> HIDE DEF in
<1>4. PICK wire \in EncodeRequest(c, in, in.trace) :
         calls' = [calls EXCEPT ![c] =
           [Idle EXCEPT !.phase = "sent", !.api = in.api, !.service = in.service,
                        !.input = in.input, !.trace = in.trace, !.wire = wire]]
  BY <1>1 DEF in
<1> DEFINE k == [Idle EXCEPT !.phase = "sent", !.api = in.api, !.service = in.service,
                             !.input = in.input, !.trace = in.trace, !.wire = wire]
<1>5. /\ DOMAIN k = CallFields /\ k.phase = "sent" /\ k.service = in.service
      /\ k.trace = in.trace /\ k.wire = wire /\ k.question = <<>>
  BY DEF CallFields, Idle
<1>6. /\ "body" \in DOMAIN wire => Carries(wire, in.service, in.trace)
      /\ transport = "binary" => "body" \in DOMAIN wire
  BY <1>3, EncodedCarries
<1> HIDE DEF k
<1>7. CallOk(k)
  BY <1>3, <1>5, <1>6 DEF CallOk
<1> QED
  BY <1>4, <1>7, OneCall DEF Send, k

\* A refusal is a reply and leaves the request as it was.
LEMMA RepliedKeepsCalls ==
  ASSUME CallsInv, UNCHANGED transport, NEW c \in Calls, calls[c].phase # "idle",
         NEW reply, Replied(c, reply)
  PROVE  CallsInv'
<1> DEFINE k == [calls[c] EXCEPT !.phase = "replied", !.reply = <<reply>>]
<1>1. calls' = [calls EXCEPT ![c] = k]
  BY DEF Replied, CallsInv
<1>2. DOMAIN calls[c] = CallFields /\ CallOk(calls[c])
  BY DEF CallsInv, CallOk
<1>3. /\ DOMAIN k = CallFields /\ k.phase = "replied" /\ k.trace = calls[c].trace
      /\ k.wire = calls[c].wire /\ k.service = calls[c].service
      /\ k.question = calls[c].question
  BY <1>2 DEF CallFields, Idle
<1> HIDE DEF k
<1>4. CallOk(k)
  BY <1>2, <1>3, EndingKeepsCall
<1> QED
  BY <1>1, <1>4, OneCall

\* A request nobody answers stays as it was, too.
LEMMA SilenceKeepsCalls ==
  ASSUME CallsInv, UNCHANGED transport, NEW c \in Calls, calls[c].phase # "idle",
         calls' = [calls EXCEPT ![c].phase = "silent"]
  PROVE  CallsInv'
<1> DEFINE k == [calls[c] EXCEPT !.phase = "silent"]
<1>1. calls' = [calls EXCEPT ![c] = k]
  BY DEF CallsInv
<1>2. DOMAIN calls[c] = CallFields /\ CallOk(calls[c])
  BY DEF CallsInv, CallOk
<1>3. /\ DOMAIN k = CallFields /\ k.phase = "silent" /\ k.trace = calls[c].trace
      /\ k.wire = calls[c].wire /\ k.service = calls[c].service
      /\ k.question = calls[c].question
  BY <1>2 DEF CallFields, Idle
<1> HIDE DEF k
<1>4. CallOk(k)
  BY <1>2, <1>3, EndingKeepsCall
<1> QED
  BY <1>1, <1>4, OneCall

\* A request put to a callback takes its trace and its bound along.
LEMMA AskKeepsCalls ==
  ASSUME CallsInv, UNCHANGED transport, NEW c \in Calls, calls[c].phase = "sent",
         NEW i \in DOMAIN DecodeRequest(calls[c].wire), NEW question,
         Ask(c, DecodeRequest(calls[c].wire)[i], question)
  PROVE  CallsInv'
<1> DEFINE d == DecodeRequest(calls[c].wire)[i]
           seen == IF d.service \in ContextServices THEN d.trace_parent ELSE <<>>
           k == [calls[c] EXCEPT !.phase = "asked", !.session = session, !.request = <<d.body>>,
                                 !.question = <<[asked |-> question, trace |-> seen]>>]
<1>1. CallOk(calls[c])
  BY DEF CallsInv
<1>2. /\ "body" \in DOMAIN calls[c].wire
      /\ d.service = calls[c].wire.service
      /\ d.trace_parent = GetTraceParent(calls[c].wire.body.parameters)
      /\ calls[c].wire.service = "Browse" /\ IsBounded(calls[c].wire.body) => IsBounded(d.body)
  BY <1>1, DecodedCarries DEF CallOk
<1> HIDE DEF d
<1>3. Carries(calls[c].wire, calls[c].service, calls[c].trace)
  BY <1>1, <1>2 DEF CallOk
<1>4. d.service = calls[c].service /\ (calls[c].service = "Browse" => IsBounded(d.body))
  BY <1>2, <1>3 DEF Carries
<1>5. calls' = [calls EXCEPT ![c] = k]
  BY DEF Ask, CallsInv, d
<1>6. DOMAIN calls[c] = CallFields
  BY <1>1 DEF CallOk
<1>7. /\ DOMAIN k = CallFields /\ k.phase = "asked" /\ k.request = <<d.body>>
      /\ k.trace = calls[c].trace /\ k.wire = calls[c].wire /\ k.service = calls[c].service
      /\ k.question = <<[asked |-> question, trace |-> seen]>>
  BY <1>6 DEF CallFields, Idle
<1> HIDE DEF k
<1>8. CallOk(k)
  BY <1>1, <1>2, <1>4, <1>7 DEF CallOk
<1> QED
  BY <1>5, <1>8, OneCall

LEMMA ReceiveKeepsCalls ==
  ASSUME CallsInv, NEW c \in Calls, Receive(c)
  PROVE  CallsInv'
<1>1. UNCHANGED transport /\ calls[c].phase = "sent"
  BY DEF Receive
<1>2. CASE ReceiveUndecodable(c)
  BY <1>1, <1>2, RepliedKeepsCalls DEF ReceiveUndecodable
<1>3. ASSUME NEW i \in DOMAIN DecodeRequest(calls[c].wire),
             LET d == DecodeRequest(calls[c].wire)[i]
             IN  \/ ReceiveSessionless(c, d) \/ ReceiveUnrouted(c, d) \/ ReceiveWithoutSession(c, d)
                 \/ ReceiveBrowseNext(c, d) \/ ReceiveAttached(c, d)
      PROVE  CallsInv'
  <2> DEFINE d == DecodeRequest(calls[c].wire)[i]
  <2>1. ASSUME NEW question, Ask(c, d, question) PROVE CallsInv'
    BY <1>1, <2>1, AskKeepsCalls
  <2>2. ASSUME NEW reply, Replied(c, reply) PROVE CallsInv'
    BY <1>1, <2>2, RepliedKeepsCalls
  <2>3. ASSUME calls' = [calls EXCEPT ![c].phase = "silent"] PROVE CallsInv'
    BY <1>1, <2>3, SilenceKeepsCalls
  <2> HIDE DEF d
  <2>4. CASE ReceiveSessionless(c, d)
    BY <2>1, <2>2, <2>3, <2>4 DEF ReceiveSessionless
  <2>5. CASE ReceiveUnrouted(c, d)
    BY <2>3, <2>5 DEF ReceiveUnrouted
  <2>6. CASE ReceiveWithoutSession(c, d)
    BY <2>2, <2>6 DEF ReceiveWithoutSession
  <2>7. CASE ReceiveBrowseNext(c, d)
    BY <2>2, <2>7 DEF ReceiveBrowseNext
  <2>8. CASE ReceiveAttached(c, d)
    BY <2>1, <2>2, <2>8 DEF ReceiveAttached
  <2> QED
    BY <1>3, <2>4, <2>5, <2>6, <2>7, <2>8 DEF d
<1> QED
  BY <1>2, <1>3 DEF Receive

LEMMA AnsweredKeepsCalls ==
  ASSUME CallsInv, UNCHANGED transport, NEW c \in Calls, calls[c].phase = "asked",
         NEW answer, NEW body, Answered(c, answer, body)
  PROVE  CallsInv'
<1> DEFINE k == [calls[c] EXCEPT !.phase = "replied", !.answer = <<answer>>,
                                 !.reply = <<EncodeResponse(c, calls[c].service, body)>>]
<1>1. calls' = [calls EXCEPT ![c] = k]
  BY DEF Answered, CallsInv
<1>2. DOMAIN calls[c] = CallFields /\ CallOk(calls[c])
  BY DEF CallsInv, CallOk
<1>3. /\ DOMAIN k = CallFields /\ k.phase = "replied" /\ k.trace = calls[c].trace
      /\ k.wire = calls[c].wire /\ k.service = calls[c].service
      /\ k.question = calls[c].question
  BY <1>2 DEF CallFields, Idle
<1> HIDE DEF k
<1>4. CallOk(k)
  BY <1>2, <1>3, EndingKeepsCall
<1> QED
  BY <1>1, <1>4, OneCall

LEMMA DeliverKeepsCalls ==
  ASSUME CallsInv, NEW c \in Calls, Deliver(c)
  PROVE  CallsInv'
<1>1. PICK i \in DOMAIN DecodeResponse(calls[c].reply[1]) :
        LET reply == DecodeResponse(calls[c].reply[1])[i]
        IN  calls' = [calls EXCEPT
              ![c].phase = IF reply.request_handle = c THEN "done" ELSE "silent",
              ![c].result = IF reply.request_handle = c
                              THEN <<CallTyped(calls[c].api, calls[c].service, reply)>> ELSE <<>>]
  BY DEF Deliver
<1> DEFINE reply == DecodeResponse(calls[c].reply[1])[i]
           phase == IF reply.request_handle = c THEN "done" ELSE "silent"
           result == IF reply.request_handle = c
                       THEN <<CallTyped(calls[c].api, calls[c].service, reply)>> ELSE <<>>
           k == [calls[c] EXCEPT !.phase = phase, !.result = result]
<1>2. CallOk(calls[c]) /\ DOMAIN calls[c] = CallFields /\ calls[c].phase = "replied"
  BY DEF CallsInv, CallOk, Deliver
<1>3. phase \in {"done", "silent"}
  OBVIOUS
<1> HIDE DEF phase, result
<1>4. calls' = [calls EXCEPT ![c] = k]
  BY <1>1 DEF CallsInv, phase, result
<1>5. /\ DOMAIN k = CallFields /\ k.phase = phase /\ k.trace = calls[c].trace
      /\ k.wire = calls[c].wire /\ k.service = calls[c].service
      /\ k.question = calls[c].question
  BY <1>2 DEF CallFields, Idle
<1> HIDE DEF k
<1>6. CallOk(k)
  BY <1>2, <1>3, <1>5, EndingKeepsCall
<1> QED
  BY <1>4, <1>6, OneCall DEF Deliver

LEMMA IdleOk == CallOk(Idle)
BY DEF CallOk, CallFields, Idle

LEMMA FinishKeepsCalls ==
  ASSUME CallsInv, NEW c \in Calls, Finish(c)
  PROVE  CallsInv'
BY IdleOk, OneCall DEF Finish

\* Browse answers once, whatever becomes of the pages.
LEMMA BrowseKeepsCalls ==
  ASSUME CallsInv, NEW c \in Calls, AnswerBrowse(c) \/ AnswerBrowseOfRemoved(c)
  PROVE  CallsInv'
<1>1. UNCHANGED transport /\ calls[c].phase = "asked"
  BY DEF AnswerBrowse, AnswerBrowseOfRemoved
<1>2. ASSUME NEW answer, NEW body, Answered(c, answer, body) PROVE CallsInv'
  BY <1>1, <1>2, AnsweredKeepsCalls
<1>3. CASE AnswerBrowse(c)
  BY <1>2, <1>3 DEF AnswerBrowse, StoreBrowseResults
<1>4. CASE AnswerBrowseOfRemoved(c)
  BY <1>1, <1>2, <1>4, NoCall DEF AnswerBrowseOfRemoved
<1> QED
  BY <1>3, <1>4

LEMMA CallsInductive == Spec => []CallsInv
<1>1. Init => CallsInv
  BY IdleOk DEF Init, CallsInv
<1>2. ASSUME CallsInv, [Next]_vars PROVE CallsInv'
  <2>1. ASSUME NEW c \in Calls, Answer(c) PROVE CallsInv'
    BY <1>2, <2>1, AnsweredKeepsCalls DEF Answer
  <2>2. CASE RemoveSession \/ NewSession \/ UNCHANGED vars
    BY <1>2, <2>2, NoCall DEF RemoveSession, NewSession, vars
  <2> QED
    BY <1>2, <2>1, <2>2, SendKeepsCalls, ReceiveKeepsCalls, BrowseKeepsCalls, DeliverKeepsCalls,
       FinishKeepsCalls DEF Next
<1> QED
  BY <1>1, <1>2, PTL DEF Spec

\* A callback runs in the trace of its caller, for any calls over any transport
\* and any traceparent: its ids survive the header's text and the SpanContext.
THEOREM TracesAreContinued == Spec => []TraceIsContinued
<1>1. CallsInv => TraceIsContinued
  <2> SUFFICES ASSUME CallsInv, NEW c \in Calls, Asked(c), calls[c].service \in ContextServices
               PROVE  Continues(calls[c].question[1].trace, calls[c].trace,
                                calls[c].wire.body.parameters)
    BY DEF TraceIsContinued, Continues
  <2>1. /\ calls[c].wire.body.parameters \in SentParameters(calls[c].trace)
        /\ IsTraceable(calls[c].trace)
        /\ calls[c].question[1].trace = GetTraceParent(calls[c].wire.body.parameters)
    BY DEF CallsInv, CallOk, Carries, Asked
  <2> QED
    BY <2>1, TraceSurvives
<1> QED
  BY <1>1, CallsInductive, PTL

(***************************************************************************)
(* Pages.  A page names its targets in order; the inductive invariant says *)
(* that no target is in two places.                                        *)
(***************************************************************************)
Values(s) == {s[k] : k \in DOMAIN s}
Distinct(s) == \A j, k \in DOMAIN s : s[j] = s[k] => j = k
Target == Nat \X Nat
IsPage(references) ==
  /\ TargetsOf(references) \in Seq(Target)
  /\ Distinct(TargetsOf(references))

\* Batches of a browse are numbered, so nothing found before is found again.
PagesInv ==
  /\ browsed \in Seq(0 .. MaxReferences)
  /\ handed \in Seq(Target)
  /\ next_id \in Nat \ {0}
  /\ \A p \in DOMAIN continuations : p \in 1 .. next_id - 1 /\ IsPage(continuations[p])
  /\ \A p, q \in DOMAIN continuations :
       p # q => TargetSet(continuations[p]) \cap TargetSet(continuations[q]) = {}
  /\ ~attached => DOMAIN continuations = {}
  /\ PagesAddUp

LEMMA TargetSetIsValues ==
  ASSUME NEW references
  PROVE  TargetSet(references) = Values(TargetsOf(references))
BY DEF TargetSet, Values, TargetsOf, Each

\* Handing out a page appends it and repeats nothing.
LEMMA Handed ==
  ASSUME NEW h \in Seq(Target), Distinct(h), NEW s \in Seq(Target), Distinct(s),
         Values(h) \cap Values(s) = {}
  PROVE  /\ h \o s \in Seq(Target)
         /\ Distinct(h \o s)
         /\ Values(h \o s) = Values(h) \cup Values(s)
<1> DEFINE t == h \o s
<1>1. /\ t \in Seq(Target) /\ Len(t) = Len(h) + Len(s)
      /\ DOMAIN t = 1 .. Len(h) + Len(s) /\ DOMAIN h = 1 .. Len(h) /\ DOMAIN s = 1 .. Len(s)
      /\ Len(h) \in Nat /\ Len(s) \in Nat
  BY ConcatProperties, LenProperties
<1>2. /\ \A i \in 1 .. Len(h) : t[i] = h[i]
      /\ \A i \in Len(h) + 1 .. Len(h) + Len(s) : t[i] = s[i - Len(h)]
  BY <1>1, ConcatProperties
<1> HIDE DEF t
<1>3. \A i \in DOMAIN t : \/ i \in DOMAIN h /\ t[i] = h[i]
                          \/ i > Len(h) /\ i - Len(h) \in DOMAIN s /\ t[i] = s[i - Len(h)]
  BY <1>1, <1>2
<1>4. Distinct(t)
  <2> SUFFICES ASSUME NEW j \in DOMAIN t, NEW k \in DOMAIN t, t[j] = t[k]
               PROVE  j = k
    BY DEF Distinct
  <2>1. CASE j \in DOMAIN h /\ t[j] = h[j] /\ k \in DOMAIN h /\ t[k] = h[k]
    BY <2>1 DEF Distinct
  <2>2. CASE /\ j > Len(h) /\ j - Len(h) \in DOMAIN s /\ t[j] = s[j - Len(h)]
             /\ k > Len(h) /\ k - Len(h) \in DOMAIN s /\ t[k] = s[k - Len(h)]
    <3>1. j - Len(h) = k - Len(h)
      BY <2>2 DEF Distinct
    <3> QED
      BY <1>1, <3>1
  <2>3. CASE j \in DOMAIN h /\ t[j] = h[j] /\ k - Len(h) \in DOMAIN s /\ t[k] = s[k - Len(h)]
    BY <2>3 DEF Values
  <2>4. CASE k \in DOMAIN h /\ t[k] = h[k] /\ j - Len(h) \in DOMAIN s /\ t[j] = s[j - Len(h)]
    BY <2>4 DEF Values
  <2> QED
    BY <1>3, <2>1, <2>2, <2>3, <2>4
<1>5. Values(t) \subseteq Values(h) \cup Values(s)
  BY <1>3 DEF Values
<1>6. Values(h) \subseteq Values(t)
  <2>1. \A i \in DOMAIN h : i \in DOMAIN t /\ t[i] = h[i]
    BY <1>1, <1>2
  <2> QED
    BY <2>1 DEF Values
<1>7. Values(s) \subseteq Values(t)
  <2>1. \A i \in DOMAIN s : i + Len(h) \in DOMAIN t /\ t[i + Len(h)] = s[i]
    <3> TAKE i \in DOMAIN s
    <3>1. i \in Nat /\ i + Len(h) \in Len(h) + 1 .. Len(h) + Len(s) /\ (i + Len(h)) - Len(h) = i
      BY <1>1
    <3> QED
      BY <1>1, <1>2, <3>1
  <2> QED
    BY <2>1 DEF Values
<1> QED
  BY <1>1, <1>4, <1>5, <1>6, <1>7 DEF t

\* A page that is handed out or released is no longer held.
LEMMA ResumeKeepsPages ==
  ASSUME PagesInv, NEW point \in DOMAIN continuations, attached,
         handed' = handed \o TargetsOf(continuations[point]),
         continuations' = EraseContinuation(point), UNCHANGED <<next_id, browsed, attached>>
  PROVE  PagesInv'
<1> DEFINE page == TargetsOf(continuations[point])
<1>1. page \in Seq(Target) /\ Distinct(page) /\ Values(page) = TargetSet(continuations[point])
  BY TargetSetIsValues DEF PagesInv, IsPage
<1>2. Given = Values(handed) /\ Distinct(handed) /\ handed \in Seq(Target)
  BY DEF Given, Values, Distinct, PagesInv, PagesAddUp
<1>3. TargetSet(continuations[point]) \subseteq Held
  BY DEF Held
<1>4. Values(handed) \cap Values(page) = {}
  BY <1>1, <1>2, <1>3 DEF PagesInv, PagesAddUp
<1>5. /\ handed' \in Seq(Target) /\ Distinct(handed') /\ Values(handed') = Values(handed) \cup Values(page)
  BY <1>1, <1>2, <1>4, Handed
<1>6. /\ DOMAIN continuations' = DOMAIN continuations \ {point}
      /\ \A q \in DOMAIN continuations' : continuations'[q] = continuations[q]
  BY DEF EraseContinuation
<1>7. Held = Held' \cup TargetSet(continuations[point])
  BY <1>6 DEF Held
<1>8. Held' \cap TargetSet(continuations[point]) = {}
  BY <1>6 DEF Held, PagesInv
<1>9. Given' = Given \cup TargetSet(continuations[point])
  BY <1>1, <1>2, <1>5 DEF Given, Values
<1>10. Found' = Found
  BY DEF Found
<1>11. PagesAddUp'
  <2>1. \A j, k \in DOMAIN handed' : handed'[j] = handed'[k] => j = k
    BY <1>5 DEF Distinct
  <2>2. Given' \cap Held' = {} /\ Given' \cup Held' = Found'
    BY <1>7, <1>8, <1>9, <1>10 DEF PagesInv, PagesAddUp
  <2> QED
    BY <2>1, <2>2 DEF PagesAddUp
<1> QED
  BY <1>5, <1>6, <1>11 DEF PagesInv, IsPage

\* What the b-th browse of a session finds from the place after m up to n.
Batch(b, m, n) == [i \in 1 .. n - m |-> <<b, i + m>>]

LEMMA BatchIsPage ==
  ASSUME NEW b \in Nat, NEW n \in Nat, NEW m \in 0 .. n
  PROVE  /\ Batch(b, m, n) \in Seq(Target)
         /\ Distinct(Batch(b, m, n))
         /\ Values(Batch(b, m, n)) = {<<b, i>> : i \in m + 1 .. n}
<1> DEFINE s == Batch(b, m, n)
<1>1. DOMAIN s = 1 .. n - m /\ \A i \in 1 .. n - m : s[i] = <<b, i + m>>
  BY DEF Batch
<1>2. s \in Seq(Target)
  <2>1. n - m \in Nat /\ s \in [1 .. n - m -> Target]
    BY DEF Batch, Target
  <2> QED
    BY <2>1
<1> HIDE DEF s
<1>3. Distinct(s)
  <2> SUFFICES ASSUME NEW j \in DOMAIN s, NEW k \in DOMAIN s, s[j] = s[k]
               PROVE  j = k
    BY DEF Distinct
  <2>1. <<b, j + m>> = <<b, k + m>>
    BY <1>1
  <2>2. j + m = k + m
    BY <2>1
  <2> QED
    BY <1>1, <2>2
<1>4. \A i \in m + 1 .. n : i - m \in DOMAIN s /\ s[i - m] = <<b, i>>
  <2> TAKE i \in m + 1 .. n
  <2>1. i - m \in 1 .. n - m /\ (i - m) + m = i
    OBVIOUS
  <2> QED
    BY <1>1, <2>1
<1>5. \A i \in DOMAIN s : i + m \in m + 1 .. n /\ s[i] = <<b, i + m>>
  BY <1>1
<1>6. Values(s) = {<<b, i>> : i \in m + 1 .. n}
  BY <1>4, <1>5 DEF Values
<1> QED
  BY <1>2, <1>3, <1>6 DEF s

\* A new batch is found beside what was found before.
LEMMA FoundGrows ==
  ASSUME browsed \in Seq(0 .. MaxReferences), NEW n \in 0 .. MaxReferences,
         browsed' = Append(browsed, n)
  PROVE  /\ browsed' \in Seq(0 .. MaxReferences)
         /\ Found' = Found \cup {<<Len(browsed) + 1, i>> : i \in 1 .. n}
         /\ \A i \in Nat : <<Len(browsed) + 1, i>> \notin Found
<1> DEFINE b == Len(browsed) + 1
<1>1. /\ browsed' \in Seq(0 .. MaxReferences) /\ DOMAIN browsed = 1 .. Len(browsed)
      /\ DOMAIN browsed' = 1 .. b /\ b \in Nat /\ b \notin DOMAIN browsed
      /\ browsed'[b] = n /\ \A i \in DOMAIN browsed : browsed'[i] = browsed[i]
  BY AppendProperties, LenProperties
<1>2. DOMAIN browsed' = DOMAIN browsed \cup {b}
  BY <1>1
<1>3. n \in Nat /\ MaxReferences \in Nat /\ n <= MaxReferences
  BY ServiceCallsAssumption
<1> HIDE DEF b
<1>4. Found' \subseteq Found \cup {<<b, i>> : i \in 1 .. n}
  <2> SUFFICES ASSUME NEW t \in Found' PROVE t \in Found \cup {<<b, i>> : i \in 1 .. n}
    OBVIOUS
  <2>1. /\ t = <<t[1], t[2]>> /\ t[1] \in DOMAIN browsed' /\ t[2] \in 1 .. MaxReferences
        /\ t[2] <= browsed'[t[1]]
    BY DEF Found
  <2>2. CASE t[1] \in DOMAIN browsed
    BY <1>1, <2>1, <2>2 DEF Found
  <2>3. CASE t[1] = b
    <3>1. t[2] \in 1 .. n
      BY <1>1, <1>3, <2>1, <2>3
    <3> QED
      BY <2>1, <2>3, <3>1
  <2> QED
    BY <1>2, <2>1, <2>2, <2>3
<1>5. Found \subseteq Found'
  BY <1>1, <1>2 DEF Found
<1>6. \A i \in 1 .. n : <<b, i>> \in Found'
  <2> TAKE i \in 1 .. n
  <2>1. i \in 1 .. MaxReferences /\ i <= n
    BY <1>3
  <2> QED
    BY <1>1, <1>2, <2>1 DEF Found
<1>7. \A i \in Nat : <<b, i>> \notin Found
  BY <1>1 DEF Found
<1> QED
  BY <1>1, <1>4, <1>5, <1>6, <1>7 DEF b

\* All that was found is handed out, or refused, at once.
LEMMA WholeKeepsPages ==
  ASSUME PagesInv, attached, NEW n \in 0 .. MaxReferences,
         handed' = handed \o Batch(Len(browsed) + 1, 0, n), browsed' = Append(browsed, n),
         UNCHANGED <<continuations, next_id, attached>>
  PROVE  PagesInv'
<1> DEFINE b == Len(browsed) + 1
           new == {<<b, i>> : i \in 1 .. n}
<1>1. n \in Nat /\ b \in Nat
  BY ServiceCallsAssumption DEF PagesInv
<1>2. /\ Batch(b, 0, n) \in Seq(Target) /\ Distinct(Batch(b, 0, n)) /\ Values(Batch(b, 0, n)) = new
  <2>1. 0 \in 0 .. n /\ 0 + 1 = 1
    BY <1>1
  <2> QED
    BY <1>1, <2>1, BatchIsPage
<1>3. /\ browsed' \in Seq(0 .. MaxReferences) /\ Found' = Found \cup new
      /\ \A i \in Nat : <<b, i>> \notin Found
  BY FoundGrows DEF PagesInv
<1>4. Given = Values(handed) /\ Distinct(handed) /\ handed \in Seq(Target) /\ Given \cup Held = Found
  BY DEF Given, Values, Distinct, PagesInv, PagesAddUp
<1>5. new \cap Found = {}
  BY <1>1, <1>3
<1> HIDE DEF b, new
<1>6. /\ handed' \in Seq(Target) /\ Distinct(handed') /\ Values(handed') = Values(handed) \cup new
  BY <1>2, <1>4, <1>5, Handed DEF b
<1>7. Held' = Held /\ Given' = Given \cup new
  BY <1>4, <1>6 DEF Held, Given, Values
<1>8. PagesAddUp'
  <2>1. \A j, k \in DOMAIN handed' : handed'[j] = handed'[k] => j = k
    BY <1>6 DEF Distinct
  <2>2. Given' \cap Held' = {} /\ Given' \cup Held' = Found'
    BY <1>3, <1>4, <1>5, <1>7 DEF PagesInv, PagesAddUp
  <2> QED
    BY <2>1, <2>2 DEF PagesAddUp
<1> QED
  BY <1>3, <1>6, <1>8 DEF PagesInv, IsPage

\* The first page is handed out and the rest is kept under a new continuation point.
LEMMA CutKeepsPages ==
  ASSUME PagesInv, attached, NEW n \in 0 .. MaxReferences, NEW max \in 1 .. n, NEW rest,
         TargetsOf(rest) = Batch(Len(browsed) + 1, max, n),
         handed' = handed \o Batch(Len(browsed) + 1, 0, max), browsed' = Append(browsed, n),
         continuations' = (next_id :> rest) @@ continuations, next_id' = next_id + 1,
         UNCHANGED attached
  PROVE  PagesInv'
<1> DEFINE b == Len(browsed) + 1
           first == {<<b, i>> : i \in 1 .. max}
           last == {<<b, i>> : i \in max + 1 .. n}
<1>1. n \in Nat /\ b \in Nat /\ max \in Nat /\ max \in 0 .. n
  BY ServiceCallsAssumption DEF PagesInv
<1>2. /\ Batch(b, 0, max) \in Seq(Target) /\ Distinct(Batch(b, 0, max))
      /\ Values(Batch(b, 0, max)) = first
  <2>1. 0 \in 0 .. max /\ 0 + 1 = 1
    BY <1>1
  <2> QED
    BY <1>1, <2>1, BatchIsPage
<1>3. IsPage(rest) /\ TargetSet(rest) = last
  BY <1>1, BatchIsPage, TargetSetIsValues DEF IsPage
<1>4. /\ browsed' \in Seq(0 .. MaxReferences) /\ Found' = Found \cup {<<b, i>> : i \in 1 .. n}
      /\ \A i \in Nat : <<b, i>> \notin Found
  BY FoundGrows DEF PagesInv
<1>5. {<<b, i>> : i \in 1 .. n} = first \cup last
  <2>1. 1 .. n = (1 .. max) \cup (max + 1 .. n)
    BY <1>1
  <2> QED
    BY <2>1
<1>6. first \cap last = {}
  <2>1. \A i \in 1 .. max, j \in max + 1 .. n : i # j
    BY <1>1
  <2> QED
    BY <2>1
<1>7. first \cap Found = {} /\ last \cap Found = {}
  BY <1>1, <1>4
<1>8. Given = Values(handed) /\ Distinct(handed) /\ handed \in Seq(Target) /\ Given \cup Held = Found
  BY DEF Given, Values, Distinct, PagesInv, PagesAddUp
<1> HIDE DEF b, first, last
<1>9. /\ handed' \in Seq(Target) /\ Distinct(handed') /\ Values(handed') = Values(handed) \cup first
  BY <1>2, <1>7, <1>8, Handed DEF b
<1>10. next_id \in Nat \ {0} /\ next_id \notin DOMAIN continuations
  BY DEF PagesInv
<1>11. /\ DOMAIN continuations' = DOMAIN continuations \cup {next_id}
       /\ continuations'[next_id] = rest
       /\ \A q \in DOMAIN continuations : continuations'[q] = continuations[q]
  BY <1>10 DEF @@, :>
<1>12. Held' = Held \cup last /\ Given' = Given \cup first
  <2>1. Given' = Given \cup first
    BY <1>8, <1>9 DEF Given, Values
  <2>2. Held' \subseteq Held \cup last
    BY <1>3, <1>11 DEF Held
  <2>3. Held \subseteq Held'
    BY <1>11 DEF Held
  <2>4. last \subseteq Held'
    BY <1>3, <1>11 DEF Held
  <2> QED
    BY <2>1, <2>2, <2>3, <2>4
<1>13. PagesAddUp'
  <2>1. \A j, k \in DOMAIN handed' : handed'[j] = handed'[k] => j = k
    BY <1>9 DEF Distinct
  <2>2. Given' \cap Held' = {} /\ Given' \cup Held' = Found'
    BY <1>4, <1>5, <1>6, <1>7, <1>8, <1>12 DEF PagesInv, PagesAddUp
  <2> QED
    BY <2>1, <2>2 DEF PagesAddUp
<1>14. \A p \in DOMAIN continuations' : p \in 1 .. next_id' - 1 /\ IsPage(continuations'[p])
  BY <1>3, <1>10, <1>11 DEF PagesInv
<1>15. \A p \in DOMAIN continuations : TargetSet(continuations[p]) \cap last = {}
  BY <1>7, <1>8 DEF Held
<1>16. \A p, q \in DOMAIN continuations' :
         p # q => TargetSet(continuations'[p]) \cap TargetSet(continuations'[q]) = {}
  BY <1>3, <1>11, <1>15 DEF PagesInv
<1> QED
  BY <1>4, <1>9, <1>10, <1>13, <1>14, <1>16 DEF PagesInv, IsPage

\* A session that holds nothing, and never did, is where every session starts.
LEMMA EmptyPages ==
  ASSUME DOMAIN continuations = {}, next_id \in Nat \ {0}, browsed = <<>>, handed = <<>>
  PROVE  PagesInv
<1>1. Given = {} /\ Held = {} /\ Found = {}
  BY DEF Given, Held, Found
<1> QED
  BY <1>1 DEF PagesInv, PagesAddUp

\* The references of a browse, as the wire names them.
LEMMA WireReferences ==
  ASSUME NEW b, NEW n \in Nat
  PROVE  LET found == [i \in 1 .. n |-> ReferenceDescription(<<b, i>>)]
             wire == Each(found, ReferenceToGenerated)
         IN  /\ DOMAIN wire = 1 .. n
             /\ \A i \in 1 .. n : wire[i].node_id.id = <<b, i>>
<1> DEFINE found == [i \in 1 .. n |-> ReferenceDescription(<<b, i>>)]
           wire == Each(found, ReferenceToGenerated)
<1>1. DOMAIN wire = 1 .. n /\ \A i \in 1 .. n : wire[i] = ReferenceToGenerated(found[i])
  BY DEF Each
<1>2. \A i \in 1 .. n : found[i].node_id = <<b, i>>
  BY DEF ReferenceDescription
<1>3. ASSUME NEW m PROVE ReferenceToGenerated(m).node_id = Expanded(m.node_id)
  <2> DEFINE carried == Carry(m, ReferenceFields)
             added == [is_forward |-> m.forward, node_id |-> Expanded(m.node_id),
                       type_definition |-> Expanded(m.type_definition)]
  <2>1. "node_id" \notin DOMAIN carried
    BY DEF Carry, ReferenceFields
  <2>2. "node_id" \in DOMAIN added /\ added.node_id = Expanded(m.node_id)
    OBVIOUS
  <2>3. ReferenceToGenerated(m) = carried @@ added
    BY DEF ReferenceToGenerated
  <2> HIDE DEF carried, added
  <2> QED
    BY <2>1, <2>2, <2>3 DEF @@
<1> HIDE DEF found, wire
<1>4. \A i \in 1 .. n : wire[i].node_id.id = <<b, i>>
  <2> TAKE i \in 1 .. n
  <2>1. wire[i].node_id = Expanded(found[i].node_id)
    BY <1>1, <1>3
  <2>2. wire[i].node_id = Expanded(<<b, i>>)
    BY <1>2, <2>1
  <2>3. \A t : Expanded(t).id = t
    BY DEF Expanded
  <2> QED
    BY <2>2, <2>3
<1> QED
  BY <1>1, <1>4 DEF found, wire

\* Cut after max, they name the first and the last part of the batch.
LEMMA Parts ==
  ASSUME NEW b, NEW n \in Nat, NEW wire, DOMAIN wire = 1 .. n,
         wire = [i \in 1 .. n |-> wire[i]],
         \A i \in 1 .. n : wire[i].node_id.id = <<b, i>>
  PROVE  /\ Len(wire) = n
         /\ TargetsOf(wire) = Batch(b, 0, n)
         /\ \A max \in 1 .. n :
              /\ TargetsOf(SubSeq(wire, 1, max)) = Batch(b, 0, max)
              /\ TargetsOf(SubSeq(wire, max + 1, n)) = Batch(b, max, n)
<1> DEFINE S == {wire[i] : i \in 1 .. n}
<1>1. wire \in Seq(S) /\ Len(wire) = n
  <2>1. wire \in [1 .. n -> S]
    OBVIOUS
  <2> QED
    BY <2>1
<1>2. TargetsOf(wire) = Batch(b, 0, n)
  <2>1. \A i \in 1 .. n : i + 0 = i
    OBVIOUS
  <2>2. n - 0 = n
    OBVIOUS
  <2> QED
    BY <2>1, <2>2 DEF TargetsOf, Each, Batch
<1>3. ASSUME NEW l \in 0 .. n, NEW m \in l .. n
      PROVE  TargetsOf(SubSeq(wire, l + 1, m)) = Batch(b, l, m)
  <2> DEFINE s == SubSeq(wire, l + 1, m)
  <2>1. /\ s \in Seq(S) /\ Len(s) = m - l
        /\ \A i \in 1 .. m - l : s[i] = wire[i + l]
    <3>1. \A i \in l + 1 .. m : wire[i] \in S
      OBVIOUS
    <3>2. /\ s \in Seq(S) /\ Len(s) = IF l + 1 <= m THEN m - (l + 1) + 1 ELSE 0
          /\ \A i \in 1 .. m - (l + 1) + 1 : s[i] = wire[(l + 1) + i - 1]
      BY <3>1, SubSeqProperties
    <3> HIDE DEF s
    <3>3. m - (l + 1) + 1 = m - l /\ Len(s) = m - l
      BY <3>2
    <3>4. \A i \in 1 .. m - l : (l + 1) + i - 1 = i + l
      OBVIOUS
    <3> QED
      BY <3>2, <3>3, <3>4
  <2> HIDE DEF s
  <2>2. DOMAIN s = 1 .. m - l
    BY <2>1
  <2>3. \A i \in 1 .. m - l : i + l \in 1 .. n
    OBVIOUS
  <2>4. \A i \in 1 .. m - l : s[i].node_id.id = <<b, i + l>>
    BY <2>1, <2>3
  <2> QED
    BY <2>2, <2>4 DEF TargetsOf, Each, Batch, s
<1>4. \A max \in 1 .. n : /\ TargetsOf(SubSeq(wire, 1, max)) = Batch(b, 0, max)
                          /\ TargetsOf(SubSeq(wire, max + 1, n)) = Batch(b, max, n)
  <2> TAKE max \in 1 .. n
  <2>1. 0 \in 0 .. n /\ max \in 0 .. n /\ n \in max .. n /\ max \in 0 .. max /\ 0 + 1 = 1
    OBVIOUS
  <2>2. TargetsOf(SubSeq(wire, 0 + 1, max)) = Batch(b, 0, max)
    BY <1>3, <2>1
  <2> QED
    BY <1>3, <2>1, <2>2
<1> QED
  BY <1>1, <1>2, <1>4

\* A response of n references of the b-th browse, or of none.
BrowsedParts(body, answer, b, n) ==
  /\ answer.value # <<>> /\ body.results # <<>>
  /\ Len(answer.value[1][1].references) = n
  /\ DOMAIN body.results[1] = {"status_code", "continuation_point", "references"}
  /\ Len(body.results[1].references) = n
  /\ TargetsOf(body.results[1].references) = Batch(b, 0, n)
  /\ \A m \in 1 .. n :
       /\ TargetsOf(SubSeq(body.results[1].references, 1, m)) = Batch(b, 0, m)
       /\ TargetsOf(SubSeq(body.results[1].references, m + 1, n)) = Batch(b, m, n)

BrowsedBody(body, answer, b) ==
  \/ body.results = <<>> /\ answer.value = <<>>
  \/ \E n \in 0 .. MaxReferences : BrowsedParts(body, answer, b, n)

\* What the response to a browse is made of.
LEMMA BrowseBody ==
  ASSUME NEW answer \in BrowseOutcomes, NEW request, browsed \in Seq(0 .. MaxReferences)
  PROVE  BrowsedBody(RespondTo("Browse", request, answer), answer, Len(browsed) + 1)
<1> DEFINE body == RespondTo("Browse", request, answer)
           b == Len(browsed) + 1
<1>1. body.results = Each(ValueOrNothing(answer), BrowseResultToGenerated)
  BY DEF RespondTo, RespondBrowse, Respond
<1> HIDE DEF body
<1>2. CASE answer = Failed(Refused)
  <2>1. answer.value = <<>>
    BY <1>2 DEF Failed
  <2> QED
    BY <1>1, <2>1 DEF ValueOrNothing, Each, body, BrowsedBody
<1>3. CASE answer # Failed(Refused)
  <2>1. PICK n \in 0 .. MaxReferences :
          answer = Ok(<<[status_code |-> Good, continuation_point |-> 0,
                         references |-> [i \in 1 .. n |-> ReferenceDescription(<<b, i>>)]]>>)
    BY <1>3 DEF BrowseOutcomes
  <2>2. n \in Nat
    BY ServiceCallsAssumption
  <2> HIDE DEF b
  <2> DEFINE found == [i \in 1 .. n |-> ReferenceDescription(<<b, i>>)]
             result == [status_code |-> Good, continuation_point |-> 0, references |-> found]
  <2>3. Len(found) = n
    <3> DEFINE S == {ReferenceDescription(<<b, i>>) : i \in 1 .. n}
    <3>1. found \in [1 .. n -> S]
      OBVIOUS
    <3> HIDE DEF found, S
    <3>2. found \in Seq(S)
      BY <2>2, <3>1
    <3> QED
      BY <2>2, <3>1, <3>2, LenProperties
  <2>4. result.references = found
    OBVIOUS
  <2> HIDE DEF found
  <2>5. BrowseResultToGenerated(result) =
          [status_code |-> CodeOf(result.status_code), continuation_point |-> result.continuation_point,
           references |-> Each(found, ReferenceToGenerated)]
    BY <2>4 DEF BrowseResultToGenerated
  <2>6. answer = Ok(<<result>>)
    BY <2>1 DEF found
  <2> HIDE DEF result
  <2>7. answer.value # <<>> /\ answer.value[1] = <<result>> /\ answer.value[1][1] = result
    BY <2>6 DEF Ok
  <2>8. Len(answer.value[1][1].references) = n
    BY <2>3, <2>4, <2>7
  <2>9. ValueOrNothing(answer) = <<result>>
    BY <2>7 DEF ValueOrNothing
  <2>10. body.results = <<BrowseResultToGenerated(result)>>
    BY <1>1, <2>9 DEF Each
  <2> DEFINE wire == Each(found, ReferenceToGenerated)
  <2>11. /\ body.results # <<>>
         /\ DOMAIN body.results[1] = {"status_code", "continuation_point", "references"}
         /\ body.results[1].references = wire
    BY <2>5, <2>10
  <2>12. DOMAIN wire = 1 .. n /\ \A i \in 1 .. n : wire[i].node_id.id = <<b, i>>
    BY <2>2, WireReferences DEF found
  <2>13. wire = [i \in 1 .. n |-> wire[i]]
    BY <2>12 DEF Each
  <2> HIDE DEF wire
  <2>14. /\ Len(wire) = n /\ TargetsOf(wire) = Batch(b, 0, n)
         /\ \A max \in 1 .. n : /\ TargetsOf(SubSeq(wire, 1, max)) = Batch(b, 0, max)
                                /\ TargetsOf(SubSeq(wire, max + 1, n)) = Batch(b, max, n)
    BY <2>2, <2>12, <2>13, Parts
  <2>15. BrowsedParts(body, answer, b, n)
    BY <2>7, <2>8, <2>11, <2>14 DEF BrowsedParts
  <2> QED
    BY <2>15 DEF BrowsedBody, body, b
<1> QED
  BY <1>2, <1>3

LEMMA OthersKeepPages ==
  ASSUME PagesInv, UNCHANGED <<store, attached>>
  PROVE  PagesInv'
BY DEF store, PagesInv, PagesAddUp, Given, Held, Found, IsPage

LEMMA BrowseNextKeepsPages ==
  ASSUME PagesInv, NEW c, NEW d, ReceiveBrowseNext(c, d), UNCHANGED attached
  PROVE  PagesInv'
<1> DEFINE point == d.body.continuation_points[1]
           release == d.body.release_continuation_points
<1>1. /\ attached /\ continuations' = EraseContinuation(point)
      /\ handed' = handed \o TargetsOf(IF release /\ point \in DOMAIN continuations
                                         THEN continuations[point]
                                         ELSE Resume(point, release).references)
      /\ UNCHANGED <<next_id, browsed>>
  BY DEF ReceiveBrowseNext
<1> HIDE DEF point, release
<1>2. CASE point \in DOMAIN continuations
  <2>1. ~release => Resume(point, release).references = continuations[point]
    BY <1>2 DEF Resume
  <2>2. handed' = handed \o TargetsOf(continuations[point])
    BY <1>1, <1>2, <2>1
  <2> QED
    BY <1>1, <1>2, <2>2, ResumeKeepsPages
<1>3. CASE point \notin DOMAIN continuations
  <2>1. Resume(point, release).references = <<>>
    BY <1>3 DEF Resume
  <2>2. TargetsOf(<<>>) = <<>>
    BY DEF TargetsOf, Each
  <2>3. handed' = handed
    BY <1>1, <1>3, <2>1, <2>2, ConcatEmptySeq DEF PagesInv
  <2>4. /\ DOMAIN continuations' = DOMAIN continuations
        /\ \A p \in DOMAIN continuations : continuations'[p] = continuations[p]
    BY <1>1, <1>3 DEF EraseContinuation
  <2>5. Given' = Given /\ Found' = Found /\ Held' = Held
    BY <1>1, <2>3, <2>4 DEF Given, Found, Held
  <2>6. PagesAddUp'
    BY <2>3, <2>5 DEF PagesInv, PagesAddUp
  <2> QED
    BY <1>1, <2>3, <2>4, <2>6 DEF PagesInv, IsPage
<1> QED
  BY <1>2, <1>3

LEMMA ReceiveKeepsPages ==
  ASSUME PagesInv, NEW c \in Calls, Receive(c)
  PROVE  PagesInv'
<1>1. UNCHANGED attached
  BY DEF Receive
<1>2. ASSUME NEW d, ReceiveBrowseNext(c, d) PROVE PagesInv'
  BY <1>1, <1>2, BrowseNextKeepsPages
<1>3. CASE UNCHANGED store
  BY <1>1, <1>3, OthersKeepPages
<1> QED
  BY <1>2, <1>3 DEF Receive, ReceiveUndecodable, ReceiveSessionless, ReceiveUnrouted,
                    ReceiveWithoutSession, ReceiveAttached

LEMMA AnswerBrowseKeepsPages ==
  ASSUME CallsInv, PagesInv, NEW c \in Calls, AnswerBrowse(c)
  PROVE  PagesInv'
<1>1. PICK answer \in BrowseOutcomes :
        /\ OfSession(c)
        /\ StoreBrowseResults(c, answer, RespondTo("Browse", calls[c].request[1], answer),
                              calls[c].request[1].requested_max_references_per_node)
        /\ browsed' = Append(browsed, IF answer.value = <<>> THEN 0
                                      ELSE Len(answer.value[1][1].references))
  BY DEF AnswerBrowse
<1> DEFINE body == RespondTo("Browse", calls[c].request[1], answer)
           max == calls[c].request[1].requested_max_references_per_node
           b == Len(browsed) + 1
<1>2. attached /\ attached' /\ UNCHANGED attached
  BY <1>1 DEF OfSession, AnswerBrowse
<1>3. max \in Nat
  BY DEF CallsInv, CallOk, AnswerBrowse, IsBounded
<1>4. BrowsedBody(body, answer, b)
  <2>1. browsed \in Seq(0 .. MaxReferences)
    BY DEF PagesInv
  <2> QED
    BY <2>1, BrowseBody
<1> HIDE DEF body, max, b
<1>5. CASE body.results = <<>> /\ answer.value = <<>>
  <2>1. ~TooLong(body, max)
    BY <1>5 DEF TooLong
  <2>2. handed' = handed /\ UNCHANGED <<continuations, next_id>> /\ browsed' = Append(browsed, 0)
    BY <1>1, <1>5, <2>1 DEF StoreBrowseResults, body, max
  <2>3. Batch(b, 0, 0) = <<>>
    BY DEF Batch
  <2>4. handed' = handed \o Batch(b, 0, 0)
    BY <2>2, <2>3, ConcatEmptySeq DEF PagesInv
  <2>5. 0 \in 0 .. MaxReferences
    BY ServiceCallsAssumption
  <2> QED
    BY <1>2, <2>2, <2>4, <2>5, WholeKeepsPages DEF b
<1>6. ASSUME NEW n \in 0 .. MaxReferences, BrowsedParts(body, answer, b, n)
      PROVE  PagesInv'
  <2>1. browsed' = Append(browsed, n)
    BY <1>1, <1>6 DEF BrowsedParts
  <2>2. CASE ~TooLong(body, max) \/ Cardinality(DOMAIN continuations) >= kMaxBrowseContinuationPoints
    <3>1. handed' = handed \o Batch(b, 0, n) /\ UNCHANGED <<continuations, next_id>>
      BY <1>1, <1>6, <2>2 DEF StoreBrowseResults, BrowsedParts, body, max
    <3> QED
      BY <1>2, <2>1, <3>1, WholeKeepsPages DEF b
  <2>3. CASE TooLong(body, max) /\ ~(Cardinality(DOMAIN continuations) >= kMaxBrowseContinuationPoints)
    <3>1. max \in 1 .. n
      BY <1>3, <1>6, <2>3 DEF TooLong, BrowsedParts
    <3> DEFINE result == body.results[1]
               rest == Remaining(result, max)
    <3>2. /\ continuations' = (next_id :> rest) @@ continuations
          /\ next_id' = next_id + 1
          /\ handed' = handed \o TargetsOf(Cut(result, max).references)
      BY <1>1, <2>3 DEF StoreBrowseResults, MakeBrowseContinuationPoint, body, max
    <3>3. Cut(result, max).references = SubSeq(result.references, 1, max)
      BY <1>6 DEF Cut, BrowsedParts
    <3>4. handed' = handed \o Batch(b, 0, max)
      BY <1>6, <3>1, <3>2, <3>3 DEF BrowsedParts
    <3>5. TargetsOf(rest) = Batch(b, max, n)
      BY <1>6, <3>1 DEF Remaining, BrowsedParts
    <3> HIDE DEF rest, result
    <3> QED
      BY <1>2, <2>1, <3>1, <3>2, <3>4, <3>5, CutKeepsPages DEF b
  <2> QED
    BY <2>2, <2>3
<1> QED
  BY <1>4, <1>5, <1>6 DEF BrowsedBody

\* Paging neither loses nor repeats a reference, for any number of calls,
\* references, browses and continuation points.
THEOREM PagesAlwaysAddUp == Spec => []PagesAddUp
<1>1. Init => PagesInv
  BY EmptyPages DEF Init
<1>2. ASSUME CallsInv, PagesInv, [Next]_vars PROVE PagesInv'
  <2>1. ASSUME NEW c \in Calls,
               Send(c) \/ Answer(c) \/ AnswerBrowseOfRemoved(c) \/ Deliver(c) \/ Finish(c)
        PROVE  PagesInv'
    BY <1>2, <2>1, OthersKeepPages DEF Send, Answer, AnswerBrowseOfRemoved, Deliver, Finish
  <2>2. CASE RemoveSession
    <3>1. /\ DOMAIN continuations' = {} /\ next_id' \in Nat \ {0}
          /\ browsed' = <<>> /\ handed' = <<>>
      BY <1>2, <2>2 DEF RemoveSession, PagesInv
    <3>2. Given' = {} /\ Held' = {} /\ Found' = {}
      BY <3>1 DEF Given, Held, Found
    <3> QED
      BY <3>1, <3>2 DEF PagesInv, PagesAddUp
  <2>3. CASE NewSession
    <3>1. /\ DOMAIN continuations = {} /\ next_id' = 1 /\ UNCHANGED <<continuations, browsed, handed>>
      BY <1>2, <2>3 DEF NewSession, PagesInv
    <3>2. Given' = Given /\ Held' = Held /\ Found' = Found
      BY <3>1 DEF Given, Held, Found
    <3> QED
      BY <1>2, <3>1, <3>2 DEF PagesInv, PagesAddUp, IsPage
  <2>4. CASE UNCHANGED vars
    BY <1>2, <2>4, OthersKeepPages DEF vars, store
  <2> QED
    BY <1>2, <2>1, <2>2, <2>3, <2>4, ReceiveKeepsPages, AnswerBrowseKeepsPages DEF Next
<1>3. PagesInv => PagesAddUp
  BY DEF PagesInv
<1> QED
  BY <1>1, <1>2, <1>3, CallsInductive, PTL DEF Spec
================================================================================
