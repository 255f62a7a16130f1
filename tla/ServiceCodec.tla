----------------------------- MODULE ServiceCodec -----------------------------
(***************************************************************************)
(* How a service message becomes a message of a transport and is read      *)
(* back: service_codec and ua_service_header for UA Binary, message_codec, *)
(* subscription_message_codec and publish_message_codec for the WebSocket. *)
(*                                                                         *)
(* A wire request is the wire structure of the service (the conversions)   *)
(* with the members of its RequestHeader; a wire response likewise with    *)
(* its request handle.  A decoder that refuses returns no element.  The    *)
(* octets and the JSON text themselves are BinaryCodec and JsonCodec; here *)
(* only what a form carries and what it leaves out.                        *)
(***************************************************************************)
EXTENDS HistoryConversion

DiscoveryServices == {"FindServers", "GetEndpoints", "RegisterServer", "RegisterServer2"}
SessionServices == {"CreateSession", "ActivateSession", "CloseSession"}
\* Services whose bodies the runtime keeps in its own vocabulary.
ManagedSubscriptionServices ==
  {"CreateSubscription", "ModifySubscription", "Publish", "Republish",
   "CreateMonitoredItems", "ModifyMonitoredItems"}
\* Services whose runtime body is already the generated wire structure.
HandlerServices ==
  {"Read", "Write", "Browse", "BrowseNext", "TranslateBrowsePathsToNodeIds", "Call",
   "HistoryRead", "HistoryUpdate", "AddNodes", "DeleteNodes", "AddReferences",
   "DeleteReferences"}
GeneratedServices ==
  HandlerServices
    \cup {"RegisterNodes", "UnregisterNodes", "SetPublishingMode", "DeleteSubscriptions",
          "DeleteMonitoredItems", "SetMonitoringMode", "TransferSubscriptions"}
Services ==
  DiscoveryServices \cup SessionServices \cup ManagedSubscriptionServices \cup GeneratedServices

(***************************************************************************)
(* ua_service_header.  A trace parent is optional; its text is a W3C       *)
(* traceparent or an opaque id.  It travels as extension parameters of the *)
(* request header: verbatim, and as a SpanContext when it has one.         *)
(***************************************************************************)
IsW3CTraceParent(text) == text.form = "w3c"

\* A trace id has two hex digits here and a span id too.  The ids of a
\* traceparent are hex text; a SpanContext has a Guid, whose text is in groups,
\* and a number.
ToGuidText(hex) == <<<<hex[1]>>, <<hex[2]>>>>
ToTraceIdHex(guid) == guid[1] \o guid[2]
ParseSpanId(hex) == 16 * hex[1] + hex[2]
FormatSpanId(span_id) == <<(span_id \div 16) % 16, span_id % 16>>
NullGuid == <<<<0>>, <<0>>>>

TraceParentToSpanContext(text) ==
  IF ~IsW3CTraceParent(text) THEN <<>>
  ELSE LET trace_id == ToGuidText(text.trace)
           span_id == ParseSpanId(text.span)
       IN  IF trace_id = NullGuid \/ span_id = 0 THEN <<>>
           ELSE <<[trace_id |-> trace_id, span_id |-> span_id]>>

\* A span context does not say whether its trace is sampled; it is taken to be.
SpanContextToTraceParent(context) ==
  IF context.trace_id = NullGuid \/ context.span_id = 0 THEN <<>>
  ELSE <<[form |-> "w3c", trace |-> ToTraceIdHex(context.trace_id),
          span |-> FormatSpanId(context.span_id), sampled |-> TRUE]>>

NoParameters == [traceparent |-> <<>>, SpanContext |-> <<>>]

\* The entry of that key is set, and the others stay.
SetAdditionalParameter(parameters, key, value) ==
  IF value = <<>> THEN parameters ELSE [parameters EXCEPT ![key] = value]

\* The envelope is added to the parameters the header has.
ApplyRequestEnvelope(message, token, handle, trace) ==
  LET context == IF trace = <<>> THEN <<>>
                 ELSE Each(TraceParentToSpanContext(trace[1]),
                           LAMBDA c : ToExtensionObject("SpanContextDataType", c))
      named == SetAdditionalParameter(message.parameters, "traceparent", trace)
  IN  [authentication_token |-> token, request_handle |-> handle,
       parameters |-> SetAdditionalParameter(named, "SpanContext", context)] @@ message

GetSpanContextTraceParent(parameters) ==
  IF parameters.SpanContext = <<>> THEN <<>>
  ELSE LET context == FromAnyExtensionObject(parameters.SpanContext[1], "SpanContextDataType")
       IN  IF context = <<>> THEN <<>> ELSE SpanContextToTraceParent(context[1])

\* Defect: the standard's own entry is preferred, though it has no sampling flag.
GetTraceParentFromSpan(parameters) ==
  LET span == GetSpanContextTraceParent(parameters)
  IN  IF span # <<>> THEN span ELSE parameters.traceparent

\* A well-formed traceparent wins, then the SpanContext, then whatever text came.
GetTraceParent(parameters) ==
  LET text == parameters.traceparent
      span == GetSpanContextTraceParent(parameters)
  IN  IF text # <<>> /\ IsW3CTraceParent(text[1]) THEN text
      ELSE IF span # <<>> THEN span ELSE text

MakeResponseHeader(message, handle) == [request_handle |-> handle] @@ message

(***************************************************************************)
(* service_codec: the wire structure of a body, and back.                  *)
(***************************************************************************)
ToWireRequest(service, m) ==
  CASE service = "FindServers"          -> ToWireFindServersRequest(m)
    [] service = "GetEndpoints"         -> ToWireGetEndpointsRequest(m)
    [] service = "RegisterServer"       -> ToWireRegisterServerRequest(m)
    [] service = "RegisterServer2"      -> ToWireRegisterServer2Request(m)
    [] service = "CreateSession"        -> ToWireCreateSessionRequest(m)
    [] service = "ActivateSession"      -> ToWireActivateSessionRequest(m)
    [] service = "CloseSession"         -> ToWireCloseSessionRequest(m)
    [] service = "CreateSubscription"   -> ToWireCreateSubscriptionRequest(m)
    [] service = "ModifySubscription"   -> ToWireModifySubscriptionRequest(m)
    [] service = "Publish"              -> ToWirePublishRequest(m)
    [] service = "Republish"            -> ToWireRepublishRequest(m)
    [] service = "CreateMonitoredItems" -> ToWireCreateItemsRequest(m)
    [] service = "ModifyMonitoredItems" -> ToWireModifyItemsRequest(m)
    [] OTHER                            -> m

\* The notification bodies of the last two arms are JSON only where asked for.
ToWireResponse(service, m, jsonBody) ==
  CASE service = "ServiceFault"         -> [service_result |-> m.status]
    [] service = "FindServers"          -> ToWireFindServersResponse(m)
    [] service = "GetEndpoints"         -> ToWireGetEndpointsResponse(m)
    [] service = "RegisterServer"       -> ToWireRegisterServerResponse(m)
    [] service = "RegisterServer2"      -> ToWireRegisterServer2Response(m)
    [] service = "CreateSession"        -> ToWireCreateSessionResponse(m)
    [] service = "ActivateSession"      -> ToWireActivateSessionResponse(m)
    [] service = "CloseSession"         -> ToWireCloseSessionResponse(m)
    [] service = "CreateSubscription"   -> ToWireCreateSubscriptionResponse(m)
    [] service = "ModifySubscription"   -> ToWireModifySubscriptionResponse(m)
    [] service = "CreateMonitoredItems" -> ToWireCreateItemsResponse(m)
    [] service = "ModifyMonitoredItems" -> ToWireModifyItemsResponse(m)
    [] service = "Publish"              -> ToWirePublishResponse(m, jsonBody)
    [] service = "Republish"            -> ToWireRepublishResponse(m, jsonBody)
    [] OTHER                            -> m

WithoutHeader(w) ==
  Carry(w, DOMAIN w \ {"authentication_token", "request_handle", "parameters"})

DecodeDiscoveryRequest(service, w) ==
  CASE service = "FindServers"    -> <<ToManagedFindServersRequest(w)>>
    [] service = "GetEndpoints"   -> <<ToManagedGetEndpointsRequest(w)>>
    [] service = "RegisterServer" -> <<ToManagedRegisterServerRequest(w)>>
    [] OTHER                      -> <<ToManagedRegisterServer2Request(w)>>

DecodeCreateSessionRequest(w) == <<ToManagedCreateSessionRequest(w)>>

DecodeSessionRequest(service, w) ==
  CASE service = "CreateSession"   -> DecodeCreateSessionRequest(w)
    [] service = "ActivateSession" -> ToManagedActivateSessionRequest(w)
    [] OTHER                       -> <<ToManagedCloseSessionRequest(w)>>

DecodeSubscriptionRequest(service, w) ==
  CASE service = "CreateSubscription" -> <<ToManagedCreateSubscriptionRequest(w)>>
    [] OTHER                          -> <<ToManagedModifySubscriptionRequest(w)>>

MonitoringModes == {"Disabled", "Sampling", "Reporting"}
ValidTimestampsToReturn(value) == value \in TimestampsToReturn
ValidMonitoringMode(value) == value \in MonitoringModes

\* Only the Binary decoder looks at the timestamps and the modes.
DecodeItemsRequest(service, w) ==
  CASE ~ValidTimestampsToReturn(w.timestamps_to_return) -> <<>>
    [] /\ service = "CreateMonitoredItems"
       /\ \E i \in DOMAIN w.items_to_create :
            ~ValidMonitoringMode(w.items_to_create[i].monitoring_mode) -> <<>>
    [] service = "CreateMonitoredItems" -> <<ToManagedCreateItemsRequest(w)>>
    [] OTHER                            -> <<ToManagedModifyItemsRequest(w)>>

DecodePublishRequest(service, w) ==
  CASE service = "Publish" -> <<ToManagedPublishRequest(w)>>
    [] OTHER               -> <<ToManagedRepublishRequest(w)>>

DecodeGeneratedRequest(w) == <<WithoutHeader(w)>>

\* RegisterNodes and UnregisterNodes are decoded by functions of their own, to
\* the same effect.
DecodeRegisterNodesRequest(w) == <<WithoutHeader(w)>>

DecodeRequestBody(service, w) ==
  CASE service \in DiscoveryServices -> DecodeDiscoveryRequest(service, w)
    [] service \in SessionServices -> DecodeSessionRequest(service, w)
    [] service \in {"CreateSubscription", "ModifySubscription"} ->
         DecodeSubscriptionRequest(service, w)
    [] service \in {"CreateMonitoredItems", "ModifyMonitoredItems"} ->
         DecodeItemsRequest(service, w)
    [] service \in {"Publish", "Republish"} -> DecodePublishRequest(service, w)
    [] service \in {"RegisterNodes", "UnregisterNodes"} -> DecodeRegisterNodesRequest(w)
    [] service \in GeneratedServices -> DecodeGeneratedRequest(w)
    [] OTHER -> <<>>

\* No body brings parameters of its own, whatever the comment here says of Write.
EncodeServiceRequest(token, handle, trace, service, m) ==
  [service |-> service,
   body |-> ApplyRequestEnvelope([parameters |-> NoParameters] @@ ToWireRequest(service, m),
                                 token, handle, trace)]

\* Decoded: the header the runtime uses and the body in its vocabulary.
DecodeServiceRequest(wire) ==
  Each(DecodeRequestBody(wire.service, wire.body),
       LAMBDA m : [authentication_token |-> wire.body.authentication_token,
                   request_handle |-> wire.body.request_handle,
                   trace_parent |-> GetTraceParent(wire.body.parameters),
                   service |-> wire.service, body |-> m])

\* The first parameter named traceparent; any other entry, and a header that
\* cannot be read, is no trace.
ReadTraceParentFromAdditionalHeader(parameters) == parameters.traceparent

\* The header on its own; of the trace it knows the text only.
ReadRequestHeader(w) ==
  [authentication_token |-> w.authentication_token, request_handle |-> w.request_handle,
   trace_parent |-> ReadTraceParentFromAdditionalHeader(w.parameters)]

\* The handle can be read from a message whose service cannot.
DecodeRequestHandle(wire) == <<ReadRequestHeader(wire.body).request_handle>>

EncodeServiceResponse(handle, service, m) ==
  [service |-> service, body |-> MakeResponseHeader(ToWireResponse(service, m, FALSE), handle)]

DecodeDiscoveryResponse(service, w) ==
  CASE service = "FindServers"    -> ToManagedFindServersResponse(w)
    [] service = "GetEndpoints"   -> ToManagedGetEndpointsResponse(w)
    [] service = "RegisterServer" -> ToManagedRegisterServerResponse(w)
    [] OTHER                      -> ToManagedRegisterServer2Response(w)

DecodeSessionResponse(service, w) ==
  CASE service = "CreateSession"   -> ToManagedCreateSessionResponse(w)
    [] service = "ActivateSession" -> ToManagedActivateSessionResponse(w)
    [] OTHER                       -> ToManagedCloseSessionResponse(w)

ReadResponseHeader(w) ==
  [request_handle |-> w.request_handle, service_result |-> w.service_result]

DecodeServiceFault(w) == [status |-> ReadResponseHeader(w).service_result]

DecodeSubscriptionResponse(service, w) ==
  CASE service = "CreateSubscription"   -> ToManagedCreateSubscriptionResponse(w)
    [] service = "ModifySubscription"   -> ToManagedModifySubscriptionResponse(w)
    [] service = "CreateMonitoredItems" -> ToManagedCreateItemsResponse(w)
    [] service = "ModifyMonitoredItems" -> ToManagedModifyItemsResponse(w)
    [] service = "Publish"              -> ToManagedPublishResponse(w)
    [] OTHER                            -> ToManagedRepublishResponse(w)

DecodeGeneratedResponse(w) == WithoutHeader(w)

DecodeServiceResponse(wire) ==
  [request_handle |-> wire.body.request_handle, service |-> wire.service,
   body |-> CASE wire.service \in DiscoveryServices -> DecodeDiscoveryResponse(wire.service, wire.body)
              [] wire.service \in SessionServices -> DecodeSessionResponse(wire.service, wire.body)
              [] wire.service \in ManagedSubscriptionServices ->
                   DecodeSubscriptionResponse(wire.service, wire.body)
              [] wire.service = "ServiceFault" -> DecodeServiceFault(wire.body)
              [] OTHER -> DecodeGeneratedResponse(wire.body)]

(***************************************************************************)
(* message_codec: the JSON envelope names the service and the handle; the  *)
(* body is the wire structure, whose header carries the token only where   *)
(* the session is named by it, and no trace.                               *)
(***************************************************************************)
TranscodeBodyToJson(x, types) ==
  IF x.type \in types /\ FromExtensionObject(x, x.type) # <<>>
    THEN ToJsonExtensionObject(x.type, x.body[1]) ELSE x

WithJsonHistoryRead(m) ==
  [m EXCEPT !.history_read_details =
     TranscodeBodyToJson(@, {"ReadRawModifiedDetails", "ReadProcessedDetails", "ReadEventDetails"})]
WithJsonHistoryUpdate(m) ==
  [m EXCEPT !.history_update_details =
     Each(@, LAMBDA x : TranscodeBodyToJson(x, {"UpdateDataDetails", "UpdateEventDetails"}))]
WithJsonHistoryResults(m) ==
  [m EXCEPT !.results =
     Each(@, LAMBDA r : [r EXCEPT !.history_data = TranscodeBodyToJson(@, {"HistoryData", "HistoryEvent"})])]

\* These services have no JSON form: the message names none and has no body.
BinaryOnly == {"RegisterServer", "RegisterServer2", "RegisterNodes", "UnregisterNodes"}
Unsupported(handle) == [service |-> "Unsupported", request_handle |-> handle]

\* The services that the two other files of the codec encode and decode.
JsonSubscriptionServices ==
  {"CreateSubscription", "ModifySubscription", "SetPublishingMode", "DeleteSubscriptions"}
JsonPublishServices == {"Publish", "Republish", "TransferSubscriptions"}
JsonItemsServices ==
  {"CreateMonitoredItems", "ModifyMonitoredItems", "DeleteMonitoredItems", "SetMonitoringMode"}

\* A member that must be there, and that only.
RequireField(json, key) == IF key \in DOMAIN json THEN <<json[key]>> ELSE <<>>

\* A status is written as its number, and read from that or from an object
\* with the number under a name.
EncodeStatus(status) == <<"number", status>>
DecodeStatus(json) ==
  IF json[1] = "number" THEN <<json[2]>> ELSE Each(RequireField(json[2], "fullCode"), LAMBDA n : n[2])

\* Each service has four functions: its request and its response are encoded
\* (step "EncodeRequest", "EncodeResponse") and decoded ("DecodeRequest",
\* "DecodeResponse").  An encoder gives the wire structure, a decoder the body
\* in the runtime's vocabulary, or no element.

\* The session is named inside the body, the way the binary header names it.
JsonSessionMessage(service, step, x) ==
  CASE step = "EncodeRequest" /\ service = "CreateSession" -> ToWireCreateSessionRequest(x)
    [] step = "EncodeRequest" ->
         [authentication_token |-> x.authentication_token] @@ ToWireRequest(service, x)
    [] step = "DecodeRequest" -> DecodeSessionRequest(service, x)
    [] step = "EncodeResponse" -> ToWireResponse(service, x, FALSE)
    [] step = "DecodeResponse" -> <<DecodeSessionResponse(service, x)>>

JsonDiscoveryMessage(service, step, x) ==
  CASE step = "EncodeRequest" -> ToWireRequest(service, x)
    [] step = "DecodeRequest" -> DecodeDiscoveryRequest(service, x)
    [] step = "EncodeResponse" -> ToWireResponse(service, x, FALSE)
    [] step = "DecodeResponse" -> <<DecodeDiscoveryResponse(service, x)>>

\* CreateSubscription and ModifySubscription are converted; SetPublishingMode
\* and DeleteSubscriptions are wire structures already.
JsonSubscriptionMessage(service, step, x) ==
  CASE service \in GeneratedServices ->
         IF step \in {"EncodeRequest", "EncodeResponse"} THEN x ELSE <<WithoutHeader(x)>>
    [] step = "EncodeRequest" -> ToWireRequest(service, x)
    [] step = "DecodeRequest" -> DecodeSubscriptionRequest(service, x)
    [] step = "EncodeResponse" -> ToWireResponse(service, x, FALSE)
    [] step = "DecodeResponse" -> <<DecodeSubscriptionResponse(service, x)>>

\* The same for CreateMonitoredItems and ModifyMonitoredItems, DeleteMonitoredItems
\* and SetMonitoringMode.  Nothing is validated: any timestamps and modes pass.
JsonItemsMessage(service, step, x) ==
  CASE service \in GeneratedServices ->
         IF step \in {"EncodeRequest", "EncodeResponse"} THEN x ELSE <<WithoutHeader(x)>>
    [] step = "EncodeRequest" -> ToWireRequest(service, x)
    [] step = "DecodeRequest" -> <<IF service = "CreateMonitoredItems"
                                   THEN ToManagedCreateItemsRequest(x)
                                   ELSE ToManagedModifyItemsRequest(x)>>
    [] step = "EncodeResponse" -> ToWireResponse(service, x, FALSE)
    [] step = "DecodeResponse" -> <<DecodeSubscriptionResponse(service, x)>>

\* Publish asks for JSON notification bodies, Republish does not;
\* TransferSubscriptions is a wire structure already.
JsonPublishMessage(service, step, x) ==
  CASE service = "TransferSubscriptions" ->
         IF step \in {"EncodeRequest", "EncodeResponse"} THEN x ELSE <<WithoutHeader(x)>>
    [] step = "EncodeRequest" -> ToWireRequest(service, x)
    [] step = "DecodeRequest" -> DecodePublishRequest(service, x)
    [] step = "EncodeResponse" -> ToWireResponse(service, x, service = "Publish")
    [] step = "DecodeResponse" -> <<DecodeSubscriptionResponse(service, x)>>

JsonServiceFault(step, x) ==
  IF step = "EncodeResponse" THEN [Status |-> EncodeStatus(x.status)]
  ELSE Each(DecodeStatus(x.Status), LAMBDA status : [status |-> status])

\* ServiceRequest and ServiceResponse: history bodies are written as JSON, and
\* a service that is none of theirs is refused.
JsonServiceMessage(service, step, x) ==
  CASE step = "EncodeRequest" /\ service = "HistoryRead" -> WithJsonHistoryRead(x)
    [] step = "EncodeRequest" /\ service = "HistoryUpdate" -> WithJsonHistoryUpdate(x)
    [] step = "EncodeResponse" /\ service = "HistoryRead" -> WithJsonHistoryResults(x)
    [] step \in {"DecodeRequest", "DecodeResponse"} ->
         IF service \in HandlerServices THEN <<WithoutHeader(x)>> ELSE <<>>
    [] OTHER -> x

JsonBody(service, step, x) ==
  CASE service \in SessionServices    -> JsonSessionMessage(service, step, x)
    [] service \in DiscoveryServices  -> JsonDiscoveryMessage(service, step, x)
    [] service \in JsonSubscriptionServices -> JsonSubscriptionMessage(service, step, x)
    [] service \in JsonItemsServices  -> JsonItemsMessage(service, step, x)
    [] service \in JsonPublishServices -> JsonPublishMessage(service, step, x)
    [] service = "ServiceFault"       -> JsonServiceFault(step, x)
    [] OTHER                          -> JsonServiceMessage(service, step, x)

\* No token of its own and no trace: the peer may add them.
EncodeJsonRequest(handle, service, m) ==
  IF service \in BinaryOnly THEN Unsupported(handle)
  ELSE [service |-> service, request_handle |-> handle,
        body |-> JsonBody(service, "EncodeRequest", m)
                   @@ [authentication_token |-> [id |-> "", numeric |-> TRUE],
                       request_handle |-> 0, parameters |-> NoParameters]]

EncodeJsonResponse(handle, service, m) ==
  IF service \in BinaryOnly THEN Unsupported(handle)
  ELSE [service |-> service, request_handle |-> handle,
        body |-> JsonBody(service, "EncodeResponse", m)]

\* Best effort: a header that cannot be read has no trace.
ReadTraceParent(w) == GetTraceParent(w.parameters)

\* What the runtime is given of a message.
RequestMessage(wire, m) ==
  [request_handle |-> wire.request_handle, trace_parent |-> ReadTraceParent(wire.body),
   service |-> wire.service, body |-> m]
ResponseMessage(wire, m) ==
  [request_handle |-> wire.request_handle, service |-> wire.service, body |-> m]

\* A message without a body, or of a service without a JSON form, is refused.
DecodeRequestMessage(wire) ==
  LET body == RequireField(wire, "body")
  IN  IF body = <<>> \/ wire.service \in BinaryOnly THEN <<>>
      ELSE Each(JsonBody(wire.service, "DecodeRequest", body[1]), LAMBDA m : RequestMessage(wire, m))

DecodeResponseMessage(wire) ==
  LET body == RequireField(wire, "body")
  IN  IF body = <<>> \/ wire.service \in BinaryOnly THEN <<>>
      ELSE Each(JsonBody(wire.service, "DecodeResponse", body[1]), LAMBDA m : ResponseMessage(wire, m))
================================================================================
