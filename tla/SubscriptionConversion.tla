------------------------ MODULE SubscriptionConversion ------------------------
(***************************************************************************)
(* The bridge between the subscription and history vocabulary of the       *)
(* runtime and the wire: subscription_conversion, history_conversion, and  *)
(* the event fields and event filters of events/event_filter that both     *)
(* carry.  Records, sequences and optionals as in SessionConversion; a     *)
(* Variant is a pair of its type and its value.                            *)
(***************************************************************************)
EXTENDS SessionConversion, Integers

NullVariant == <<"Null">>

(***************************************************************************)
(* Event fields: each selectable field is a member of an Event and travels *)
(* as a Variant of one type.                                               *)
(***************************************************************************)
EventMember ==
  [EventId |-> "event_id", EventType |-> "event_type_id", SourceNode |-> "source_node_id",
   SourceName |-> "source_name", Time |-> "time", ReceiveTime |-> "receive_time",
   Message |-> "message", Severity |-> "severity", Value |-> "value",
   Quality |-> "qualifier", ChangeMask |-> "change_mask", UserId |-> "user_id",
   AckedState |-> "acked", AckedTime |-> "acknowledged_time",
   AckedUserId |-> "acknowledged_user_id"]

DefaultEventFieldPaths ==
  <<<<"EventId">>, <<"EventType">>, <<"SourceNode">>, <<"SourceName">>, <<"Time">>,
    <<"ReceiveTime">>, <<"Message">>, <<"Severity">>, <<"Value">>, <<"Quality">>,
    <<"ChangeMask">>, <<"UserId">>, <<"AckedState">>, <<"AckedTime">>, <<"AckedUserId">>>>

\* The types a field travels in; the second is what older peers send.
EventFieldTypes ==
  [EventType |-> {"NodeId"}, SourceNode |-> {"NodeId"}, SourceName |-> {"String"},
   Time |-> {"DateTime"}, ReceiveTime |-> {"DateTime"}, Message |-> {"LocalizedText"},
   Severity |-> {"UInt16", "UInt32"}, Quality |-> {"UInt32"}, ChangeMask |-> {"UInt32"},
   UserId |-> {"NodeId"}, AckedTime |-> {"DateTime"}, AckedUserId |-> {"NodeId"},
   EventId |-> {"UInt64"}]

\* A path is the sequence of its segments; only the last names the field.
Leaf(path) == path[Len(path)]
NormalizeEventFieldPaths(paths) == IF paths = <<>> THEN DefaultEventFieldPaths ELSE paths

\* Eight octets, the most significant first.
EncodeEventIdByteString(id) ==
  LET shifted[n \in 0 .. 7] == IF n = 0 THEN id ELSE shifted[n - 1] \div 256
  IN  [i \in 1 .. 8 |-> shifted[8 - i] % 256]

DecodeEventIdByteString(bytes) ==
  LET read[n \in 0 .. 8] == IF n = 0 THEN 0 ELSE read[n - 1] * 256 + bytes[n]
  IN  IF Len(bytes) = 8 THEN <<read[8]>> ELSE <<>>

\* The text of a node id, and the node id of a text; "" is the null id.
Text(node) == <<"text", node>>
FromText(text) == IF text[1] = "text" THEN text[2] ELSE ""

ProjectEventField(name, event) ==
  CASE name = "EventId" -> <<"ByteString", EncodeEventIdByteString(event.event_id)>>
    [] name = "SourceName" /\ event.source_name = "" /\ event.source_node_id # "" ->
         <<"String", Text(event.source_node_id)>>
    [] name = "Severity" -> <<"UInt16", event.severity % 2^16>>
    [] name = "Value" -> event.value
    [] name = "AckedState" -> <<"Boolean", event.acked>>
    [] name \notin DOMAIN EventMember -> NullVariant
    [] OTHER -> <<CHOOSE t \in EventFieldTypes[name] : TRUE, event[EventMember[name]]>>

ProjectEventFields(paths, event) ==
  Each(paths, LAMBDA path : IF path = <<>> THEN NullVariant
                            ELSE ProjectEventField(Leaf(path), event))

DefaultEvent ==
  [event_id |-> 0, event_type_id |-> "SystemEventType", source_node_id |-> "", source_name |-> "",
   time |-> "", receive_time |-> "", message |-> "", severity |-> 500,
   value |-> NullVariant, qualifier |-> 0, change_mask |-> 0, user_id |-> "",
   acked |-> FALSE, acknowledged_time |-> "", acknowledged_user_id |-> ""]

\* Variant::get of a Boolean: any number will do.
NumericTypes ==
  {"SByte", "Byte", "Int16", "UInt16", "Int32", "UInt32", "Int64", "UInt64", "Double"}
AsBoolean(v) ==
  CASE v[1] = "Boolean" -> <<v[2]>>
    [] v[1] \in NumericTypes -> <<v[2] # 0>>
    [] OTHER -> <<>>

\* What the member becomes that a field names; nothing if it cannot be read.
EventFieldValue(name, field) ==
  CASE name = "Value" -> <<field>>
    [] name = "AckedState" -> AsBoolean(field)
    [] name = "EventId" /\ field[1] = "ByteString" -> DecodeEventIdByteString(field[2])
    [] name \in DOMAIN EventFieldTypes /\ field[1] \in EventFieldTypes[name] -> <<field[2]>>
    [] OTHER -> <<>>

\* A later path to the same member overwrites an earlier one.
ReconstructEventFromFields(paths, fields) ==
  LET count == IF Len(paths) < Len(fields) THEN Len(paths) ELSE Len(fields)
      event[n \in 0 .. count] ==
        IF n = 0 THEN DefaultEvent
        ELSE IF paths[n] = <<>> THEN event[n - 1]
        ELSE LET name == Leaf(paths[n])
                 value == EventFieldValue(name, fields[n])
             IN  IF value = <<>> THEN event[n - 1]
                 ELSE [event[n - 1] EXCEPT ![EventMember[name]] = value[1]]
  IN  event[count]

(***************************************************************************)
(* Event filters.  A JSON value is a pair of its kind and its content: the *)
(* members of an object, the elements of an array, a string or a number.   *)
(***************************************************************************)
Object(members) == <<"object", members>>
Array(elements) == <<"array", elements>>
String(s) == <<"string", s>>
Number(n) == <<"number", n>>

\* The content of a member of that kind, if there is one.
Member(json, key, kind) ==
  IF json[1] = "object" /\ key \in DOMAIN json[2] /\ json[2][key][1] = kind
    THEN <<json[2][key][2]>>
    ELSE <<>>
OfKind(elements, kind) == Each(SelectSeq(elements, LAMBDA e : e[1] = kind), LAMBDA e : e[2])
Elements(json, key) == IF Member(json, key, "array") = <<>> THEN <<>> ELSE Member(json, key, "array")[1]

\* The select clauses, in the body if there is one; names that are missing and
\* paths without any are skipped.
ParseEventFilterFieldPaths(raw) ==
  LET body == Member(raw, "Body", "object")
      current == IF body = <<>> THEN raw ELSE Object(body[1])
      Name(segment) == Member(segment, "Name", "string")
      Path(clause) == Each(SelectSeq(Elements(clause, "BrowsePath"), LAMBDA s : Name(s) # <<>>),
                           LAMBDA s : Name(s)[1])
  IN  NormalizeEventFieldPaths(
        SelectSeq(Each(Elements(current, "SelectClauses"), Path), LAMBDA p : p # <<>>))

BuildEventFilter(paths) ==
  LET Segment(s) == Object([Name |-> String(s)])
      Clause(path) == Object([BrowsePath |-> Array(Each(path, Segment))])
  IN  Object([Type |-> String("EventFilter"),
              Body |-> Object([SelectClauses |-> Array(Each(NormalizeEventFieldPaths(paths), Clause))])])

\* The bits of EventFilter::types.
ACKED == 1
UNACKED == 2
Has(types, bit) == (types \div bit) % 2 = 1

ToSelectClause(path) ==
  [type_definition_id |-> "BaseEventType",
   browse_path |-> Each(path, LAMBDA s : [name |-> s, namespace_index |-> 0]),
   attribute_id |-> "Value"]

Literal(v) == ToExtensionObject("LiteralOperand", v)

ToWhereClauseElement(operator, node) ==
  [filter_operator |-> operator, filter_operands |-> <<Literal(<<"NodeId", node>>)>>]

ToAckedClause(acked) ==
  [filter_operator |-> "Equals",
   filter_operands |-> <<ToExtensionObject("SimpleAttributeOperand", ToSelectClause(<<"AckedState">>)),
                         Literal(<<"Boolean", acked>>)>>]

ToUaEventFilter(paths, filter) ==
  [select_clauses |-> Each(paths, ToSelectClause),
   where_clause |->
     Each(filter.of_type, LAMBDA n : ToWhereClauseElement("OfType", n))
       \o Each(filter.child_of, LAMBDA n : ToWhereClauseElement("RelatedTo", n))
       \o (IF Has(filter.types, ACKED) THEN <<ToAckedClause(TRUE)>> ELSE <<>>)
       \o (IF Has(filter.types, UNACKED) THEN <<ToAckedClause(FALSE)>> ELSE <<>>)]

\* subscription_conversion takes the paths and the filter from the blob.
BlobToUaEventFilter(json) ==
  LET Ids(key) == Each(OfKind(Elements(json, key), "string"), FromText)
      types == Member(json, "types", "number")
  IN  ToUaEventFilter(ParseEventFilterFieldPaths(json),
        [of_type |-> Ids("of_type"), child_of |-> Ids("child_of"),
         types |-> IF types = <<>> THEN 0 ELSE types[1]])

\* `forms' are the encodings in which an operand's body is read:
\* history_conversion takes both, subscription_conversion Binary only.
FromOperand(x, type, forms) ==
  IF x.form \in forms THEN FromAnyExtensionObject(x, type) ELSE <<>>

OperandNodeId(x, forms) ==
  SelectSeq(FromOperand(x, "LiteralOperand", forms), LAMBDA v : v[1] = "NodeId")

OperandBool(x, forms) ==
  SelectSeq(FromOperand(x, "LiteralOperand", forms), LAMBDA v : v[1] = "Boolean")

OperandLeaf(x, forms) ==
  Each(SelectSeq(FromOperand(x, "SimpleAttributeOperand", forms), LAMBDA o : o.browse_path # <<>>),
       LAMBDA o : Leaf(o.browse_path).name)

\* Elements of another operator or shape select nothing and are ignored.
NodesOf(elements, operator, forms) ==
  LET Selected(e) == /\ e.filter_operator = operator
                     /\ Len(e.filter_operands) = 1
                     /\ OperandNodeId(e.filter_operands[1], forms) # <<>>
  IN  Each(SelectSeq(elements, Selected),
           LAMBDA e : OperandNodeId(e.filter_operands[1], forms)[1][2])

AckedOf(elements, forms) ==
  LET Says(operands, i, acked) ==
        /\ OperandLeaf(operands[i], forms) = <<"AckedState">>
        /\ OperandBool(operands[3 - i], forms) = <<<<"Boolean", acked>>>>
      Selected(acked) == \E k \in DOMAIN elements :
                           /\ elements[k].filter_operator = "Equals"
                           /\ Len(elements[k].filter_operands) = 2
                           /\ \E i \in 1 .. 2 : Says(elements[k].filter_operands, i, acked)
  IN  (IF Selected(TRUE) THEN ACKED ELSE 0) + (IF Selected(FALSE) THEN UNACKED ELSE 0)

SelectedPaths(wire) == Each(wire.select_clauses, LAMBDA c : Each(c.browse_path, LAMBDA q : q.name))
Where(wire, forms) ==
  [of_type |-> NodesOf(wire.where_clause, "OfType", forms),
   child_of |-> NodesOf(wire.where_clause, "RelatedTo", forms),
   types |-> AckedOf(wire.where_clause, forms)]

ToManagedEventFilter(wire) == Where(wire, {"binary", "json"})

ToJsonEventFilter(wire) ==
  LET where == Where(wire, {"binary"})
      Texts(nodes) == Array(Each(nodes, LAMBDA n : String(Text(n))))
  IN  Object(BuildEventFilter(SelectedPaths(wire))[2]
               @@ "_scada" :> String("event")
               @@ [types |-> Number(where.types), of_type |-> Texts(where.of_type),
                   child_of |-> Texts(where.child_of)])

(***************************************************************************)
(* Monitored items                                                         *)
(***************************************************************************)
DataChangeFilterFields == {"trigger", "deadband_type", "deadband_value"}

\* A filter is an optional pair: <<"DataChange", filter>> or <<"Event", blob>>.
FilterToExtensionObject(filter) ==
  CASE filter = <<>> -> NoExtension
    [] filter # <<>> /\ filter[1][1] = "DataChange" ->
         ToExtensionObject("DataChangeFilter", Carry(filter[1][2], DataChangeFilterFields))
    [] OTHER -> ToExtensionObject("EventFilter", BlobToUaEventFilter(filter[1][2]))

\* The JSON body must be named by its DefaultJson id.
JsonNamed(x, type) == IF x.id = "json" THEN FromJsonExtensionObject(x, type) ELSE <<>>

FilterFromExtensionObject(x) ==
  Each(FromExtensionObject(x, "DataChangeFilter") \o JsonNamed(x, "DataChangeFilter"),
       LAMBDA f : <<"DataChange", Carry(f, DataChangeFilterFields)>>)
    \o Each(FromExtensionObject(x, "EventFilter") \o JsonNamed(x, "EventFilter"),
            LAMBDA f : <<"Event", ToJsonEventFilter(f)>>)

FilterResultToExtensionObject(result) ==
  IF result = <<>> THEN NoExtension ELSE ToJsonExtensionObject("EventFilterResult", result[1])
FilterResultFromExtensionObject(x) == IF x.form = "json" THEN x.body ELSE <<>>

ToUaParameters(m) ==
  [sampling_interval |-> m.sampling_interval_ms, filter |-> FilterToExtensionObject(m.filter)]
    @@ Carry(m, {"client_handle", "queue_size", "discard_oldest"})
FromUaParameters(w) ==
  [sampling_interval_ms |-> w.sampling_interval, filter |-> FilterFromExtensionObject(w.filter)]
    @@ Carry(w, {"client_handle", "queue_size", "discard_oldest"})

\* The wire keeps the index range inside the ReadValueId, empty when absent.
ToUaReadValueId(item, range) ==
  [node_id |-> item.node_id, attribute_id |-> item.attribute_id,
   index_range |-> IF range = <<>> THEN "" ELSE range[1]]
ToUaCreateItem(m) ==
  [item_to_monitor |-> ToUaReadValueId(m.item_to_monitor, m.index_range),
   monitoring_mode |-> m.monitoring_mode,
   requested_parameters |-> ToUaParameters(m.requested_parameters)]
\* Defect: the index range stays behind in the ReadValueId.
FromUaCreateItemWhole(w) ==
  [item_to_monitor |-> Carry(w.item_to_monitor, {"node_id", "attribute_id"}),
   index_range |-> <<>>,
   monitoring_mode |-> w.monitoring_mode,
   requested_parameters |-> FromUaParameters(w.requested_parameters)]

FromUaCreateItem(w) ==
  [item_to_monitor |-> Carry(w.item_to_monitor, {"node_id", "attribute_id"}),
   index_range |-> IF w.item_to_monitor.index_range = "" THEN <<>>
                   ELSE <<w.item_to_monitor.index_range>>,
   monitoring_mode |-> w.monitoring_mode,
   requested_parameters |-> FromUaParameters(w.requested_parameters)]

ToUaCreateResult(m) ==
  [status_code |-> m.status, monitored_item_id |-> m.monitored_item_id,
   revised_sampling_interval |-> m.revised_sampling_interval_ms,
   revised_queue_size |-> m.revised_queue_size,
   filter_result |-> FilterResultToExtensionObject(m.filter_result)]
FromUaCreateResult(w) ==
  [status |-> w.status_code, monitored_item_id |-> w.monitored_item_id,
   revised_sampling_interval_ms |-> w.revised_sampling_interval,
   revised_queue_size |-> w.revised_queue_size,
   filter_result |-> FilterResultFromExtensionObject(w.filter_result)]

ToUaModifyItem(m) ==
  [monitored_item_id |-> m.monitored_item_id,
   requested_parameters |-> ToUaParameters(m.requested_parameters)]
FromUaModifyItem(w) ==
  [monitored_item_id |-> w.monitored_item_id,
   requested_parameters |-> FromUaParameters(w.requested_parameters)]

ToUaModifyResult(m) ==
  [status_code |-> m.status, revised_sampling_interval |-> m.revised_sampling_interval_ms,
   revised_queue_size |-> m.revised_queue_size,
   filter_result |-> FilterResultToExtensionObject(m.filter_result)]
FromUaModifyResult(w) ==
  [status |-> w.status_code, revised_sampling_interval_ms |-> w.revised_sampling_interval,
   revised_queue_size |-> w.revised_queue_size,
   filter_result |-> FilterResultFromExtensionObject(w.filter_result)]

ItemsRequest(r, list, Op(_)) ==
  Carry(r, {"subscription_id", "timestamps_to_return"}) @@ (list :> Each(r[list], Op))
ToWireCreateItemsRequest(m) == ItemsRequest(m, "items_to_create", ToUaCreateItem)
ToManagedCreateItemsRequest(w) == ItemsRequest(w, "items_to_create", FromUaCreateItem)
ToWireModifyItemsRequest(m) == ItemsRequest(m, "items_to_modify", ToUaModifyItem)
ToManagedModifyItemsRequest(w) == ItemsRequest(w, "items_to_modify", FromUaModifyItem)

ToWireCreateItemsResponse(m) ==
  [service_result |-> m.status, results |-> Each(m.results, ToUaCreateResult)]
ToManagedCreateItemsResponse(w) ==
  [status |-> w.service_result, results |-> Each(w.results, FromUaCreateResult)]
ToWireModifyItemsResponse(m) ==
  [service_result |-> m.status, results |-> Each(m.results, ToUaModifyResult)]
ToManagedModifyItemsResponse(w) ==
  [status |-> w.service_result, results |-> Each(w.results, FromUaModifyResult)]

(***************************************************************************)
(* Subscriptions                                                           *)
(***************************************************************************)
ToWireParameters(p) ==
  [requested_publishing_interval |-> p.publishing_interval_ms,
   requested_lifetime_count |-> p.lifetime_count,
   requested_max_keep_alive_count |-> p.max_keep_alive_count,
   max_notifications_per_publish |-> p.max_notifications_per_publish,
   priority |-> p.priority]
ToManagedParameters(w) ==
  [publishing_interval_ms |-> w.requested_publishing_interval,
   lifetime_count |-> w.requested_lifetime_count,
   max_keep_alive_count |-> w.requested_max_keep_alive_count,
   max_notifications_per_publish |-> w.max_notifications_per_publish,
   priority |-> w.priority]

ToWireCreateSubscriptionRequest(m) ==
  ToWireParameters(m.parameters) @@ [publishing_enabled |-> m.parameters.publishing_enabled]
ToManagedCreateSubscriptionRequest(w) ==
  [parameters |-> ToManagedParameters(w) @@ [publishing_enabled |-> w.publishing_enabled]]

\* The wire says nothing about publishing; the member keeps its default, TRUE.
ToWireModifySubscriptionRequest(m) ==
  ToWireParameters(m.parameters) @@ [subscription_id |-> m.subscription_id]
ToManagedModifySubscriptionRequest(w) ==
  [subscription_id |-> w.subscription_id,
   parameters |-> ToManagedParameters(w) @@ [publishing_enabled |-> TRUE]]

RevisedToWire(m) ==
  [service_result |-> m.status,
   revised_publishing_interval |-> m.revised_publishing_interval_ms,
   revised_lifetime_count |-> m.revised_lifetime_count,
   revised_max_keep_alive_count |-> m.revised_max_keep_alive_count]
RevisedToManaged(w) ==
  [status |-> w.service_result,
   revised_publishing_interval_ms |-> w.revised_publishing_interval,
   revised_lifetime_count |-> w.revised_lifetime_count,
   revised_max_keep_alive_count |-> w.revised_max_keep_alive_count]
ToWireCreateSubscriptionResponse(m) == RevisedToWire(m) @@ [subscription_id |-> m.subscription_id]
ToManagedCreateSubscriptionResponse(w) == RevisedToManaged(w) @@ [subscription_id |-> w.subscription_id]
ToWireModifySubscriptionResponse(m) == RevisedToWire(m)
ToManagedModifySubscriptionResponse(w) == RevisedToManaged(w)

(***************************************************************************)
(* Publish and Republish.  A notification is a pair of its kind and its    *)
(* content: the items, the events, or the status of the subscription.      *)
(***************************************************************************)
NotificationTypes == {"DataChangeNotification", "EventNotificationList", "StatusChangeNotification"}

\* Items and events are converted one by one; a status loses its info bits.
NotificationBody(type, content) ==
  CASE type = "DataChangeNotification" -> Each(content, LAMBDA i : Carry(i, {"client_handle", "value"}))
    [] type = "EventNotificationList" -> Each(content, LAMBDA e : Carry(e, {"client_handle", "event_fields"}))
    [] OTHER -> CodeOf(content)

WrapNotification(type, body, jsonBody) ==
  IF jsonBody THEN ToJsonExtensionObject(type, body) ELSE ToExtensionObject(type, body)

NotificationToExtensionObject(n, jsonBody) ==
  WrapNotification(n[1], NotificationBody(n[1], n[2]), jsonBody)

\* Nothing when the type is not a notification or the body cannot be read.
NotificationFromExtensionObject(x) ==
  IF x.type \in NotificationTypes
    THEN Each(FromExtensionObject(x, x.type) \o JsonNamed(x, x.type),
              LAMBDA b : <<x.type, NotificationBody(x.type, b)>>)
    ELSE <<>>

ToUaMessage(m, jsonBody) ==
  Carry(m, {"sequence_number", "publish_time"})
    @@ [notification_data |->
          Each(m.notification_data, LAMBDA n : NotificationToExtensionObject(n, jsonBody))]

\* Notifications that cannot be read are dropped from the message.
FromUaMessage(w) ==
  LET readable == SelectSeq(w.notification_data,
                            LAMBDA x : NotificationFromExtensionObject(x) # <<>>)
  IN  Carry(w, {"sequence_number", "publish_time"})
        @@ [notification_data |-> Each(readable, LAMBDA x : NotificationFromExtensionObject(x)[1])]

Acknowledgements(r) ==
  [subscription_acknowledgements |->
     Each(r.subscription_acknowledgements, LAMBDA a : Carry(a, {"subscription_id", "sequence_number"}))]
ToWirePublishRequest(m) == Acknowledgements(m)
ToManagedPublishRequest(w) == Acknowledgements(w)
ToWireRepublishRequest(m) == Carry(m, {"subscription_id", "retransmit_sequence_number"})
ToManagedRepublishRequest(w) == Carry(w, {"subscription_id", "retransmit_sequence_number"})

PublishFields == {"subscription_id", "available_sequence_numbers", "more_notifications"}
ToWirePublishResponse(m, jsonBody) ==
  Carry(m, PublishFields)
    @@ [service_result |-> m.status, results |-> Each(m.results, CodeOf),
        notification_message |-> ToUaMessage(m.notification_message, jsonBody)]
ToManagedPublishResponse(w) ==
  Carry(w, PublishFields)
    @@ [status |-> w.service_result, results |-> Each(w.results, CodeOf),
        notification_message |-> FromUaMessage(w.notification_message)]

ToWireRepublishResponse(m, jsonBody) ==
  [service_result |-> m.status,
   notification_message |-> ToUaMessage(m.notification_message, jsonBody)]
ToManagedRepublishResponse(w) ==
  [status |-> w.service_result, notification_message |-> FromUaMessage(w.notification_message)]
================================================================================
