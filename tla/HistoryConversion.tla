--------------------------- MODULE HistoryConversion ---------------------------
(***************************************************************************)
(* history_conversion: HistoryRead and HistoryUpdate between the           *)
(* vocabulary of the history service and the wire.  A StatusOr is a record *)
(* of a status and, when that is good, a value of one element; `panic'     *)
(* marks the value-less good StatusOr its constructor refuses to build.    *)
(***************************************************************************)
EXTENDS SubscriptionConversion

Ok(v) == [status |-> Good, value |-> <<v>>]
Panic == [code |-> "panic", info |-> 0]
Failed(status) == [status |-> IF IsBad(status) THEN status ELSE Panic, value |-> <<>>]

(***************************************************************************)
(* HistoryRead requests.  One node per request, without index range, data  *)
(* encoding, modified values or bounds.                                    *)
(***************************************************************************)
TimestampsToReturn == {"Source", "Server", "Both", "Neither"}

RawDetails(w, times) ==
  [kind |-> "raw", node_id |-> w.nodes_to_read[1].node_id,
   from |-> times.start_time, to |-> times.end_time, max_count |-> 0,
   aggregation |-> [start_time |-> "", interval |-> 0, aggregate_type |-> ""],
   release_continuation_point |-> w.release_continuation_points,
   continuation_point |-> w.nodes_to_read[1].continuation_point]

\* The three bodies a HistoryRead may carry, each decoded to at most one result.
FromRawModified(w) ==
  Each(SelectSeq(FromAnyExtensionObject(w.history_read_details, "ReadRawModifiedDetails"),
                 LAMBDA d : ~d.is_read_modified /\ ~d.return_bounds),
       LAMBDA d : [details |-> [RawDetails(w, d) EXCEPT !.max_count = d.num_values_per_node],
                   event_field_paths |-> <<>>])

\* The aggregate starts where the read does; only the first aggregate is used.
FromProcessed(w) ==
  Each(FromAnyExtensionObject(w.history_read_details, "ReadProcessedDetails"),
       LAMBDA d : [details |-> [RawDetails(w, d) EXCEPT
                     !.aggregation =
                        [start_time |-> d.start_time, interval |-> d.processing_interval,
                         aggregate_type |-> IF d.aggregate_type = <<>> THEN "" ELSE d.aggregate_type[1]]],
                   event_field_paths |-> <<>>])

FromEvents(w) ==
  LET node == w.nodes_to_read[1]
  IN  IF w.release_continuation_points \/ node.continuation_point # ""
        THEN <<>>
        ELSE Each(FromAnyExtensionObject(w.history_read_details, "ReadEventDetails"),
                  LAMBDA d : [details |-> [kind |-> "events", node_id |-> node.node_id,
                                           from |-> d.start_time, to |-> d.end_time,
                                           filter |-> ToManagedEventFilter(d.filter)],
                              event_field_paths |-> NormalizeEventFieldPaths(SelectedPaths(d.filter))])

ToManagedHistoryRead(w) ==
  IF /\ Len(w.nodes_to_read) = 1
     /\ w.timestamps_to_return \in TimestampsToReturn
     /\ w.nodes_to_read[1].index_range = ""
     /\ w.nodes_to_read[1].data_encoding = ""
    THEN FromRawModified(w) \o FromProcessed(w) \o FromEvents(w)
    ELSE <<>>

HistoryReadValueId(node, point) ==
  [node_id |-> node, index_range |-> "", data_encoding |-> "", continuation_point |-> point]

\* A read without an interval is raw; the count of an aggregated one stays behind.
ToWireRawRequest(d) ==
  [history_read_details |->
     IF d.aggregation.interval = 0
       THEN ToExtensionObject("ReadRawModifiedDetails",
              [is_read_modified |-> FALSE, start_time |-> d.from, end_time |-> d.to,
               num_values_per_node |-> d.max_count, return_bounds |-> FALSE])
       ELSE ToExtensionObject("ReadProcessedDetails",
              [start_time |-> d.from, end_time |-> d.to,
               processing_interval |-> d.aggregation.interval,
               aggregate_type |-> <<d.aggregation.aggregate_type>>]),
   timestamps_to_return |-> "Both",
   release_continuation_points |-> d.release_continuation_point,
   nodes_to_read |-> <<HistoryReadValueId(d.node_id, d.continuation_point)>>]

ToWireEventsRequest(d) ==
  [history_read_details |->
     ToExtensionObject("ReadEventDetails",
       [start_time |-> d.from, end_time |-> d.to, num_values_per_node |-> 0,
        filter |-> ToUaEventFilter(DefaultEventFieldPaths, d.filter)]),
   timestamps_to_return |-> "Both",
   release_continuation_points |-> FALSE,
   nodes_to_read |-> <<HistoryReadValueId(d.node_id, "")>>]

IsEventsRequest(w) == FromAnyExtensionObject(w.history_read_details, "ReadEventDetails") # <<>>

(***************************************************************************)
(* HistoryRead responses: one result; the service result stays good.       *)
(***************************************************************************)
HistoryReadResult(result, data, point) ==
  [service_result |-> Good,
   results |-> <<[status_code |-> result.status,
                  continuation_point |-> IF IsBad(result.status) THEN "" ELSE point,
                  history_data |-> IF IsBad(result.status) THEN NoExtension ELSE data]>>]

ToWireRawResponse(result) ==
  IF IsBad(result.status) THEN HistoryReadResult(result, NoExtension, "")
  ELSE HistoryReadResult(result, ToExtensionObject("HistoryData", result.value[1].values),
                         result.value[1].continuation_point)

ToWireEventsResponse(result, paths) ==
  IF IsBad(result.status) THEN HistoryReadResult(result, NoExtension, "")
  ELSE HistoryReadResult(result,
         ToExtensionObject("HistoryEvent",
           Each(result.value[1].events,
                LAMBDA e : ProjectEventFields(NormalizeEventFieldPaths(paths), e))), "")

\* The first result speaks for the request: its failure, or its data if readable.
FirstResult(w, Value(_)) ==
  IF w.results = <<>> THEN Failed(w.service_result)
  ELSE IF IsBad(w.results[1].status_code) THEN Failed(w.results[1].status_code)
  ELSE Ok(Value(w.results[1]))

BodyOrEmpty(x, type) ==
  LET body == FromAnyExtensionObject(x, type) IN IF body = <<>> THEN <<>> ELSE body[1]

ToManagedRawResult(w) ==
  FirstResult(w, LAMBDA r : [values |-> BodyOrEmpty(r.history_data, "HistoryData"),
                             continuation_point |-> r.continuation_point])

\* The reader always assumes the default field paths.
ToManagedEventsResult(w) ==
  FirstResult(w, LAMBDA r : [events |->
     Each(BodyOrEmpty(r.history_data, "HistoryEvent"),
          LAMBDA fields : ReconstructEventFromFields(DefaultEventFieldPaths, fields))])

IsEventsResponse(w) ==
  w.results # <<>> /\ FromAnyExtensionObject(w.results[1].history_data, "HistoryEvent") # <<>>

(***************************************************************************)
(* HistoryUpdate: one element, of data or of events.                       *)
(***************************************************************************)
UpdateFields == {"node_id", "perform_insert_replace"}

ToManagedHistoryUpdate(w) ==
  IF Len(w.history_update_details) # 1 THEN <<>>
  ELSE Each(FromAnyExtensionObject(w.history_update_details[1], "UpdateDataDetails"),
            LAMBDA d : Carry(d, UpdateFields) @@ [kind |-> "data", values |-> d.update_values])
         \o Each(FromAnyExtensionObject(w.history_update_details[1], "UpdateEventDetails"),
                 LAMBDA d : Carry(d, UpdateFields)
                   @@ [kind |-> "events",
                       events |-> Each(d.event_data,
                         LAMBDA fields : ReconstructEventFromFields(DefaultEventFieldPaths, fields))])

ToWireHistoryUpdateRequest(m) ==
  [history_update_details |-> <<
     IF m.kind = "data"
       THEN ToExtensionObject("UpdateDataDetails",
              Carry(m, UpdateFields) @@ [update_values |-> m.values])
       ELSE ToExtensionObject("UpdateEventDetails",
              Carry(m, UpdateFields)
                @@ [event_data |-> Each(m.events, LAMBDA e : ProjectEventFields(DefaultEventFieldPaths, e))])>>]

ToWireHistoryUpdateResponse(result) ==
  [service_result |-> Good,
   results |-> <<[status_code |-> result.status,
                  operation_results |-> IF IsBad(result.status) THEN <<>>
                                        ELSE Each(result.value[1], CodeOf)]>>]

ToManagedHistoryUpdateResponse(w) == FirstResult(w, LAMBDA r : Each(r.operation_results, CodeOf))
================================================================================
