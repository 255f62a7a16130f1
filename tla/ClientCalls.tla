------------------------------ MODULE ClientCalls ------------------------------
(***************************************************************************)
(* ClientProtocolSession: the typed calls of a client session, the request *)
(* each of them sends, and the StatusOr it makes of the reply.  A call of  *)
(* any other name is one of the services the other client components send  *)
(* as they are, through the same CallTyped.                                *)
(***************************************************************************)
EXTENDS HistoryConversion

EmptyDataValue ==
  [value |-> <<>>, status_code |-> "Good", source_timestamp |-> "", server_timestamp |-> ""]

\* The calls of the session's API, and the service each uses.
ServiceOf ==
  [Read |-> "Read", Write |-> "Write", Browse |-> "Browse", BrowseNext |-> "BrowseNext",
   TranslateBrowsePaths |-> "TranslateBrowsePathsToNodeIds", Call |-> "Call",
   AddNodes |-> "AddNodes", DeleteNodes |-> "DeleteNodes", AddReferences |-> "AddReferences",
   DeleteReferences |-> "DeleteReferences", HistoryReadRaw |-> "HistoryRead",
   HistoryReadEvents |-> "HistoryRead", HistoryUpdateData |-> "HistoryUpdate",
   HistoryUpdateEvent |-> "HistoryUpdate"]

\* The session asks for both timestamps and any age.
ReadRequest(inputs) ==
  [max_age |-> 0, timestamps_to_return |-> "Both",
   nodes_to_read |-> Each(inputs, LAMBDA i : i @@ [index_range |-> "", data_encoding |-> ""])]

\* The value becomes that of a data value that has nothing else; the flags are dropped.
WriteRequest(inputs) ==
  [nodes_to_write |-> Each(inputs, LAMBDA i :
     [node_id |-> i.node_id, attribute_id |-> i.attribute_id, index_range |-> "",
      value |-> [EmptyDataValue EXCEPT !.value = i.value]])]

AddNodesRequest(inputs) ==
  [nodes_to_add |-> Each(inputs, LAMBDA i :
     [parent_node_id |-> Expanded(i.parent_id), reference_type_id |-> "",
      requested_new_node_id |-> Expanded(i.requested_id),
      browse_name |-> i.attributes.browse_name, node_class |-> i.node_class,
      node_attributes |-> NodeAttributesToExtensionObject(i.node_class, i.attributes),
      type_definition |-> Expanded(i.type_definition_id)])]

DeleteNodesRequest(inputs) ==
  [nodes_to_delete |-> Each(inputs, LAMBDA i : Carry(i, {"node_id", "delete_target_references"}))]

AddReferencesRequest(inputs) ==
  [references_to_add |-> Each(inputs, LAMBDA i :
     Carry(i, {"source_node_id", "reference_type_id", "target_server_uri", "target_node_id",
               "target_node_class"}) @@ [is_forward |-> i.forward])]

DeleteReferencesRequest(inputs) ==
  [references_to_delete |-> Each(inputs, LAMBDA i :
     Carry(i, {"source_node_id", "reference_type_id", "target_node_id", "delete_bidirectional"})
       @@ [is_forward |-> i.forward])]

\* The session never bounds the number of references.
BrowseRequest(inputs) ==
  [view |-> "", requested_max_references_per_node |-> 0,
   nodes_to_browse |-> Each(inputs, DescriptionToGenerated)]

BrowseNextRequest(input) ==
  [release_continuation_points |-> input.release_continuation_points,
   continuation_points |-> input.continuation_points]

TranslateBrowsePathsRequest(inputs) == [browse_paths |-> Each(inputs, BrowsePathToGenerated)]

CallRequest(input) ==
  [methods_to_call |-> <<Carry(input, {"object_id", "method_id", "input_arguments"})>>]

ClientRequest(api, input) ==
  CASE api = "Read"                 -> ReadRequest(input)
    [] api = "Write"                -> WriteRequest(input)
    [] api = "AddNodes"             -> AddNodesRequest(input)
    [] api = "DeleteNodes"          -> DeleteNodesRequest(input)
    [] api = "AddReferences"        -> AddReferencesRequest(input)
    [] api = "DeleteReferences"     -> DeleteReferencesRequest(input)
    [] api = "Browse"               -> BrowseRequest(input)
    [] api = "BrowseNext"           -> BrowseNextRequest(input)
    [] api = "TranslateBrowsePaths" -> TranslateBrowsePathsRequest(input)
    [] api = "Call"                 -> CallRequest(input)
    [] api = "HistoryReadRaw"       -> ToWireRawRequest(input)
    [] api = "HistoryReadEvents"    -> ToWireEventsRequest(input)
    [] api \in {"HistoryUpdateData", "HistoryUpdateEvent"} -> ToWireHistoryUpdateRequest(input)
    [] OTHER                        -> input

(***************************************************************************)
(* Results.  A bad service result is the result of the call.               *)
(***************************************************************************)
Results(body, Op(_)) ==
  IF IsBad(body.service_result) THEN Failed(body.service_result)
  ELSE Ok(Each(body.results, Op))

\* Defect: the results are taken without a look at the service result.
ReadResultUnchecked(body) == Ok(body.results)

ReadResult(body) == Results(body, LAMBDA v : v)

\* Of every operation's status the code is kept.
WriteResults(body) == Results(body, CodeOf)
DeleteNodesResults(body) == Results(body, CodeOf)
AddReferencesResults(body) == Results(body, CodeOf)
DeleteReferencesResults(body) == Results(body, CodeOf)

AddNodesResults(body) ==
  Results(body, LAMBDA r : [status_code |-> CodeOf(r.status_code), added_node_id |-> r.added_node_id])
BrowseResults(body) == Results(body, BrowseResultToHandWritten)
BrowseNextResults(body) == Results(body, BrowseResultToHandWritten)
TranslateResults(body) == Results(body, PathResultToHandWritten)

\* Looks at the results only: with none, the reason is lost.
CallResult(body) ==
  IF body.results = <<>> THEN Failed(Bad("Bad"))
  ELSE Ok([status |-> body.results[1].status_code,
           input_argument_results |-> Each(body.results[1].input_argument_results, CodeOf),
           output_arguments |-> body.results[1].output_arguments])

ClientResult(api, body) ==
  CASE api = "Read"                        -> ReadResult(body)
    [] api = "AddNodes"                    -> AddNodesResults(body)
    [] api = "Browse"                      -> BrowseResults(body)
    [] api = "BrowseNext"                  -> BrowseNextResults(body)
    [] api = "TranslateBrowsePaths"        -> TranslateResults(body)
    [] api = "Call"                        -> CallResult(body)
    [] api = "HistoryReadRaw"              -> ToManagedRawResult(body)
    [] api = "HistoryReadEvents"           -> ToManagedEventsResult(body)
    [] api \in {"HistoryUpdateData", "HistoryUpdateEvent"} -> ToManagedHistoryUpdateResponse(body)
    [] api = "Write"                       -> WriteResults(body)
    [] api = "DeleteNodes"                 -> DeleteNodesResults(body)
    [] api = "AddReferences"               -> AddReferencesResults(body)
    [] api = "DeleteReferences"            -> DeleteReferencesResults(body)
    [] OTHER                               -> Ok(body)

\* A fault is a failure of the call; a reply of another type is a bad call.
CallTyped(api, service, reply) ==
  CASE reply.service = "ServiceFault" -> Failed(reply.body.status)
    [] reply.service = service        -> ClientResult(api, reply.body)
    [] OTHER                          -> Failed(Bad("Bad"))
================================================================================
