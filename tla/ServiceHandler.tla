---------------------------- MODULE ServiceHandler ----------------------------
(***************************************************************************)
(* ServiceHandler: the twelve services that are answered by the callbacks  *)
(* of the application.  For each service, when the request is refused      *)
(* before any callback, what the callback is asked, and the response made  *)
(* of what it answers.  A callback answers with a StatusOr.                *)
(***************************************************************************)
EXTENDS HistoryConversion

CONSTANT
  operation_limits  \* per limit the server advertises, the operations it allows

ASSUME OperationLimitsAssumption ==
  operation_limits \in
    [{"max_nodes_per_read", "max_nodes_per_write", "max_nodes_per_browse",
      "max_nodes_per_translate_browse_paths_to_node_ids", "max_nodes_per_method_call",
      "max_nodes_per_node_management", "max_monitored_items_per_call"} -> Nat \ {0}]

Accepted == <<>>
Refuse(code) == <<Bad(code)>>

ValidateOperationCount(items, limit) ==
  CASE items = <<>>                         -> Refuse("Bad_NothingToDo")
    [] Len(items) > operation_limits[limit] -> Refuse("Bad_TooManyOperations")
    [] OTHER                                -> Accepted

(***************************************************************************)
(* What a handler refuses for the whole service, before any callback.      *)
(***************************************************************************)
ValidateRead(r) ==
  LET count == ValidateOperationCount(r.nodes_to_read, "max_nodes_per_read")
  IN  CASE count # Accepted -> count
        [] r.max_age < 0 \/ r.timestamps_to_return \notin TimestampsToReturn ->
             Refuse("Bad_TimestampsToReturnInvalid")
        [] OTHER -> Accepted

ValidateWrite(r) == ValidateOperationCount(r.nodes_to_write, "max_nodes_per_write")

ValidateBrowse(r) ==
  LET count == ValidateOperationCount(r.nodes_to_browse, "max_nodes_per_browse")
  IN  CASE count # Accepted -> count
        [] r.view # ""      -> Refuse("Bad_ViewIdUnknown")
        [] OTHER            -> Accepted

ValidateTranslateBrowsePaths(r) ==
  ValidateOperationCount(r.browse_paths, "max_nodes_per_translate_browse_paths_to_node_ids")

ValidateCall(r) == ValidateOperationCount(r.methods_to_call, "max_nodes_per_method_call")

ValidateHistoryRead(r) ==
  IF ToManagedHistoryRead(r) = <<>> THEN Refuse("Bad_HistoryOperationInvalid") ELSE Accepted

ValidateHistoryUpdate(r) ==
  IF ToManagedHistoryUpdate(r) = <<>> THEN Refuse("Bad_HistoryOperationInvalid") ELSE Accepted

\* AddNodes, DeleteNodes, AddReferences and DeleteReferences share one limit.
ValidateNodeManagement(items) == ValidateOperationCount(items, "max_nodes_per_node_management")

Validate(service, r) ==
  CASE service = "Read"                          -> ValidateRead(r)
    [] service = "Write"                         -> ValidateWrite(r)
    [] service = "Browse"                        -> ValidateBrowse(r)
    [] service = "TranslateBrowsePathsToNodeIds" -> ValidateTranslateBrowsePaths(r)
    [] service = "Call"                          -> ValidateCall(r)
    [] service = "HistoryRead"                   -> ValidateHistoryRead(r)
    [] service = "HistoryUpdate"                 -> ValidateHistoryUpdate(r)
    [] service = "AddNodes"                      -> ValidateNodeManagement(r.nodes_to_add)
    [] service = "DeleteNodes"                   -> ValidateNodeManagement(r.nodes_to_delete)
    [] service = "AddReferences"                 -> ValidateNodeManagement(r.references_to_add)
    [] OTHER                                     -> ValidateNodeManagement(r.references_to_delete)

\* A raw read bounded by nothing is refused for its node, not for the service.
Unbounded(details) ==
  /\ details.kind = "raw"
  /\ details.from = "" /\ details.to = ""
  /\ details.continuation_point = "" /\ ~details.release_continuation_point

(***************************************************************************)
(* The question put to the callback, in the application's vocabulary.      *)
(***************************************************************************)
\* The index range and the data encoding are dropped.
HandleRead(r) ==
  Each(r.nodes_to_read, LAMBDA v : [node_id |-> v.node_id, attribute_id |-> v.attribute_id])

\* Of the data value written only the value is kept; the flags are the default.
HandleWrite(r) ==
  Each(r.nodes_to_write,
       LAMBDA v : [node_id |-> v.node_id, attribute_id |-> v.attribute_id,
                   value |-> v.value.value, flags |-> {}])

HandleBrowse(r) == Each(r.nodes_to_browse, DescriptionToHandWritten)

HandleTranslateBrowsePaths(r) == Each(r.browse_paths, BrowsePathToHandWritten)

\* The methods are called one after the other, in the order of the request.
HandleCall(r) ==
  Each(r.methods_to_call,
       LAMBDA c : [object_id |-> c.object_id, method_id |-> c.method_id,
                   input_arguments |-> c.input_arguments])

HandleHistoryRead(r) == ToManagedHistoryRead(r)[1].details
HandleHistoryUpdate(r) == ToManagedHistoryUpdate(r)[1]

HandleAddNodes(r) ==
  Each(r.nodes_to_add,
       LAMBDA i : [requested_id |-> i.requested_new_node_id.id, parent_id |-> i.parent_node_id.id,
                   node_class |-> i.node_class, type_definition_id |-> i.type_definition.id,
                   attributes |-> [browse_name |-> i.browse_name]
                                    @@ ExtensionObjectToNodeAttributes(i.node_class, i.node_attributes)])
HandleDeleteNodes(r) ==
  Each(r.nodes_to_delete, LAMBDA i : Carry(i, {"node_id", "delete_target_references"}))
HandleAddReferences(r) ==
  Each(r.references_to_add,
       LAMBDA i : Carry(i, {"source_node_id", "reference_type_id", "target_server_uri",
                            "target_node_id", "target_node_class"}) @@ [forward |-> i.is_forward])
HandleDeleteReferences(r) ==
  Each(r.references_to_delete,
       LAMBDA i : Carry(i, {"source_node_id", "reference_type_id", "target_node_id",
                            "delete_bidirectional"}) @@ [forward |-> i.is_forward])

Handle(service, r) ==
  CASE service = "Read"                          -> HandleRead(r)
    [] service = "Write"                         -> HandleWrite(r)
    [] service = "Browse"                        -> HandleBrowse(r)
    [] service = "TranslateBrowsePathsToNodeIds" -> HandleTranslateBrowsePaths(r)
    [] service = "Call"                          -> HandleCall(r)
    [] service = "HistoryRead"                   -> HandleHistoryRead(r)
    [] service = "HistoryUpdate"                 -> HandleHistoryUpdate(r)
    [] service = "AddNodes"                      -> HandleAddNodes(r)
    [] service = "DeleteNodes"                   -> HandleDeleteNodes(r)
    [] service = "AddReferences"                 -> HandleAddReferences(r)
    [] OTHER                                     -> HandleDeleteReferences(r)

(***************************************************************************)
(* The response made of the callback's answer.  A refused answer has no    *)
(* results.                                                                *)
(***************************************************************************)
ValueOrNothing(answer) == IF answer.value = <<>> THEN <<>> ELSE answer.value[1]

Respond(answer, Op(_)) ==
  [service_result |-> answer.status, results |-> Each(ValueOrNothing(answer), Op)]
Refusal(status) == [service_result |-> status, results |-> <<>>]

\* Timestamps that were not asked for are removed.
ApplyTimestampsToReturn(value, asked) ==
  [value EXCEPT !.source_timestamp = IF asked \in {"Server", "Neither"} THEN "" ELSE @,
                !.server_timestamp = IF asked \in {"Source", "Neither"} THEN "" ELSE @]

\* NormalizeReadResults rebuilds Bad_NodeIdUnknown from its full code, which has
\* no info bits, and so gives every result back as it is.
RespondRead(r, answer) ==
  Respond(answer, LAMBDA v : ApplyTimestampsToReturn(v, r.timestamps_to_return))

\* One status for each operation, made of its code.
RespondWrite(answer) == Respond(answer, CodeOf)
RespondDeleteNodes(answer) == Respond(answer, CodeOf)
RespondAddReferences(answer) == Respond(answer, CodeOf)
RespondDeleteReferences(answer) == Respond(answer, CodeOf)

RespondBrowse(answer) == Respond(answer, BrowseResultToGenerated)
RespondTranslateBrowsePaths(answer) == Respond(answer, PathResultToGenerated)

\* No service result: every method answers for itself.
RespondCall(answers) ==
  [service_result |-> Good,
   results |-> Each(answers, LAMBDA a :
     [status_code |-> IF IsBad(a.status) THEN a.status ELSE Good,
      input_argument_results |-> <<>>, output_arguments |-> ValueOrNothing(a)])]

RespondHistoryRead(r, answer) ==
  LET decoded == ToManagedHistoryRead(r)[1]
  IN  IF decoded.details.kind = "raw" THEN ToWireRawResponse(answer)
      ELSE ToWireEventsResponse(answer, decoded.event_field_paths)

RespondHistoryUpdate(answer) == ToWireHistoryUpdateResponse(answer)

RespondAddNodes(answer) ==
  Respond(answer, LAMBDA a : [status_code |-> CodeOf(a.status_code), added_node_id |-> a.added_node_id])

RespondTo(service, r, answer) ==
  CASE service = "Read"                          -> RespondRead(r, answer)
    [] service = "Write"                         -> RespondWrite(answer)
    [] service = "Browse"                        -> RespondBrowse(answer)
    [] service = "TranslateBrowsePathsToNodeIds" -> RespondTranslateBrowsePaths(answer)
    [] service = "Call"                          -> RespondCall(answer)
    [] service = "HistoryRead"                   -> RespondHistoryRead(r, answer)
    [] service = "HistoryUpdate"                 -> RespondHistoryUpdate(answer)
    [] service = "AddNodes"                      -> RespondAddNodes(answer)
    [] service = "DeleteNodes"                   -> RespondDeleteNodes(answer)
    [] service = "AddReferences"                 -> RespondAddReferences(answer)
    [] OTHER                                     -> RespondDeleteReferences(answer)
================================================================================
