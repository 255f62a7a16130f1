---------------------------- MODULE MCServiceCalls ----------------------------
(***************************************************************************)
(* ServiceCalls for TLC: the first call makes every call of the client API *)
(* and of the other services, and requests that a server refuses; the      *)
(* second browses, which takes time, and gets pages.                       *)
(***************************************************************************)
EXTENDS ServiceCalls

Traces ==
  {<<>>, <<[form |-> "w3c", trace |-> <<4, 11>>, span |-> <<0, 15>>, sampled |-> FALSE]>>,
   <<[form |-> "w3c", trace |-> <<0, 0>>, span |-> <<0, 15>>, sampled |-> TRUE]>>,
   <<[form |-> "opaque", trace |-> <<>>, span |-> <<>>, sampled |-> FALSE]>>}

Traced(api, S) ==
  {[api |-> api, service |-> ServiceOf[api], input |-> i, trace |-> t] : i \in S, t \in Traces}
Call_(api, service, S) ==
  {[api |-> api, service |-> service, input |-> i, trace |-> <<>>] : i \in S}
Api(api, S) == Call_(api, ServiceOf[api], S)
Raw(service, S) == Call_(service, service, S)
Wire(service, S) == Call_("raw", service, S)
Lists(S) == {<<i>> : i \in S}

Method == [object_id |-> "object", method_id |-> "method", input_arguments |-> <<"Int32", 1>>]

TypedCalls ==
  Api("Read", {<<>>}) \cup Traced("Read", Lists(ReadValueId)) \cup Api("Write", Lists(WriteValue))
    \cup Api("Browse", Lists(BrowseDescription))
    \cup Api("TranslateBrowsePaths", Lists(BrowsePath)) \cup Api("Call", {Method})
    \cup Api("HistoryReadRaw",
             {d \in HistoryReadRawDetails :
                IF d.aggregation.interval = 0 THEN d.continuation_point = "" \/ d.from = d.to
                ELSE d.from # "" /\ d.to # "" /\ d.continuation_point = ""})
    \cup Api("HistoryReadEvents", HistoryReadEventsDetails)
    \cup Api("HistoryUpdateData", UpdateDataDetails)
    \cup Api("HistoryUpdateEvent", UpdateEventDetails)
    \cup Api("AddNodes", {<<i>> : i \in {i \in AddNodesItem : i.attributes.display_name = "" => i.node_class = "Variable"}}) \cup Api("DeleteNodes", Lists(DeleteNodesItem))
    \cup Api("AddReferences", Lists(AddReferencesItem))
    \cup Api("DeleteReferences", Lists(DeleteReferencesItem))

ServerCalls ==
  Raw("FindServers", FindServersRequest) \cup Raw("GetEndpoints", GetEndpointsRequest)
    \cup Raw("RegisterServer", RegisterServerRequest)
    \cup Raw("RegisterServer2", RegisterServer2Request)
    \cup Raw("CreateSession", CreateSessionRequest)
    \cup Raw("ActivateSession", ActivateSessionRequest(Token(SessionIds[1])))
    \cup Raw("CloseSession", CloseSessionRequest(Token(SessionIds[1])))
    \cup Raw("CreateSubscription", CreateSubscriptionRequest)
    \cup Raw("ModifySubscription", ModifySubscriptionRequest)
    \cup Raw("CreateMonitoredItems",
             {m \in CreateMonitoredItemsRequest :
                \/ m.items_to_create[1].index_range = <<>>
                \/ m.items_to_create[1].requested_parameters.filter = <<>>})
    \cup Raw("ModifyMonitoredItems", ModifyMonitoredItemsRequest)
    \cup Raw("Publish", PublishRequest) \cup Raw("Republish", RepublishRequest)
    \cup Raw("SetPublishingMode", {[publishing_enabled |-> TRUE, subscription_ids |-> <<1, 2>>]})
    \cup Raw("DeleteSubscriptions", {[subscription_ids |-> <<1, 2>>]})
    \cup Raw("TransferSubscriptions", {[subscription_ids |-> <<1, 2>>, send_initial_values |-> TRUE]})
    \cup Raw("DeleteMonitoredItems", {[subscription_id |-> 1, monitored_item_ids |-> <<3, 4>>]})
    \cup Raw("SetMonitoringMode", {[subscription_id |-> 1, monitoring_mode |-> "Sampling",
                                    monitored_item_ids |-> <<3>>]})

RegistrationCalls ==
  Raw("RegisterNodes", {[nodes_to_register |-> <<"node">>]})
    \cup Raw("UnregisterNodes", {[nodes_to_unregister |-> <<"node">>]})

\* Requests that are refused, or answered in part.
OneNode == ReadRequest(<<[node_id |-> "node", attribute_id |-> 13]>>)
OneItem == CHOOSE m \in CreateMonitoredItemsRequest : TRUE
OddCalls ==
  Wire("Read", {[OneNode EXCEPT !.max_age = -1], [OneNode EXCEPT !.timestamps_to_return = "Invalid"],
                [OneNode EXCEPT !.timestamps_to_return = "Neither"],
                [OneNode EXCEPT !.nodes_to_read = @ \o @ \o @]})
    \cup Wire("Browse", {[BrowseRequest(<<>>) EXCEPT !.view = "view"],
                         [BrowseRequest(<<CHOOSE d \in BrowseDescription : TRUE>>) EXCEPT !.view = "view"]})
    \cup Wire("Call", {[methods_to_call |-> <<Method, Method>>]})
    \cup Wire("HistoryUpdate", {[history_update_details |-> <<>>]})
    \cup Wire("HistoryRead", {[ToWireRawRequest(CHOOSE d \in HistoryReadRawDetails : TRUE)
                                 EXCEPT !.nodes_to_read = @ \o @]})
    \cup Wire("CreateMonitoredItems", {[OneItem EXCEPT !.timestamps_to_return = "Invalid"],
                                       [OneItem EXCEPT !.items_to_create = @ \o @]})
    \cup Wire("Cancel", {[request_handle_to_cancel |-> 1]})

Paged ==
  Wire("Browse", {[BrowseRequest(<<CHOOSE d \in BrowseDescription : TRUE>>)
                     EXCEPT !.requested_max_references_per_node = 1]})
Continued ==
  Api("BrowseNext", {[release_continuation_points |-> release, continuation_points |-> <<p>>] :
                       release \in BOOLEAN, p \in 1 .. 2})

MCInputs ==
  [c \in Calls |-> IF c = "h1" THEN TypedCalls \cup ServerCalls \cup RegistrationCalls
                                      \cup OddCalls \cup Paged \cup Continued
                   ELSE Paged]
MCRegistration == [c \in Calls |-> RegistrationCalls]

\* Two of everything but methods and monitored items.
MCLimits ==
  [max_nodes_per_read |-> 2, max_nodes_per_write |-> 2, max_nodes_per_browse |-> 2,
   max_nodes_per_translate_browse_paths_to_node_ids |-> 2, max_nodes_per_method_call |-> 3,
   max_nodes_per_node_management |-> 2, max_monitored_items_per_call |-> 1]

MCSessionIds == <<"s1", "s2">>
================================================================================
