------------------------------- MODULE Messages -------------------------------
(***************************************************************************)
(* The service messages of the runtime (message.h, server_session_manager.h*)
(* endpoint_description.h and the service vocabularies), as sets of        *)
(* records under the source's member names.  A member ranges over one or   *)
(* two values that tell it apart from every other member, so that a        *)
(* conversion that drops, swaps or renames one is seen; a list is empty,   *)
(* or of one or two elements.                                              *)
(***************************************************************************)
EXTENDS HistoryConversion

Refused == Bad("Bad_UserAccessDenied")
Statuses == {Good, Refused}
\* A per-operation result with info bits, which a StatusCode does not keep.
Detailed == [code |-> "Bad_OutOfRange", info |-> 5]

Token(id) == [id |-> id, numeric |-> TRUE]

(***************************************************************************)
(* Discovery                                                               *)
(***************************************************************************)
ApplicationDescription ==
  [application_uri : {"app"}, product_uri : {"product"}, application_name : {"name"},
   application_type : {"Server"}, gateway_server_uri : {"gateway"},
   discovery_profile_uri : {"profile"}, discovery_urls : {<<"url1", "url2">>}]
UserTokenPolicy ==
  [policy_id : {"policy"}, token_type : {"UserName"}, issued_token_type : {"issued"},
   issuer_endpoint_url : {"issuer"}, security_policy_uri : {"Basic256Sha256"}]
EndpointDescription ==
  [endpoint_url : {"opc.tcp://a"}, server : ApplicationDescription,
   server_certificate : {"certificate"}, security_mode : {"SignAndEncrypt"},
   security_policy_uri : {"Basic256Sha256"},
   user_identity_tokens : {<<t>> : t \in UserTokenPolicy},
   transport_profile_uri : {"uatcp"}, security_level : {7}]

FindServersRequest ==
  [endpoint_url : {"dialled"}, locale_ids : {<<>>, <<"en">>}, server_uris : {<<"wanted">>}]
FindServersResponse ==
  [status : Statuses, servers : {<<>>} \cup {<<a>> : a \in ApplicationDescription}]
GetEndpointsRequest ==
  [endpoint_url : {"dialled"}, locale_ids : {<<"en">>}, profile_uris : {<<>>, <<"uatcp">>}]
GetEndpointsResponse ==
  [status : Statuses, endpoints : {<<>>} \cup {<<e>> : e \in EndpointDescription}]
RegisteredServer ==
  [server_uri : {"server"}, product_uri : {"product"}, server_names : {<<"a", "b">>},
   server_type : {"Server"}, gateway_server_uri : {"gateway"}, discovery_urls : {<<"url">>},
   semaphore_file_path : {"semaphore"}, is_online : BOOLEAN]
RegisterServerRequest == [server : RegisteredServer]
RegisterServerResponse == [status : Statuses]
MdnsDiscoveryConfiguration ==
  [mdns_server_name : {"mdns"}, server_capabilities : {<<"DA">>}]
\* An entry of an unsupported kind is an empty optional.
RegisterServer2Request ==
  [server : {s \in RegisteredServer : s.is_online},
   discovery_configuration :
     {<<>>} \cup {<<<<c>>, <<c>>>> : c \in MdnsDiscoveryConfiguration}]
RegisterServer2Response ==
  [status : Statuses, configuration_results : {<<>>, <<Good, CodeOf(Detailed)>>}]

(***************************************************************************)
(* Sessions                                                                *)
(***************************************************************************)
CreateSessionRequest ==
  [requested_timeout : {60}, endpoint_url : {"dialled", ""},
   client_nonce : {"nonce"}, client_certificate : {"certificate"}]
CreateSessionResponse ==
  [status : Statuses, session_id : {"session"}, authentication_token : {Token("new")},
   server_nonce : {"nonce"}, server_certificate : {"certificate"}, revised_timeout : {30},
   server_endpoints : {<<e>> : e \in EndpointDescription}]
\* Anonymous, or a name and a password, which may be encrypted.
Credentials ==
  {[Unset EXCEPT !.allow_anonymous = TRUE],
   [Unset EXCEPT !.user_name = <<"user">>, !.password = <<"secret">>],
   [Unset EXCEPT !.user_name = <<"user">>, !.encrypted_password = "cipher",
                 !.password_encryption_algorithm = "oaep"]}
\* What the runtime fills in itself from the connection is left out.
ActivateSessionRequest(token) ==
  {c @@ [session_id |-> "session", authentication_token |-> token, delete_existing |-> existing,
         client_signature_algorithm |-> "rsa", client_signature |-> "signature"] :
     c \in Credentials, existing \in BOOLEAN}
ActivateSessionResponse == [status : Statuses]
CloseSessionRequest(token) == [session_id : {"session"}, authentication_token : {token}]
CloseSessionResponse == [status : Statuses]

(***************************************************************************)
(* Subscriptions                                                           *)
(***************************************************************************)
DataChangeFilter ==
  [trigger : {"StatusValue"}, deadband_type : {"Absolute"}, deadband_value : {2}]
\* No blob at all, the one BuildEventFilter makes, and the one of a server with
\* its where clause.
NoWhere ==
  "_scada" :> String("event") @@ [types |-> Number(0), of_type |-> Array(<<>>), child_of |-> Array(<<>>)]
EventFilterBlob ==
  LET select == BuildEventFilter(<<<<"EventId">>, <<"Area", "Message">>>>)
      where == [types : {Number(0), Number(UNACKED)}, of_type : {Array(<<String(Text("type"))>>)},
                child_of : {Array(<<>>), Array(<<String(Text("area"))>>)}]
  IN  {<<"null">>, select} \cup {Object(select[2] @@ w @@ NoWhere) : w \in where}
MonitoringFilter ==
  {<<"DataChange", f>> : f \in DataChangeFilter} \cup {<<"Event", b>> : b \in EventFilterBlob}
MonitoringParameters ==
  [client_handle : {11}, sampling_interval_ms : {250},
   filter : {<<>>} \cup {<<f>> : f \in MonitoringFilter}, queue_size : {5},
   discard_oldest : {FALSE}]
MonitoredItemCreateRequest ==
  [item_to_monitor : {[node_id |-> "node", attribute_id |-> 13]},
   index_range : {<<>>, <<"1:2">>}, monitoring_mode : {"Reporting"},
   requested_parameters : MonitoringParameters]
MonitoredItemCreateResult ==
  [status : {Detailed}, monitored_item_id : {3}, revised_sampling_interval_ms : {500},
   revised_queue_size : {1}, filter_result : {<<>>, <<"filter result">>}]
MonitoredItemModifyRequest ==
  [monitored_item_id : {3}, requested_parameters : {p \in MonitoringParameters :
     p.filter = <<>> \/ p.filter[1][1] = "DataChange"}]
MonitoredItemModifyResult ==
  [status : {Detailed}, revised_sampling_interval_ms : {500}, revised_queue_size : {1},
   filter_result : {<<>>}]
SubscriptionParameters ==
  [publishing_interval_ms : {100}, lifetime_count : {60}, max_keep_alive_count : {20},
   max_notifications_per_publish : {9}, publishing_enabled : BOOLEAN, priority : {4}]
CreateSubscriptionRequest == [parameters : SubscriptionParameters]
CreateSubscriptionResponse ==
  [status : Statuses, subscription_id : {1}, revised_publishing_interval_ms : {200},
   revised_lifetime_count : {61}, revised_max_keep_alive_count : {21}]
ModifySubscriptionRequest == [subscription_id : {1}, parameters : SubscriptionParameters]
ModifySubscriptionResponse ==
  [status : Statuses, revised_publishing_interval_ms : {200},
   revised_lifetime_count : {61}, revised_max_keep_alive_count : {21}]
CreateMonitoredItemsRequest ==
  [subscription_id : {1}, timestamps_to_return : {"Both"},
   items_to_create : {<<i>> : i \in MonitoredItemCreateRequest}]
CreateMonitoredItemsResponse ==
  [status : {Good}, results : {<<r>> : r \in MonitoredItemCreateResult}]
ModifyMonitoredItemsRequest ==
  [subscription_id : {1}, timestamps_to_return : {"Source"},
   items_to_modify : {<<i>> : i \in MonitoredItemModifyRequest}]
ModifyMonitoredItemsResponse ==
  [status : {Good}, results : {<<r>> : r \in MonitoredItemModifyResult}]

SubscriptionAcknowledgement == [subscription_id : {1}, sequence_number : {8}]
MonitoredItemNotification == [client_handle : {11}, value : {"value"}]
EventFieldList == [client_handle : {12}, event_fields : {<<<<"String", "field">>>>}]
NotificationData ==
  {<<"DataChangeNotification", <<n>>>> : n \in MonitoredItemNotification}
    \cup {<<"EventNotificationList", <<e>>>> : e \in EventFieldList}
    \cup {<<"StatusChangeNotification", CodeOf(Detailed)>>}
NotificationMessage ==
  [sequence_number : {8}, publish_time : {"now"}, notification_data : {<<n>> : n \in NotificationData}]
PublishRequest ==
  [subscription_acknowledgements : {<<>>} \cup {<<a>> : a \in SubscriptionAcknowledgement}]
PublishResponse ==
  [status : {Good}, subscription_id : {1}, results : {<<CodeOf(Detailed)>>},
   more_notifications : {TRUE}, notification_message : NotificationMessage,
   available_sequence_numbers : {<<7, 8>>}]
RepublishRequest == [subscription_id : {1}, retransmit_sequence_number : {8}]
RepublishResponse == [status : {Good}, notification_message : NotificationMessage]

(***************************************************************************)
(* The item vocabulary of the attribute, view, method, history and         *)
(* node-management services.                                               *)
(***************************************************************************)
ReadValueId == [node_id : {"node"}, attribute_id : {13}]
WriteFlags == SUBSET {"SELECT", "PARAM"}
WriteValue ==
  [node_id : {"node"}, attribute_id : {13}, value : {<<"Int32", 7>>}, flags : WriteFlags]
DataValue ==
  [value : {<<"Int32", 7>>}, status_code : {"Good", "Bad_NodeIdUnknown"},
   source_timestamp : {"source"}, server_timestamp : {"server"}]
BrowseDescription ==
  [node_id : {"node"}, direction : {"Forward", "Both"}, reference_type_id : {"organizes"},
   include_subtypes : {TRUE}, node_class_mask : {0}, result_mask : {63}]
ReferenceDescription(target) ==
  [reference_type_id |-> "organizes", forward |-> TRUE, node_id |-> target,
   node_class |-> "Variable", browse_name |-> "name", display_name |-> "display",
   type_definition |-> "type"]
RelativePathElement ==
  [reference_type_id : {"organizes"}, inverse : {TRUE}, include_subtypes : {FALSE},
   target_name : {"target"}]
BrowsePath == [node_id : {"node"}, relative_path : {<<e>> : e \in RelativePathElement}]
BrowsePathTarget == [target_id : {"target"}, remaining_path_index : {0}]
BrowsePathResult ==
  [status_code : {CodeOf(Detailed), Good}, targets : {<<t>> : t \in BrowsePathTarget}]

AggregateFilter ==
  {[start_time |-> "", interval |-> 0, aggregate_type |-> ""],
   [start_time |-> "origin", interval |-> 60, aggregate_type |-> "Average"]}
HistoryReadRawDetails ==
  [kind : {"raw"}, node_id : {"node"}, from : {"", "t1"}, to : {"", "t2"}, max_count : {10},
   aggregation : AggregateFilter, release_continuation_point : {FALSE},
   continuation_point : {"", "point"}]
HistoryReadEventsDetails ==
  [kind : {"events"}, node_id : {"node"}, from : {"t1"}, to : {"t2"},
   filter : [of_type : {<<"type">>}, child_of : {<<"area">>}, types : {0, ACKED}]]
HistoryReadRawResult == [values : {<<"v1", "v2">>}, continuation_point : {"", "more"}]

\* An event whose severity fits the wire, and one whose severity does not and
\* that names its source only by node.
Event ==
  {[event_id |-> 66051, event_type_id |-> "type", source_node_id |-> "source",
    source_name |-> s[1], time |-> "t", receive_time |-> "r", message |-> "text",
    severity |-> s[2], value |-> <<"Int32", 7>>, qualifier |-> 1, change_mask |-> 2,
    user_id |-> "user", acked |-> TRUE, acknowledged_time |-> "a",
    acknowledged_user_id |-> "operator"] : s \in {<<"name", 500>>, <<"", 65537>>}}
HistoryReadEventsResult == [events : {<<>>} \cup {<<e>> : e \in Event}]
UpdateDataDetails ==
  [kind : {"data"}, node_id : {"node"}, perform_insert_replace : {"Replace"}, values : {<<"v1">>}]
UpdateEventDetails ==
  [kind : {"events"}, node_id : {"node"}, perform_insert_replace : {"Insert"},
   events : {<<e>> : e \in Event}]

NodeAttributes ==
  [browse_name : {"browse"}, display_name : {"", "display"}, data_type : {"Int32"},
   value : {<<>>, <<<<"Int32", 7>>>>}]
AddNodesItem ==
  [requested_id : {"requested"}, parent_id : {"parent"}, node_class : {"Variable", "Object"},
   type_definition_id : {"type"}, attributes : NodeAttributes]
AddNodesResult == [status_code : {Good, CodeOf(Detailed)}, added_node_id : {"added"}]
DeleteNodesItem == [node_id : {"node"}, delete_target_references : BOOLEAN]
AddReferencesItem ==
  [source_node_id : {"source"}, reference_type_id : {"organizes"}, forward : BOOLEAN,
   target_server_uri : {"uri"}, target_node_id : {"target"}, target_node_class : {"Object"}]
DeleteReferencesItem ==
  [source_node_id : {"source"}, reference_type_id : {"organizes"}, forward : {FALSE},
   target_node_id : {"target"}, delete_bidirectional : BOOLEAN]
================================================================================
