--------------------------- MODULE SessionConversion ---------------------------
(***************************************************************************)
(* The bridge between the session and discovery vocabulary of the runtime  *)
(* (the "managed" structures of message.h and server_session_manager.h)    *)
(* and the generated wire structures: discovery_conversion and             *)
(* session_conversion; and those of the view and node-management services: *)
(* browse_conversion and node_attributes_conversion.                       *)
(*                                                                         *)
(* A structure is a record under the source's member names.  A list is a   *)
(* sequence, an optional value a sequence of at most one element, and      *)
(* embedded headers appear as their members (service_result,               *)
(* authentication_token).  Texts, urls, byte strings and numbers are       *)
(* atoms: how they become octets or JSON is the subject of BinaryCodec and *)
(* JsonCodec.                                                              *)
(***************************************************************************)
EXTENDS Sequences

\* TLC's operators for functions, spelled out so that proofs can expand them: a
\* function of one point, and the union of two in which the first wins.
d :> e == [x \in {d} |-> e]
f @@ g == [x \in DOMAIN f \cup DOMAIN g |-> IF x \in DOMAIN f THEN f[x] ELSE g[x]]

\* A conversion that carries a set of members over under their own names.
Carry(r, members) == [f \in members |-> r[f]]

(***************************************************************************)
(* Extension objects: the type is named by its DefaultBinary or its        *)
(* DefaultJson encoding id, and the body is octets or JSON.  Each reader   *)
(* rejects the other's body.                                               *)
(***************************************************************************)
NoExtension == [type |-> "none", id |-> "none", form |-> "none", body |-> <<>>]

ToExtensionObject(type, v) == [type |-> type, id |-> "binary", form |-> "binary", body |-> <<v>>]

ToJsonExtensionObject(type, v) == [type |-> type, id |-> "json", form |-> "json", body |-> <<v>>]

FromExtensionObject(x, type) ==
  IF x.type = type /\ x.id = "binary" /\ x.form = "binary" THEN x.body ELSE <<>>

FromJsonExtensionObject(x, type) ==
  IF x.type = type /\ x.form = "json" THEN x.body ELSE <<>>

FromAnyExtensionObject(x, type) ==
  FromExtensionObject(x, type) \o FromJsonExtensionObject(x, type)

\* Status keeps 32 bits; StatusCode only the upper 16, without the info bits.
CodeOf(status) == [status EXCEPT !.info = 0]
Good == [code |-> "Good", info |-> 0]
Bad(code) == [code |-> code, info |-> 0]
IsBad(status) == status.code # "Good"

(***************************************************************************)
(* discovery_conversion                                                    *)
(***************************************************************************)
ApplicationFields ==
  {"application_uri", "product_uri", "application_name", "application_type",
   "gateway_server_uri", "discovery_profile_uri", "discovery_urls"}
ToUaApplication(m) == Carry(m, ApplicationFields)
FromUaApplication(w) == Carry(w, ApplicationFields)

TokenPolicyFields ==
  {"policy_id", "token_type", "issued_token_type", "issuer_endpoint_url",
   "security_policy_uri"}
ToUaTokenPolicy(m) == Carry(m, TokenPolicyFields)
FromUaTokenPolicy(w) == Carry(w, TokenPolicyFields)

RegisteredServerFields ==
  {"server_uri", "product_uri", "server_names", "server_type", "gateway_server_uri",
   "discovery_urls", "semaphore_file_path", "is_online"}
ToUaRegisteredServer(m) == Carry(m, RegisteredServerFields)
FromUaRegisteredServer(w) == Carry(w, RegisteredServerFields)

EndpointFields ==
  {"endpoint_url", "server_certificate", "security_mode", "security_policy_uri",
   "transport_profile_uri", "security_level"}

Each(seq, Op(_)) == [i \in DOMAIN seq |-> Op(seq[i])]

ToUaEndpoint(m) ==
  Carry(m, EndpointFields)
    @@ [server |-> ToUaApplication(m.server),
        user_identity_tokens |-> Each(m.user_identity_tokens, ToUaTokenPolicy)]

FromUaEndpoint(w) ==
  Carry(w, EndpointFields)
    @@ [server |-> FromUaApplication(w.server),
        user_identity_tokens |-> Each(w.user_identity_tokens, FromUaTokenPolicy)]

\* Only the mDNS configuration is implemented; an entry of another type keeps
\* its place as an empty optional, so that it is refused by index.
DecodeDiscoveryConfiguration(x) == FromAnyExtensionObject(x, "MdnsDiscoveryConfiguration")

ToManagedFindServersRequest(w) == Carry(w, {"endpoint_url", "locale_ids", "server_uris"})
ToManagedGetEndpointsRequest(w) == Carry(w, {"endpoint_url", "locale_ids", "profile_uris"})
ToManagedRegisterServerRequest(w) == [server |-> FromUaRegisteredServer(w.server)]
ToManagedRegisterServer2Request(w) ==
  [server |-> FromUaRegisteredServer(w.server),
   discovery_configuration |-> Each(w.discovery_configuration, DecodeDiscoveryConfiguration)]

ToWireFindServersResponse(m) ==
  [service_result |-> m.status, servers |-> Each(m.servers, ToUaApplication)]
ToWireGetEndpointsResponse(m) ==
  [service_result |-> m.status, endpoints |-> Each(m.endpoints, ToUaEndpoint)]
ToWireRegisterServerResponse(m) == [service_result |-> m.status]
ToWireRegisterServer2Response(m) ==
  [service_result |-> m.status, configuration_results |-> Each(m.configuration_results, CodeOf)]

ToWireFindServersRequest(m) == Carry(m, {"endpoint_url", "locale_ids", "server_uris"})
ToWireGetEndpointsRequest(m) == Carry(m, {"endpoint_url", "locale_ids", "profile_uris"})
ToWireRegisterServerRequest(m) == [server |-> ToUaRegisteredServer(m.server)]

\* Placeholders of unsupported configurations are not sent on.
ToWireRegisterServer2Request(m) ==
  LET supported == SelectSeq(m.discovery_configuration, LAMBDA c : c # <<>>)
  IN  [server |-> ToUaRegisteredServer(m.server),
       discovery_configuration |->
         Each(supported, LAMBDA c : ToExtensionObject("MdnsDiscoveryConfiguration", c[1]))]

ToManagedFindServersResponse(w) ==
  [status |-> w.service_result, servers |-> Each(w.servers, FromUaApplication)]
ToManagedGetEndpointsResponse(w) ==
  [status |-> w.service_result, endpoints |-> Each(w.endpoints, FromUaEndpoint)]
ToManagedRegisterServerResponse(w) == [status |-> w.service_result]
ToManagedRegisterServer2Response(w) ==
  [status |-> w.service_result, configuration_results |-> Each(w.configuration_results, CodeOf)]

(***************************************************************************)
(* session_conversion                                                      *)
(***************************************************************************)
Unset == [user_name |-> <<>>, password |-> <<>>, allow_anonymous |-> FALSE,
          encrypted_password |-> "", password_encryption_algorithm |-> ""]

\* An encrypted password is kept for the manager to decrypt, a clear one is used.
ApplyUserNameToken(token) ==
  [Unset EXCEPT
     !.user_name = <<token.user_name>>,
     !.password = IF token.encryption_algorithm = "" THEN <<token.password>> ELSE <<>>,
     !.encrypted_password = IF token.encryption_algorithm = "" THEN "" ELSE token.password,
     !.password_encryption_algorithm = token.encryption_algorithm]

\* The credentials of an identity token, or none when it is unsupported.
DecodeUserIdentityToken(x) ==
  IF FromAnyExtensionObject(x, "AnonymousIdentityToken") # <<>>
    THEN <<[Unset EXCEPT !.allow_anonymous = TRUE]>>
    ELSE Each(FromAnyExtensionObject(x, "UserNameIdentityToken"), ApplyUserNameToken)

ToManagedCreateSessionRequest(w) ==
  [requested_timeout |-> w.requested_session_timeout]
    @@ Carry(w, {"endpoint_url", "client_certificate", "client_nonce"})

\* Refused when the token in the header is not numeric or the identity token is
\* not understood.  No session id and no wish to displace another session came.
ToManagedActivateSessionRequest(w) ==
  LET credentials == DecodeUserIdentityToken(w.user_identity_token)
  IN  IF w.authentication_token.numeric
        THEN Each(credentials, LAMBDA c :
               c @@ [session_id |-> "", delete_existing |-> FALSE,
                     authentication_token |-> w.authentication_token,
                     client_signature_algorithm |-> w.client_signature.algorithm,
                     client_signature |-> w.client_signature.signature])
        ELSE <<>>

ToManagedCloseSessionRequest(w) ==
  [session_id |-> "", authentication_token |-> w.authentication_token]

ToWireCreateSessionResponse(m) ==
  [service_result |-> m.status, revised_session_timeout |-> m.revised_timeout,
   server_endpoints |-> Each(m.server_endpoints, ToUaEndpoint)]
    @@ Carry(m, {"session_id", "authentication_token", "server_nonce", "server_certificate"})
ToWireActivateSessionResponse(m) == [service_result |-> m.status]
ToWireCloseSessionResponse(m) == [service_result |-> m.status]

\* A caller that does not know which url it dialled sends a placeholder.
ToWireCreateSessionRequest(m) ==
  [endpoint_url |-> IF m.endpoint_url = "" THEN "opc.tcp://localhost:4840" ELSE m.endpoint_url,
   session_name |-> "binary-session",
   requested_session_timeout |-> m.requested_timeout]
    @@ Carry(m, {"client_nonce", "client_certificate"})

\* The conversion itself sends passwords in the clear and no encryption algorithm;
\* an encrypted password, delete_existing and the session id are not sent.
ToWireActivateSessionRequest(m) ==
  [client_signature |-> [algorithm |-> m.client_signature_algorithm,
                         signature |-> m.client_signature],
   user_identity_token |->
     IF m.allow_anonymous
       THEN ToExtensionObject("AnonymousIdentityToken", [policy_id |-> ""])
       ELSE ToExtensionObject("UserNameIdentityToken",
              [user_name |-> IF m.user_name = <<>> THEN "" ELSE m.user_name[1],
               password |-> IF m.password = <<>> THEN "" ELSE m.password[1],
               encryption_algorithm |-> ""])]

ToWireCloseSessionRequest(m) == [delete_subscriptions |-> TRUE]

ToManagedCreateSessionResponse(w) ==
  [status |-> w.service_result, revised_timeout |-> w.revised_session_timeout,
   server_endpoints |-> Each(w.server_endpoints, FromUaEndpoint)]
    @@ Carry(w, {"session_id", "authentication_token", "server_nonce", "server_certificate"})
ToManagedActivateSessionResponse(w) == [status |-> w.service_result]
ToManagedCloseSessionResponse(w) == [status |-> w.service_result]

(***************************************************************************)
(* browse_conversion                                                       *)
(***************************************************************************)
DescriptionFields ==
  {"node_id", "reference_type_id", "include_subtypes", "node_class_mask", "result_mask"}
DescriptionToHandWritten(w) == Carry(w, DescriptionFields) @@ [direction |-> w.browse_direction]
DescriptionToGenerated(m) == Carry(m, DescriptionFields) @@ [browse_direction |-> m.direction]

\* The wire names other servers and namespaces; only the local part is kept.
Expanded(id) == [id |-> id, namespace_uri |-> "", server_index |-> 0]
ReferenceFields == {"reference_type_id", "node_class", "browse_name", "display_name"}
ReferenceToHandWritten(w) ==
  Carry(w, ReferenceFields)
    @@ [forward |-> w.is_forward, node_id |-> w.node_id.id, type_definition |-> w.type_definition.id]
ReferenceToGenerated(m) ==
  Carry(m, ReferenceFields)
    @@ [is_forward |-> m.forward, node_id |-> Expanded(m.node_id),
        type_definition |-> Expanded(m.type_definition)]

BrowseResultToHandWritten(w) ==
  [status_code |-> CodeOf(w.status_code), continuation_point |-> w.continuation_point,
   references |-> Each(w.references, ReferenceToHandWritten)]
BrowseResultToGenerated(m) ==
  [status_code |-> CodeOf(m.status_code), continuation_point |-> m.continuation_point,
   references |-> Each(m.references, ReferenceToGenerated)]

PathElementFields == {"reference_type_id", "include_subtypes", "target_name"}
PathElementToHandWritten(w) == Carry(w, PathElementFields) @@ [inverse |-> w.is_inverse]
PathElementToGenerated(m) == Carry(m, PathElementFields) @@ [is_inverse |-> m.inverse]
TargetToHandWritten(w) == Carry(w, {"target_id", "remaining_path_index"})
TargetToGenerated(m) == Carry(m, {"target_id", "remaining_path_index"})

BrowsePathToHandWritten(w) ==
  [node_id |-> w.starting_node, relative_path |-> Each(w.relative_path, PathElementToHandWritten)]
BrowsePathToGenerated(m) ==
  [starting_node |-> m.node_id, relative_path |-> Each(m.relative_path, PathElementToGenerated)]

PathResultToHandWritten(w) ==
  [status_code |-> CodeOf(w.status_code), targets |-> Each(w.targets, TargetToHandWritten)]
PathResultToGenerated(m) ==
  [status_code |-> CodeOf(m.status_code), targets |-> Each(m.targets, TargetToGenerated)]

(***************************************************************************)
(* node_attributes_conversion.  The node class picks the type of the body; *)
(* only variables and their types carry a data type and a value.           *)
(***************************************************************************)
AttributesType ==
  [Variable |-> "VariableAttributes", VariableType |-> "VariableTypeAttributes",
   Method |-> "MethodAttributes", ObjectType |-> "ObjectTypeAttributes",
   ReferenceType |-> "ReferenceTypeAttributes", DataType |-> "DataTypeAttributes",
   View |-> "ViewAttributes", Object |-> "ObjectAttributes"]
Valued(class) == class \in {"Variable", "VariableType"}

\* The mask names what is set; a body also carries the defaults of what is not.
BuildCommon(a) ==
  [display_name |-> a.display_name,
   specified |-> IF a.display_name = "" THEN {} ELSE {"DisplayName"}]
BuildValued(a) ==
  [display_name |-> a.display_name, data_type |-> a.data_type,
   value |-> IF a.value = <<>> THEN <<"Null">> ELSE a.value[1],
   specified |-> (IF a.display_name = "" THEN {} ELSE {"DisplayName"})
                   \cup (IF a.data_type = "" THEN {} ELSE {"DataType"})
                   \cup (IF a.value = <<>> THEN {} ELSE {"Value"})]

NodeAttributesToExtensionObject(class, a) ==
  ToExtensionObject(AttributesType[class], IF Valued(class) THEN BuildValued(a) ELSE BuildCommon(a))

\* A JSON body is taken whatever type it is named by.
ExtractBody(x, type) ==
  FromExtensionObject(x, type) \o (IF x.form = "json" THEN x.body ELSE <<>>)

NoAttributes == [display_name |-> "", data_type |-> "", value |-> <<>>]
CommonFrom(body) == [NoAttributes EXCEPT !.display_name = body.display_name]

\* The mask is not read: a null value is an absent one.
ValuedFrom(body) ==
  [display_name |-> body.display_name, data_type |-> body.data_type,
   value |-> IF body.value = <<"Null">> THEN <<>> ELSE <<body.value>>]

ExtensionObjectToNodeAttributes(class, x) ==
  LET body == ExtractBody(x, AttributesType[class])
  IN  IF body = <<>> THEN NoAttributes
      ELSE IF Valued(class) THEN ValuedFrom(body[1]) ELSE CommonFrom(body[1])
================================================================================
