------------------------------- MODULE Connect -------------------------------
(***************************************************************************)
(* How a client gets to a server and leaves it: ClientSession::Connect,    *)
(* Disconnect and its service calls (opcua/client/client_session.cpp), the *)
(* session handshake under it (client_protocol_session.cpp), the           *)
(* DiscoveryClient (discovery_client.cpp), and the server that answers     *)
(* (server_runtime.cpp, server_session_manager.cpp, secure_channel.cpp).   *)
(*                                                                         *)
(* A client opens a connection (Hello, OpenSecureChannel) for one purpose  *)
(* at a time: to ask for the endpoints, to send one discovery request, or  *)
(* to hold a session.  Every await of the client is a request on the wire  *)
(* that the server answers, or that fails when the connection breaks.  The *)
(* server may restart with another configuration at any point, and the     *)
(* operator may trust a certificate the client rejected.                   *)
(*                                                                         *)
(* Bounds.  MaxOperations operations, MaxFaults broken connections,        *)
(* MaxRestarts restarts.  A client does one operation at a time, and asks  *)
(* a DiscoveryClient, which shares nothing with the session, when it holds *)
(* none.                                                                   *)
(***************************************************************************)
EXTENDS Discovery, SecureFrames

CONSTANTS Servers,          \* configurations the server may run with
          Parameters,       \* what the operations of a client may be given
          InitialFiles,     \* contents of its PKI directories at start
          Sizes,            \* sizes a service body may have
          MaxOperations, MaxFaults, MaxRestarts

ASSUME ConnectAssumption ==
    /\ \A s \in Servers : IsEndpointList(s.endpoints)
    /\ \A p \in Parameters : IsUrlList(p.discovery_urls)
    /\ Sizes \subseteq Nat /\ Sizes # {}
    /\ \A f \in InitialFiles :
         DOMAIN f = {"trusted", "issuers", "crls", "keeps_rejected", "rejected"}
    /\ MaxOperations \in Nat /\ MaxFaults \in Nat /\ MaxRestarts \in Nat

VARIABLES server,           \* configuration, registrations and session of the server
          conn,             \* the server's end of the client's connection
          files,            \* the client's PKI directories
          client,           \* ClientSession
          op,               \* the client's operation and where it is suspended
          wire,             \* what is on its way on the connection
          notified,         \* the last session_state_changed_ signal
          restarts, faults, operations

vars == <<server, conn, files, client, op, wire, notified, restarts, faults, operations>>

(***************************************************************************)
(* Values.                                                                 *)
(***************************************************************************)
Silent == [kind |-> "silent"]
Failed == [kind |-> "failed"]
Request(frame) == [kind |-> "request", frame |-> frame]
Response(frame) == [kind |-> "response", frame |-> frame]

\* An encoded body: its fields and its length in bytes.
WithLength(len, body) ==
    [f \in DOMAIN body \cup {"len"} |-> IF f = "len" THEN len ELSE body[f]]

Nonce(x) == [id |-> x, len |-> 32]
NoNonce == [id |-> <<>>, len |-> 0]
NoKeys == [secret |-> NoNonce, seed |-> NoNonce]
ChannelId == 1
TokenId == 1

\* TransportLimits of both ends.
DefaultLimits == [protocol_version |-> 0, receive_buffer_size |-> 65535,
                  send_buffer_size |-> 65535, max_message_size |-> 0, max_chunk_count |-> 0]

Closed == [open |-> FALSE, hello_received |-> FALSE, opened |-> FALSE, secure |-> FALSE,
           client_certificate |-> NoCertificate, keys |-> NoKeys]
Accepted == [Closed EXCEPT !.open = TRUE]

NoSession == [nonce |-> NoNonce, certificate |-> NoCertificate, activated |-> FALSE]

\* A ClientSession without its stack, as constructed and after Reset.
NoStack == [session |-> FALSE, is_connected |-> FALSE, namespace_table |-> <<>>]

Idle == [pc |-> "idle", kind |-> "none", params |-> Missing, then |-> "none",
         security |-> Unsecured, keys |-> NoKeys, offered |-> <<>>,
         expected |-> NoCertificate, size |-> 0, disturbed |-> FALSE,
         result |-> "none", found |-> <<>>, refused |-> FALSE]

UsesBasic256Sha256(security) ==
    security.security_policy_uri # "None" /\ security.security_mode # "None"

Init ==
    /\ \E s \in Servers : server = [config |-> s, registered |-> <<>>, session |-> NoSession]
    /\ conn = Closed
    /\ files \in InitialFiles
    /\ client = NoStack
    /\ op = Idle
    /\ wire = Silent
    /\ notified = "none"
    /\ restarts = 0 /\ faults = 0 /\ operations = 0

(***************************************************************************)
(* The server.  Handlers take the server and a request body and give the   *)
(* answer and what they change.                                            *)
(***************************************************************************)
Answer(s, body) == [server |-> s, body |-> body]

ServeGetEndpoints(s, body) ==
    Answer(s, [type |-> "GetEndpointsResponse",
               endpoints |-> HandleGetEndpoints(s.config.endpoints, body)])

ServeFindServers(s, body) ==
    Answer(s, [type |-> "FindServersResponse",
               servers |-> HandleFindServers(s.config.endpoints, s.registered, body)])

\* register_server_ is the application's: here one that may insist on a secure
\* channel.
RegisterServerHandler(s, registration) ==
    IF s.config.secure_register /\ ~conn.secure THEN "Bad"
    ELSE "Good"

Registered(s, body, capabilities) ==
    Append(s.registered, [server_uri |-> body.server_uri, product_uri |-> "product",
                          discovery_urls |-> body.discovery_urls, demanded |-> body.demanded,
                          capabilities |-> capabilities, channel_secure |-> conn.secure,
                          client_certificate |-> conn.client_certificate])

HandleRegisterServer(s, body) ==
    LET status == RegisterServerHandler(s, body)
    IN  Answer(IF status = "Good" THEN [s EXCEPT !.registered = Registered(s, body, {})] ELSE s,
               [type |-> "RegisterServerResponse", status |-> status])

HandleRegisterServer2(s, body) ==
    LET status == RegisterServerHandler(s, body)
        capabilities == ServerCapabilities(body.discovery_configuration)
    IN  Answer(IF status = "Good"
               THEN [s EXCEPT !.registered = Registered(s, body, capabilities)] ELSE s,
               [type |-> "RegisterServer2Response", status |-> status,
                configuration_results |-> ConfigurationResults(body.discovery_configuration)])

MakeServerNonce == Nonce(<<"session", operations>>)

\* The session is bound to the certificate of a secured channel; the endpoints
\* are worded for the URL of the request.
HandleCreateSession(s, body) ==
    LET mismatch == conn.secure /\ (\/ ~Parses(body.client_certificate)
                                    \/ body.client_certificate # conn.client_certificate)
        session == [nonce |-> MakeServerNonce,
                    certificate |-> body.client_certificate, activated |-> FALSE]
        endpoints == ReachableEndpoints(s.config.endpoints, body.endpoint_url, {})
    IN  IF mismatch
        THEN Answer(s, [type |-> "CreateSessionResponse",
                        status |-> "Bad_ApplicationSignatureInvalid",
                        nonce |-> NoNonce, certificate |-> NoCertificate,
                        endpoints |-> endpoints])
        ELSE Answer([s EXCEPT !.session = session],
                    [type |-> "CreateSessionResponse", status |-> "Good",
                     nonce |-> session.nonce, certificate |-> s.config.certificate, endpoints |-> endpoints])

VerifyApplicationSignature(certificate, server_certificate, nonce, signature) ==
    RsaPkcs1Sha256Verify(certificate, <<server_certificate, nonce>>, signature)

\* The authenticator is the application's: it knows the user "operator".  The
\* token of the request is the one this connection was given.
HandleActivateSession(s, body) ==
    LET signed == \/ ~Parses(s.session.certificate)
                  \/ VerifyApplicationSignature(s.session.certificate, s.config.certificate,
                                                s.session.nonce, body.signature)
        status == IF ~signed THEN "Bad_ApplicationSignatureInvalid"
                  ELSE IF body.user \in {"", "operator"} THEN "Good"
                  ELSE "Bad_UserAccessDenied"
    IN  Answer(IF status = "Good" THEN [s EXCEPT !.session.activated = TRUE] ELSE s,
               [type |-> "ActivateSessionResponse", status |-> status])

HandleCloseSession(s, body) ==
    Answer([s EXCEPT !.session = NoSession], [type |-> "CloseSessionResponse"])

\* A Read of Server_NamespaceArray, or any other service of an attached session.
HandleRead(s, body) ==
    Answer(s, IF ~s.session.activated \/ s.config.namespaces.unreadable
              THEN [type |-> "ServiceFault", status |-> "Bad"]
              ELSE [type |-> "ReadResponse", value |-> s.config.namespaces.array])

Handle(s, body) ==
    CASE body.type = "GetEndpoints" -> ServeGetEndpoints(s, body)
      [] body.type = "FindServers" -> ServeFindServers(s, body)
      [] body.type = "RegisterServer" -> HandleRegisterServer(s, body)
      [] body.type = "RegisterServer2" -> HandleRegisterServer2(s, body)
      [] body.type = "CreateSession" -> HandleCreateSession(s, body)
      [] body.type = "ActivateSession" -> HandleActivateSession(s, body)
      [] body.type = "CloseSession" -> HandleCloseSession(s, body)
      [] body.type = "Read" -> HandleRead(s, body)

(***************************************************************************)
(* The server's end of the connection.                                     *)
(***************************************************************************)
\* A connection the server gives up leaves the client's read failing.
Drop == wire' = Failed /\ conn' = Closed

\* An ERR frame is the server's last word before it closes.
WriteErrorAndClose(status) ==
    /\ wire' = Response(EncodeErrorMessage(status))
    /\ conn' = Closed

Arrives(type) == wire.kind = "request" /\ conn.open /\ IsFrame(wire.frame, type)

HandleHello ==
    /\ Arrives("Hello")
    /\ LET hello == DecodeHelloMessage(wire.frame)
           acknowledge == NegotiateHello(hello, DefaultLimits)
       IN  IF conn.hello_received \/ Broken(hello) THEN WriteErrorAndClose("Bad")
           ELSE IF Broken(acknowledge) THEN WriteErrorAndClose("Bad")
           ELSE /\ wire' = Response(EncodeAcknowledgeMessage(acknowledge))
                /\ conn' = [conn EXCEPT !.hello_received = TRUE]
    /\ UNCHANGED <<server, files, client, op, notified, restarts, faults, operations>>

\* What the server's certificate and key allow.
MakeSecureChannelServerConfig(config) ==
    [allow_none |-> config.allow_none,
     certificate_thumbprint |-> CertificateThumbprint(config.certificate),
     allow_basic256sha256 |-> Parses(config.certificate) /\ config.private_key]

BuildOpenResponse(request_id, result) ==
    EncodeSecureConversationMessage("SecureOpen", ChannelId, [security_policy_uri |-> "None"],
        request_id, EncodeOpenResponse(result, ChannelId, TokenId, NoNonce))

HandleOpenNone ==
    /\ Arrives("SecureOpen")
    /\ wire.frame.prefix.security_policy_uri = "None"
    /\ LET message == DecodeSecureConversationMessage(wire.frame, "SecureOpen")
           request == DecodeOpenRequest(message.body)
           result == IF request.security_mode = "None" THEN "Good" ELSE "Bad"
       IN  IF ~conn.hello_received THEN WriteErrorAndClose("Bad")
           ELSE IF \/ ~MakeSecureChannelServerConfig(server.config).allow_none
                   \/ Broken(request)
                THEN Drop
           ELSE /\ wire' = Response(BuildOpenResponse(message.request_id, result))
                /\ conn' = [conn EXCEPT !.opened = (result = "Good")]
    /\ UNCHANGED <<server, files, client, op, notified, restarts, faults, operations>>

\* Signed with the server's key and encrypted to the client's.
BuildSecureOpenResponse(own, peer, request_id, nonce) ==
    IF peer.key <= kRsaOaepSha1Overhead \/ own.key = 0 THEN Bad
    ELSE BuildAsymmetricFrame(own, peer, "Basic256Sha256", request_id,
                              EncodeOpenResponse("Good", ChannelId, TokenId, nonce))

\* validate_client_certificate is the application's: config.accepts.
HandleOpenSecure ==
    /\ Arrives("SecureOpen")
    /\ wire.frame.prefix.security_policy_uri = "Basic256Sha256"
    /\ LET own == server.config.certificate
           config == MakeSecureChannelServerConfig(server.config)
           prefix == wire.frame.prefix
           sender == prefix.sender_certificate
           chunk == DecodeAsymmetricFrame(own, sender, wire.frame)
           nonce == Nonce(<<"server", operations>>)
           response == BuildSecureOpenResponse(own, sender, chunk.request_id, nonce)
       IN  IF ~conn.hello_received THEN WriteErrorAndClose("Bad")
           ELSE IF
              \/ ~config.allow_basic256sha256
              \/ prefix.receiver_certificate_thumbprint # config.certificate_thumbprint
              \/ sender.id \notin server.config.accepts
              \/ Broken(chunk)
           THEN Drop
           ELSE IF \/ Broken(DecodeOpenRequest(chunk.body))
                   \/ chunk.body.security_mode # "SignAndEncrypt"
                   \/ chunk.body.client_nonce.len # 32
                   \/ Broken(response)
                THEN Drop
           ELSE /\ wire' = Response(response)
                /\ conn' = [conn EXCEPT !.opened = TRUE, !.secure = TRUE,
                                        !.client_certificate = sender,
                                        !.keys = [secret |-> nonce,
                                                  seed |-> chunk.body.client_nonce]]
    /\ UNCHANGED <<server, files, client, op, notified, restarts, faults, operations>>

\* Keys the server opens a chunk with, and those it seals an answer with.
InboundKeys == DeriveBasic256Sha256Keys(conn.keys.secret, conn.keys.seed)
OutboundKeys == DeriveBasic256Sha256Keys(conn.keys.seed, conn.keys.secret)

ServerDecode(frame) ==
    IF conn.secure THEN DecodeSymmetricFrame(InboundKeys, ChannelId, TokenId, frame)
    ELSE LET message == DecodeSecureConversationMessage(frame, "SecureMessage")
         IN  IF \/ Broken(message)
                \/ message.secure_channel_id # ChannelId
                \/ message.security.token_id # TokenId
             THEN Bad ELSE message

BuildSecureServiceResponse(request_id, body) ==
    BuildSymmetricFrame("SecureMessage", OutboundKeys, ChannelId, TokenId, request_id, body)

BuildServiceResponse(request_id, body) ==
    IF conn.secure THEN BuildSecureServiceResponse(request_id, body)
    ELSE EncodeSecureConversationMessage("SecureMessage", ChannelId, [token_id |-> TokenId],
                                         request_id, body)

HandleSecureMessage ==
    /\ Arrives("SecureMessage")
    /\ LET chunk == ServerDecode(wire.frame)
           answer == Handle(server, chunk.body)
       IN  IF ~conn.opened \/ Broken(chunk) THEN Drop /\ UNCHANGED server
           ELSE /\ server' = answer.server
                /\ wire' = Response(BuildServiceResponse(chunk.request_id,
                               WithLength(chunk.body.len + 3, answer.body)))
                /\ UNCHANGED conn
    /\ UNCHANGED <<files, client, op, notified, restarts, faults, operations>>

\* A request on a connection that is gone.
Unreachable ==
    /\ wire.kind = "request" /\ ~conn.open
    /\ wire' = Failed
    /\ UNCHANGED <<server, conn, files, client, op, notified, restarts, faults, operations>>

(***************************************************************************)
(* The client: sending.                                                    *)
(***************************************************************************)
ClientKeys(keys) == DeriveBasic256Sha256Keys(keys.secret, keys.seed)
ServerKeys(keys) == DeriveBasic256Sha256Keys(keys.seed, keys.secret)

SendRequest(o, body) ==
    Request(
       IF UsesBasic256Sha256(o.security)
       THEN BuildSymmetricFrame("SecureMessage", ClientKeys(o.keys), ChannelId, TokenId,
                                operations, WithLength(o.size, body))
       ELSE EncodeSecureConversationMessage("SecureMessage", ChannelId, [token_id |-> TokenId],
                                            operations, WithLength(o.size, body)))

DecodeServiceMessageChunk(frame) ==
    IF UsesBasic256Sha256(op.security)
    THEN DecodeSymmetricFrame(ServerKeys(op.keys), ChannelId, TokenId, frame)
    ELSE LET message == DecodeSecureConversationMessage(frame, "SecureMessage")
         IN  IF \/ Broken(message)
                \/ message.secure_channel_id # ChannelId
                \/ message.security.token_id # TokenId
             THEN Bad ELSE message

\* What ReadResponse makes of the answer: a body, or Bad.
ReadResponse ==
    IF wire.kind = "failed" THEN Bad
    ELSE LET chunk == DecodeServiceMessageChunk(wire.frame)
         IN  IF Broken(chunk) THEN Bad ELSE chunk.body

\* A typed answer without a fault.
Answered(body, type) == ~Broken(body) /\ body.type = type

EndpointUrl(p) ==
    IF p.connection_string # NoUrl THEN p.connection_string
    ELSE [scheme |-> "opc.tcp", host |-> p.host, port |-> 4840]

\* A new transport, opened up to the Hello.
Dial(security, then, o) ==
    /\ op' = [o EXCEPT !.pc = "hello", !.then = then, !.security = security,
                       !.keys = NoKeys]
    /\ wire' = Request(EncodeHelloMessage(HelloMessage(DefaultLimits, EndpointUrl(o.params))))
    /\ conn' = Accepted

\* The client's end is gone: nothing is on its way any more.
HangUp == wire' = Silent /\ conn' = Closed

\* The namespace table is not part of what Reset clears.
Reset == client' = [client EXCEPT !.session = FALSE, !.is_connected = FALSE]
NotifyStateChanged(connected) == notified' = connected

\* An operation ends.  A Connect that fails tells its observers, and one that
\* has built its stack tears it down.
Done(o, result) == op' = [o EXCEPT !.pc = "idle", !.result = result]

Fail(o, status) ==
    /\ Done(o, status)
    /\ HangUp
    /\ IF o.kind = "connect" THEN NotifyStateChanged("down") ELSE UNCHANGED notified
    /\ IF o.kind = "connect" THEN Reset ELSE UNCHANGED client

(***************************************************************************)
(* The client: opening a connection.                                       *)
(***************************************************************************)
BuildPlaintextOpenFrame(security, nonce) ==
    EncodeSecureConversationMessage("SecureOpen", 0,
        [security_policy_uri |-> security.security_policy_uri], operations,
        EncodeOpenRequest(security.security_mode, nonce))

OpenFrame(security, nonce) ==
    IF UsesBasic256Sha256(security)
    THEN BuildAsymmetricFrame(security.client_certificate, security.server_certificate,
                              security.security_policy_uri, operations,
                              EncodeOpenRequest(security.security_mode, nonce))
    ELSE BuildPlaintextOpenFrame(security, NoNonce)

\* What Connect of the transport makes of the first frame.
FirstFrameStatus ==
    CASE wire.kind = "failed" -> "Bad"
      [] IsFrame(wire.frame, "Acknowledge") ->
           IF Broken(DecodeAcknowledgeMessage(wire.frame)) THEN "Bad" ELSE "Good"
      [] IsFrame(wire.frame, "Error") -> DecodeErrorMessage(wire.frame).error
      [] OTHER -> "Bad"

\* ClientTransport::Connect resumes with the first frame; the channel is opened.
OnAcknowledge ==
    /\ op.pc = "hello" /\ wire.kind \in {"response", "failed"}
    /\ LET frame == OpenFrame(op.security, Nonce(<<"client", operations>>))
       IN  IF FirstFrameStatus # "Good" THEN Fail(op, FirstFrameStatus)
           ELSE IF Broken(frame) THEN Fail(op, "Bad")
           ELSE /\ op' = [op EXCEPT !.pc = "open"]
                /\ wire' = Request(frame)
                /\ UNCHANGED <<conn, client, notified>>
    /\ UNCHANGED <<server, files, restarts, faults, operations>>

OpenedBody ==
    IF wire.kind = "failed" THEN Bad
    ELSE IF UsesBasic256Sha256(op.security)
         THEN LET chunk == DecodeAsymmetricFrame(op.security.client_certificate,
                                                 op.security.server_certificate,
                                                 wire.frame)
              IN  IF Broken(chunk) THEN Bad ELSE DecodeOpenResponse(chunk.body)
    ELSE LET message == DecodeSecureConversationMessage(wire.frame, "SecureOpen")
         IN  IF Broken(message) THEN Bad
             ELSE IF message.security.security_policy_uri # "None" THEN Bad
             ELSE DecodeOpenResponse(message.body)

\* The endpoint URL the client codec puts into every CreateSession request.
PlaceholderUrl == [scheme |-> "opc.tcp", host |-> "localhost", port |-> 4840]

\* The request the connection was opened for.
FirstRequest(o) ==
    CASE o.then = "endpoints" ->
           [type |-> "GetEndpoints", endpoint_url |-> EndpointUrl(o.params),
            profile_uris |-> {}]
      [] o.then = "service" /\ o.kind = "find" ->
           [type |-> "FindServers", endpoint_url |-> EndpointUrl(o.params),
            server_uris |-> o.params.server_uris]
      [] o.then = "service" /\ o.kind = "register" ->
           [type |-> "RegisterServer", server_uri |-> o.params.server_uri,
            discovery_urls |-> o.params.discovery_urls, demanded |-> o.params.settings]
      [] o.then = "service" /\ o.kind = "register2" ->
           [type |-> "RegisterServer2", server_uri |-> o.params.server_uri,
            discovery_urls |-> o.params.discovery_urls, demanded |-> o.params.settings,
            discovery_configuration |->
              <<[mdns_server_name |-> o.params.server_uri,
                 server_capabilities |-> o.params.server_capabilities]>>]
      [] o.then = "create" ->
           [type |-> "CreateSession", client_certificate |-> o.security.client_certificate,
            endpoint_url |-> PlaceholderUrl]

OnOpened ==
    /\ op.pc = "open" /\ wire.kind \in {"response", "failed"}
    /\ LET body == OpenedBody
           opened == [op EXCEPT !.pc = op.then,
                                !.keys = [secret |-> body.server_nonce,
                                          seed |-> Nonce(<<"client", operations>>)]]
       IN  IF Broken(body) THEN Fail(op, "Bad")
           ELSE IF ~body.service_result THEN Fail(op, "Bad")
           ELSE /\ op' = opened
                /\ wire' = SendRequest(opened, FirstRequest(opened))
                /\ UNCHANGED <<conn, client, notified>>
    /\ UNCHANGED <<server, files, restarts, faults, operations>>

(***************************************************************************)
(* The client: operations.  created tells whether CreateTransport worked.  *)
(***************************************************************************)
Begin(created) ==
    /\ op.pc = "idle" /\ operations < MaxOperations
    /\ created \/ faults < MaxFaults
    /\ operations' = operations + 1
    /\ faults' = IF created THEN faults ELSE faults + 1
    /\ UNCHANGED <<server, files, restarts>>

Started(kind, p, size, created) ==
    [Idle EXCEPT !.kind = kind, !.params = p, !.size = size, !.disturbed = ~created]

\* A wrong URL, or no transport for the session: Connect returns unheard.
ReturnSilently(o, status) == Done(o, status) /\ HangUp /\ UNCHANGED <<client, notified>>

\* Connect builds its stack, then ClientProtocolSession::Create opens it.
BuildStack(o, security, created) ==
    IF ~created THEN ReturnSilently(o, "Bad_NoCommunication")
    ELSE /\ Dial(security, "create", o)
         /\ client' = [client EXCEPT !.session = TRUE]
         /\ UNCHANGED notified

\* SendDiscoveryRequest, for the endpoints or for the service itself.
SendDiscoveryRequest(o, security, then, created) ==
    IF ~created THEN Fail(o, "Bad_NoCommunication")
    ELSE Dial(security, then, o) /\ UNCHANGED <<client, notified>>

\* Connect of a client that holds no session.
ConnectAsync(p, size, created) ==
    LET o == Started("connect", p, size, created)
    IN  /\ ~client.session
        /\ Begin(created)
        /\ IF ~ParseOpcTcpUrl(EndpointUrl(p)) THEN ReturnSilently(o, "Bad")
           ELSE IF p.settings.mode = "None" THEN BuildStack(o, Unsecured, created)
           ELSE SendDiscoveryRequest(o, Unsecured, "endpoints", created)

\* BuildChannelSecurity judges the certificate of a secured endpoint and keeps
\* one it rejects.
FilesAfter(settings, chosen) ==
    IF /\ chosen.security_mode # "None" /\ HasTrustStore(settings)
       /\ Parses(ReadCredentials(settings))
    THEN WriteRejected(files, CertificateTrustStore(files), chosen.server_certificate)
    ELSE files

\* Connect does not ask whether there is a session.  Its discovery runs over a
\* connection of its own and leaves the session alone, so it is one step here;
\* reached tells whether a fault spared it.
Offered(p) ==
    HandleGetEndpoints(server.config.endpoints,
                       [endpoint_url |-> EndpointUrl(p), profile_uris |-> {}])

ChosenAgain(p) ==
    SelectEndpoint(Offered(p), ToSecurityPreference(p.settings), CapabilitiesFor(p.settings))

\* Connect returns and the session it was called on goes on.
ReturnOverSession(status, refused) ==
    /\ op' = [op EXCEPT !.kind = "again", !.result = status, !.refused = op.refused \/ refused]
    /\ IF refused THEN NotifyStateChanged("down") ELSE UNCHANGED notified
    /\ UNCHANGED <<conn, client, wire>>

BeginAgain(spared) ==
    /\ op.pc = "idle" /\ client.session /\ operations < MaxOperations
    /\ spared \/ faults < MaxFaults
    /\ operations' = operations + 1
    /\ faults' = IF spared THEN faults ELSE faults + 1
    /\ UNCHANGED <<server, restarts>>

\* A failed discovery is signalled as the end of the session, which stays.
RefusedAgain(p, reached) ==
    LET chosen == ChosenAgain(p)
        answered == reached /\ server.config.allow_none
    IN  /\ BeginAgain(reached)
        /\ ParseOpcTcpUrl(EndpointUrl(p)) /\ p.settings.mode # "None"
        /\ \/ /\ ~answered
              /\ ReturnOverSession("Bad", TRUE) /\ UNCHANGED files
           \/ /\ answered /\ chosen = Missing
              /\ ReturnOverSession("Bad_SecurityModeRejected", TRUE) /\ UNCHANGED files
           \/ /\ answered /\ chosen # Missing
              /\ BuildChannelSecurity(chosen, p.settings, files) = Missing
              /\ ReturnOverSession("Bad_SecurityChecksFailed", TRUE)
              /\ files' = FilesAfter(p.settings, chosen)

\* The new stack takes the place of the old one, whose is_connected_ stays set
\* through the handshake; without a transport for it the old one stays.
ConnectAgain(p, size, created) ==
    LET o == Started("connect", p, size, created)
        chosen == ChosenAgain(p)
        security == BuildChannelSecurity(chosen, p.settings, files)
        Replace(n, channel) == IF created THEN BuildStack(n, channel, TRUE)
                               ELSE ReturnOverSession("Bad_NoCommunication", FALSE)
    IN  /\ BeginAgain(created)
        /\ \/ /\ ~ParseOpcTcpUrl(EndpointUrl(p))
              /\ ReturnOverSession("Bad", FALSE) /\ UNCHANGED files
           \/ /\ ParseOpcTcpUrl(EndpointUrl(p)) /\ p.settings.mode = "None"
              /\ Replace(o, Unsecured) /\ UNCHANGED files
           \/ /\ ParseOpcTcpUrl(EndpointUrl(p)) /\ p.settings.mode # "None"
              /\ server.config.allow_none /\ chosen # Missing /\ security # Missing
              /\ Replace([o EXCEPT !.offered = Offered(p),
                                   !.expected = chosen.server_certificate], security)
              /\ files' = FilesAfter(p.settings, chosen)

\* FindServers, RegisterServer and RegisterServer2 of a DiscoveryClient.
Discover(kind, p, size, created) ==
    LET o == Started(kind, p, size, created)
    IN  /\ ~client.session
        /\ Begin(created)
        /\ IF ~ParseOpcTcpUrl(EndpointUrl(p)) THEN Fail(o, "Bad")
           ELSE SendDiscoveryRequest(o, Unsecured,
                   IF p.settings.mode = "None" THEN "service" ELSE "endpoints", created)

\* The list is in: an endpoint is chosen, its certificate judged, and the
\* connection for the operation itself is dialled.
OnEndpoints(created) ==
    LET body == ReadResponse
        settings == op.params.settings
        chosen == SelectEndpoint(body.endpoints, ToSecurityPreference(settings),
                                 CapabilitiesFor(settings))
        security == BuildChannelSecurity(chosen, settings, files)
        o == [op EXCEPT !.disturbed = op.disturbed \/ ~created]
    IN  /\ op.pc = "endpoints" /\ wire.kind \in {"response", "failed"}
        /\ created \/ faults < MaxFaults
        /\ faults' = IF created THEN faults ELSE faults + 1
        /\ IF ~Answered(body, "GetEndpointsResponse") THEN Fail(op, "Bad") /\ UNCHANGED files
           ELSE IF chosen = Missing THEN Fail(op, "Bad_SecurityModeRejected") /\ UNCHANGED files
           ELSE /\ files' = FilesAfter(settings, chosen)
                /\ IF security = Missing THEN Fail(op, "Bad_SecurityChecksFailed")
                   ELSE IF op.kind = "connect"
                   THEN BuildStack([o EXCEPT !.offered = body.endpoints,
                                             !.expected = chosen.server_certificate],
                                   security, created)
                   ELSE SendDiscoveryRequest(o, security, "service", created)
        /\ UNCHANGED <<server, restarts, operations>>

ServiceResponses == {"FindServersResponse", "RegisterServerResponse", "RegisterServer2Response"}

OnService ==
    LET body == ReadResponse
    IN  /\ op.pc = "service" /\ wire.kind \in {"response", "failed"}
        /\ IF Broken(body) THEN Fail(op, "Bad")
           ELSE IF body.type \notin ServiceResponses THEN Fail(op, "Bad")
           ELSE /\ op.kind = "find" => Done([op EXCEPT !.found = body.servers], "Good")
                /\ op.kind # "find" => Done(op, body.status)
                /\ HangUp
                /\ UNCHANGED <<client, notified>>
        /\ UNCHANGED <<server, files, restarts, faults, operations>>

(***************************************************************************)
(* The client: a session.                                                  *)
(***************************************************************************)
\* SignClientData has no key to sign with on an unsecured channel.
SignClientData(security, data) ==
    IF UsesBasic256Sha256(security) THEN RsaPkcs1Sha256Sign(security.client_certificate, data)
    ELSE [by |-> "", len |-> 0, over |-> data]

Continue(o, body) ==
    /\ op' = o
    /\ wire' = SendRequest(o, body)
    /\ UNCHANGED <<conn, client, notified>>

OnCreated ==
    LET body == ReadResponse
        vouched == /\ op.expected = NoCertificate \/ op.expected = body.certificate
                   /\ EndpointSetsSecurityEquivalent(op.offered, body.endpoints)
    IN  /\ op.pc = "create" /\ wire.kind \in {"response", "failed"}
        /\ IF ~Answered(body, "CreateSessionResponse") THEN Fail(op, "Bad")
           ELSE IF body.status # "Good" THEN Fail(op, body.status)
           ELSE IF ~vouched THEN Fail(op, "Bad")
           ELSE Continue([op EXCEPT !.pc = "activate"],
                         [type |-> "ActivateSession", user |-> op.params.user,
                          signature |-> SignClientData(op.security,
                                                       <<body.certificate, body.nonce>>)])
        /\ UNCHANGED <<server, files, restarts, faults, operations>>

OnActivated ==
    LET body == ReadResponse
    IN  /\ op.pc = "activate" /\ wire.kind \in {"response", "failed"}
        /\ IF ~Answered(body, "ActivateSessionResponse") THEN Fail(op, "Bad")
           ELSE IF body.status # "Good" THEN Fail(op, body.status)
           ELSE /\ op' = [op EXCEPT !.pc = "namespaces"]
                /\ client' = [client EXCEPT !.is_connected = TRUE]
                /\ wire' = SendRequest(op, [type |-> "Read"])
                /\ UNCHANGED <<conn, notified>>
        /\ UNCHANGED <<server, files, restarts, faults, operations>>

\* ReadNamespaceArray: a failed read leaves the table as it was.
OnNamespaces ==
    LET body == ReadResponse
    IN  /\ op.pc = "namespaces" /\ wire.kind \in {"response", "failed"}
        /\ client' = IF Answered(body, "ReadResponse")
                      THEN [client EXCEPT !.namespace_table = body.value] ELSE client
        /\ Done(op, "Good")
        /\ NotifyStateChanged("up")
        /\ wire' = Silent
        /\ UNCHANGED <<server, conn, files, restarts, faults, operations>>

\* A service call of a session that may have lost its connection meanwhile.
Call(size) ==
    /\ op.pc = "idle" /\ client.is_connected /\ operations < MaxOperations
    /\ operations' = operations + 1
    /\ Continue([op EXCEPT !.pc = "call", !.kind = "call", !.size = size,
                           !.disturbed = ~conn.open],
                [type |-> "Read"])
    /\ UNCHANGED <<server, files, restarts, faults>>

\* A session that is not connected refuses a call at once.
CallUnconnected ==
    /\ op.pc = "idle" /\ ~client.is_connected /\ op.result # "Bad_NoCommunication"
    /\ operations < MaxOperations
    /\ operations' = operations + 1
    /\ op' = [Idle EXCEPT !.kind = "call", !.result = "Bad_NoCommunication", !.disturbed = TRUE]
    /\ UNCHANGED <<server, conn, files, client, wire, notified, restarts, faults>>

OnCall ==
    /\ op.pc = "call" /\ wire.kind \in {"response", "failed"}
    /\ Done(op, IF Answered(ReadResponse, "ReadResponse") THEN "Good" ELSE "Bad")
    /\ wire' = Silent
    /\ UNCHANGED <<server, conn, files, client, notified, restarts, faults, operations>>

DisconnectAsync ==
    /\ op.pc = "idle" /\ client.session
    /\ Continue([op EXCEPT !.pc = "close", !.kind = "disconnect"], [type |-> "CloseSession"])
    /\ UNCHANGED <<server, files, restarts, faults, operations>>

\* Defect: observers hear of the end only when the server confirmed it.
OnClosedUnheard ==
    /\ op.pc = "close" /\ wire.kind \in {"response", "failed"}
    /\ op' = [Idle EXCEPT !.kind = "disconnect", !.result = "Good"]
    /\ HangUp
    /\ Reset
    /\ IF wire.kind = "response" THEN NotifyStateChanged("down") ELSE UNCHANGED notified
    /\ UNCHANGED <<server, files, restarts, faults, operations>>

\* Whatever CloseSession answered, the stack goes.
OnClosed ==
    /\ op.pc = "close" /\ wire.kind \in {"response", "failed"}
    /\ op' = [Idle EXCEPT !.kind = "disconnect", !.result = "Good"]
    /\ HangUp
    /\ Reset
    /\ NotifyStateChanged("down")
    /\ UNCHANGED <<server, files, restarts, faults, operations>>

(***************************************************************************)
(* Faults and operators.                                                   *)
(***************************************************************************)
\* A request that was not answered yet fails; an answer that has arrived stays.
Interrupted == IF wire.kind = "request" THEN Failed ELSE wire
Disturbed == [op EXCEPT !.disturbed = TRUE]

LoseConnection ==
    /\ conn.open /\ faults < MaxFaults
    /\ faults' = faults + 1
    /\ conn' = Closed /\ wire' = Interrupted /\ op' = Disturbed
    /\ UNCHANGED <<server, files, client, notified, restarts, operations>>

\* The server comes back with another configuration and without its sessions.
Restart(s) ==
    /\ restarts < MaxRestarts /\ s # server.config
    /\ restarts' = restarts + 1
    /\ server' = [config |-> s, registered |-> <<>>, session |-> NoSession]
    /\ conn' = Closed /\ wire' = Interrupted /\ op' = Disturbed
    /\ UNCHANGED <<files, client, notified, faults, operations>>

\* The operator moves a rejected certificate to the trusted directory.
TrustRejected(c) ==
    /\ op.pc = "idle" /\ ~client.session
    /\ files' = [files EXCEPT !.trusted = @ \cup {c}, !.rejected = @ \ {c}]
    /\ op' = Idle
    /\ UNCHANGED <<server, conn, client, wire, notified, restarts, faults, operations>>

\* Nothing is under way: the only state the system may stop in.
Resting == op.pc = "idle" /\ UNCHANGED vars

(***************************************************************************)
(* The specification.                                                      *)
(***************************************************************************)
ServerStep == HandleHello \/ HandleOpenNone \/ HandleOpenSecure \/ HandleSecureMessage
              \/ Unreachable

ClientStep == OnAcknowledge \/ OnOpened \/ (\E created \in BOOLEAN : OnEndpoints(created))
              \/ OnService \/ OnCreated \/ OnActivated \/ OnNamespaces \/ OnCall \/ OnClosed

Next ==
    \/ ServerStep
    \/ ClientStep
    \/ \E p \in Parameters, size \in Sizes, created \in BOOLEAN :
          \/ ConnectAsync(p, size, created)
          \/ ConnectAgain(p, size, created)
          \/ \E kind \in {"find", "register", "register2"} : Discover(kind, p, size, created)
    \/ \E p \in Parameters, reached \in BOOLEAN : RefusedAgain(p, reached)
    \/ \E size \in Sizes : Call(size)
    \/ CallUnconnected
    \/ DisconnectAsync
    \/ LoseConnection
    \/ \E s \in Servers : Restart(s)
    \/ \E c \in files.rejected : TrustRejected(c)
    \/ Resting

Spec == Init /\ [][Next]_vars

(***************************************************************************)
(* Properties.                                                             *)
(***************************************************************************)

\* The session is up and its connection too, and no Connect is replacing them.
Established ==
    client.is_connected /\ conn.open /\ op.pc \in {"idle", "namespaces", "call", "close"}
Demands(settings) == settings.mode = "SignAndEncrypt" \/ (settings.mode = "Auto" /\ HasTrustStore(settings))

\* BuildChannelSecurity vets the certificate of the endpoint that was offered,
\* over a channel nobody vouches for; the server that answers later may be
\* another.  A client that demands security holds a session only over a channel
\* secured under its own certificate with a server that owns a certificate its
\* trust store accepts, if it has one; a registration it asked for was made
\* over such a channel too.
TrustedPeer ==
    /\ (Established /\ Demands(op.params.settings)) =>
        /\ conn.secure
        /\ conn.client_certificate = op.params.settings.credentials
        /\ HasTrustStore(op.params.settings) =>
             Validate(CertificateTrustStore(files), server.config.certificate)
    /\ \A i \in DOMAIN server.registered :
        Demands(server.registered[i].demanded) =>
            /\ server.registered[i].channel_secure
            /\ server.registered[i].client_certificate = server.registered[i].demanded.credentials

\* The endpoint was picked from a list fetched earlier, before a restart
\* perhaps.  Unless the server lists no endpoints at all, a session runs at
\* the security SelectEndpoint picks from the list the server has now.
SelectionStands ==
    (/\ Established /\ op.params.settings.mode # "None"
     /\ server.config.endpoints # <<>>) =>
        LET best == SelectEndpoint(server.config.endpoints,
                                   ToSecurityPreference(op.params.settings),
                                   CapabilitiesFor(op.params.settings))
        IN  /\ best # Missing
            /\ best.security_mode = op.security.security_mode
            /\ best.security_policy_uri = op.security.security_policy_uri

\* Why a Connect may fail on its own: the URL, a server without an unsecured
\* channel for the bootstrap, the user, no endpoint to choose, or for the
\* chosen one the credentials, the trust in either direction, a certificate
\* that is not the server's, or RSA keys beyond 2048 bits.
Excused(p, s) ==
    LET settings == p.settings
        own == settings.credentials
        chosen == SelectEndpoint(s.endpoints, ToSecurityPreference(settings),
                                 CapabilitiesFor(settings))
    IN  \/ ~ParseOpcTcpUrl(EndpointUrl(p))
        \/ ~s.allow_none
        \/ p.user \notin {"", "operator"}
        \/ settings.mode # "None" /\ chosen = Missing
        \/ /\ settings.mode # "None" /\ chosen # Missing
           /\ chosen.server_certificate # NoCertificate
           /\ chosen.server_certificate # s.certificate
        \/ /\ settings.mode # "None" /\ chosen # Missing
           /\ chosen.security_mode # "None"
           /\ \/ ~Parses(own) \/ ~Parses(chosen.server_certificate)
              \/ own.id \notin s.accepts
              \/ own.key > 256 \/ chosen.server_certificate.key > 256
              \/ HasTrustStore(settings) /\ ~Validate(CertificateTrustStore(files),
                                                     chosen.server_certificate)

\* Discovery, selection, trust, handshake, the checks of CreateSession and the
\* signature of ActivateSession agree with each other: a Connect that no fault
\* and no restart disturbed fails only for one of the reasons above.
RefusalsExplained ==
    (op.pc = "idle" /\ op.kind = "connect" /\ op.result \notin {"none", "Good"} /\ ~op.disturbed)
        => Excused(op.params, server.config)

\* session_state_changed_ is all an observer has: while nothing is under way,
\* the last signal says whether is_connected_ is set, whatever failed and
\* however many operations came before, with one exception: a Connect over a
\* session that its discovery refused has signalled FALSE
\* (client_session.cpp:104, :115), and the session goes on.
LastWordIsTrue ==
    (op.pc = "idle" /\ notified # "none") =>
        (notified = "up" <=> client.is_connected /\ ~op.refused)

\* What FindServers returned is what the client dials next: no server is named
\* twice, no URL has a wildcard host, and the server itself, unless the filter
\* leaves its application URI out, leads with the URL that was dialled when it
\* listens on that transport.
FoundIsDialable ==
    (/\ op.pc = "idle" /\ op.kind = "find" /\ op.result = "Good"
     /\ ~IsWildcardHost(AuthorityHost(EndpointUrl(op.params)))) =>
        /\ \A i, j \in DOMAIN op.found :
              op.found[i].application_uri = op.found[j].application_uri => i = j
        /\ \A i \in DOMAIN op.found :
              \A u \in DOMAIN op.found[i].discovery_urls :
                 LET url == op.found[i].discovery_urls[u]
                 IN  url.scheme # "" => ~IsWildcardHost(AuthorityHost(url))
        /\ ~op.disturbed =>
             \A i \in DOMAIN op.found, e \in DOMAIN server.config.endpoints :
                LET urls == op.found[i].discovery_urls
                IN  (/\ op.found[i].application_uri = server.config.endpoints[e].application_uri
                     /\ MatchesStringFilter(op.found[i].application_uri, op.params.server_uris)
                     /\ \E u \in DOMAIN urls : urls[u].scheme = "opc.tcp") =>
                        urls[1] = EndpointUrl(op.params)
=============================================================================
