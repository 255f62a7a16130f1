---------------------------- MODULE ConnectProofs ----------------------------
(***************************************************************************)
(* Proofs about connecting, for any servers, clients, PKI directories and  *)
(* bounds: the last state signal is is_connected_ whenever nothing is      *)
(* under way, but for a Connect refused over a session that goes on; a     *)
(* client that demands security holds a session only over a channel        *)
(* secured with a server it trusts, at the security it would pick from     *)
(* what the server lists now; what FindServers returned can be dialled.    *)
(***************************************************************************)
EXTENDS Connect, SequenceTheorems, FiniteSetTheorems, TLAPS

(***************************************************************************)
(* The inductive invariant.                                                *)
(***************************************************************************)
Opening == {"hello", "open"}
Talking == {"endpoints", "service", "create", "activate", "namespaces", "call", "close"}

\* The records keep their fields.
IsSequence(s) == s \in Seq({s[i] : i \in DOMAIN s})

Shape ==
    /\ DOMAIN op = DOMAIN Idle
    /\ op.pc \in {"idle"} \cup Opening \cup Talking
    /\ op.size \in Nat
    /\ DOMAIN client = DOMAIN NoStack
    /\ client.session \in BOOLEAN /\ client.is_connected \in BOOLEAN
    /\ DOMAIN conn = DOMAIN Closed
    /\ conn.open \in BOOLEAN /\ conn.secure \in BOOLEAN
    /\ DOMAIN server = {"config", "registered", "session"}
    /\ IsSequence(server.registered)
    /\ DOMAIN files = {"trusted", "issuers", "crls", "keeps_rejected", "rejected"}

\* What observers were told, at every stage of every operation.
SignalInv ==
    /\ client.is_connected => client.session
    /\ ~client.session => notified # "up"
    /\ op.pc = "idle" => /\ notified = "up" <=> client.is_connected /\ ~op.refused
                         /\ client.session => client.is_connected
    /\ op.pc \in Opening \cup {"endpoints", "create", "activate", "namespaces"} => ~op.refused
    /\ op.pc \in {"create", "activate"} => client.session
    /\ op.pc \in Opening => (client.session <=> op.then = "create")
    /\ op.pc \in {"endpoints", "service"} => ~client.session
    /\ op.pc = "namespaces" => client.is_connected
    /\ op.pc = "call" => client.is_connected /\ (notified = "up" <=> ~op.refused)
    /\ op.pc = "close" => client.is_connected

\* The session is up, and no Connect over it is on its way.
Up == client.is_connected /\ op.pc \in {"idle", "namespaces", "call", "close"}

\* What the connection was opened for.
PurposeInv ==
    /\ op.pc \in Opening => op.then \in {"endpoints", "service", "create"}
    /\ op.pc \in {"endpoints", "service", "create"} => op.then = op.pc
    /\ op.pc = "activate" \/ Up => op.then = "create"
    /\ op.pc \in Opening \cup {"endpoints"} =>
         op.kind \in {"connect", "find", "register", "register2"}
    /\ (op.pc \in Opening /\ op.then = "service") => op.kind # "connect"
    /\ (op.pc \in Opening /\ op.then = "create") => op.kind = "connect"
    /\ op.pc \in {"create", "activate"} => op.kind = "connect"

\* The channel security was vetted for this operation.
Vetted(o, f) ==
    Demands(o.params.settings) =>
        /\ o.security.security_policy_uri = "Basic256Sha256"
        /\ o.security.security_mode = "SignAndEncrypt"
        /\ o.security.client_certificate = o.params.settings.credentials
        /\ Parses(o.security.server_certificate)
        /\ HasTrustStore(o.params.settings) =>
             Validate(CertificateTrustStore(f), o.security.server_certificate)
        /\ o.then = "create" => o.expected = o.security.server_certificate

InUse == op.pc \in Opening \cup {"service", "create", "activate"} \/ Up

SecurityInv ==
    /\ op.security.security_mode = "None" => op.security.security_policy_uri = "None"
    /\ (InUse /\ op.then \in {"service", "create"}) => Vetted(op, files)

\* The server's end of the connection agrees with the client's.
Matched ==
    conn.open =>
        /\ conn.secure <=> UsesBasic256Sha256(op.security)
        /\ conn.secure => conn.client_certificate = op.security.client_certificate

ChannelInv ==
    /\ (op.pc = "hello" \/ (op.pc = "open" /\ wire.kind = "request")) =>
         (conn.open => ~conn.secure)
    /\ (op.pc = "open" /\ wire.kind = "response") => Matched
    /\ (op.pc \in Talking \/ Up) => Matched
    /\ (/\ op.pc = "activate" \/ Up
        /\ conn.open /\ Demands(op.params.settings)) =>
         server.config.certificate = op.expected

\* The body a frame of this operation carries.
BodyOf(frame) ==
    IF UsesBasic256Sha256(op.security) THEN frame.sealed.plaintext.body ELSE frame.plain.body

RequestTypes == {"GetEndpoints", "FindServers", "RegisterServer", "RegisterServer2",
                 "CreateSession", "ActivateSession", "CloseSession", "Read"}

Asked(body) ==
    /\ body.type \in RequestTypes
    /\ body.len \in Nat
    /\ body.type \in {"RegisterServer", "RegisterServer2"} =>
         op.pc = "service" /\ body.demanded = op.params.settings
    /\ op.pc = "create" => body.type = "CreateSession"

WireInv ==
    /\ op.pc = "idle" => wire.kind = "silent"
    /\ wire.kind = "request" =>
         /\ op.pc = "hello" => wire.frame.header.code = "HEL"
         /\ op.pc = "open" =>
              /\ wire.frame.header.code = "OPN"
              /\ wire.frame.prefix.security_policy_uri = op.security.security_policy_uri
              /\ UsesBasic256Sha256(op.security) =>
                   wire.frame.prefix.sender_certificate = op.security.client_certificate
         /\ op.pc \in Talking =>
              wire.frame.header.code = "MSG" /\ Asked(BodyOf(wire.frame))
    /\ (/\ op.pc = "create" /\ wire.kind = "response" /\ conn.open
        /\ UsesBasic256Sha256(op.security)) =>
         LET body == BodyOf(wire.frame)
         IN  body.type = "CreateSessionResponse" /\ body.status = "Good" =>
                 body.certificate = server.config.certificate

\* Who asked for a registration, and over what.
RegistrationsVetted(registered) ==
    \A i \in DOMAIN registered :
        Demands(registered[i].demanded) =>
            /\ registered[i].channel_secure
            /\ registered[i].client_certificate = registered[i].demanded.credentials

ConnectInv ==
    /\ Shape /\ SignalInv /\ PurposeInv /\ SecurityInv /\ ChannelInv /\ WireInv
    /\ RegistrationsVetted(server.registered)

(***************************************************************************)
(* Frames.                                                                 *)
(***************************************************************************)
\* A frame is of one type only.
LEMMA TypeOfFrame ==
    ASSUME NEW frame, NEW type, IsFrame(frame, type)
    PROVE  type \in DOMAIN TypeCodes /\ frame.header.code = TypeCodes[type]
<1> DEFINE types == DecodeMessageType(frame.header.code)
<1>1. types # {} /\ type = CHOOSE t \in types : TRUE
    BY DEF IsFrame, DecodeFrameHeader, Broken, Bad
<1>2. type \in types
    BY <1>1
<1> QED
    BY <1>2 DEF DecodeMessageType

\* The codes are distinct.
LEMMA Codes ==
    /\ TypeCodes["Hello"] = "HEL" /\ TypeCodes["SecureOpen"] = "OPN"
    /\ TypeCodes["SecureMessage"] = "MSG"
BY DEF TypeCodes

\* The padding fills the last AES block.
LEMMA PaddingFills ==
    ASSUME NEW n \in Nat
    PROVE  /\ PaddingFor(n, kAesBlockSize) \in Nat
           /\ (n + PaddingFor(n, kAesBlockSize)) % kAesBlockSize = 0
BY DEF PaddingFor, kAesBlockSize

\* A secured message is always built, and carries its body.
LEMMA SymmetricFrameCarries ==
    ASSUME NEW keys, NEW channel, NEW token, NEW id, NEW body, body.len \in Nat,
           NEW frame, frame = BuildSymmetricFrame("SecureMessage", keys, channel, token, id, body)
    PROVE  frame.header.code = "MSG" /\ frame.sealed.plaintext.body = body
<1> DEFINE padding == PaddingFor(SequenceHeaderSize + body.len + 1 + kHmacSha256TagSize,
                                 kAesBlockSize)
           payload == SequenceHeaderSize + body.len + padding + 1
           predicted == SymmetricHeaderSize + payload + kHmacSha256TagSize
           prefix == [channel_id |-> channel, token_id |-> token]
           covered == [header |-> EncodeFrameHeader("SecureMessage", predicted),
                       prefix |-> prefix,
                       request_id |-> id, body |-> body, padding |-> padding]
           tag == HmacSha256(keys.signing_key, covered)
           plain == Plaintext(id, body, padding, tag)
           sealed == AesCbcEncrypt(keys, plain)
<1>1. padding \in Nat /\ (body.len + 41 + padding) % kAesBlockSize = 0
  <2>1. SequenceHeaderSize + body.len + 1 + kHmacSha256TagSize = body.len + 41
      BY DEF SequenceHeaderSize, kHmacSha256TagSize
  <2>2. body.len + 41 \in Nat
      OBVIOUS
  <2> QED
      BY <2>1, <2>2, PaddingFills
<1>2. plain.len % kAesBlockSize = 0
  <2>1. plain.len = SequenceHeaderSize + body.len + padding + 1 + tag.len
      BY DEF Plaintext
  <2>2. tag.len = 32
      BY DEF HmacSha256, kHmacSha256TagSize
  <2> HIDE DEF padding, tag, plain
  <2>3. plain.len = body.len + 41 + padding
      BY <2>1, <2>2, <1>1 DEF SequenceHeaderSize
  <2> QED
      BY <2>3, <1>1
<1>3. sealed = [for |-> <<keys.encrypting_key, keys.initialization_vector>>,
                plaintext |-> plain, len |-> plain.len]
  <2> HIDE DEF plain
  <2> QED BY <1>2 DEF AesCbcEncrypt
<1>4. ~Broken(sealed)
  <2> HIDE DEF plain
  <2>1. "plaintext" \in DOMAIN sealed /\ "plaintext" \notin DOMAIN Bad
      BY <1>3 DEF Bad
  <2> QED BY <2>1 DEF Broken
<1>5. frame = [header |-> EncodeFrameHeader("SecureMessage", SymmetricHeaderSize + sealed.len),
               prefix |-> prefix, sealed |-> sealed, len |-> SymmetricHeaderSize + sealed.len]
    BY <1>4 DEF BuildSymmetricFrame
<1>6. plain.body = body
    BY DEF Plaintext
<1> HIDE DEF plain, sealed
<1>7. frame.sealed.plaintext = plain
    BY <1>5, <1>3
<1>8. frame.header.code = "MSG"
    BY <1>5 DEF EncodeFrameHeader, EncodeMessageType, TypeCodes
<1> QED
    BY <1>6, <1>7, <1>8

\* What a secured message decodes to, if it does.
LEMMA SymmetricFrameGives ==
    ASSUME NEW keys, NEW channel, NEW token, NEW frame,
           ~Broken(DecodeSymmetricFrame(keys, channel, token, frame))
    PROVE  DecodeSymmetricFrame(keys, channel, token, frame).body = frame.sealed.plaintext.body
<1> DEFINE p == AesCbcDecrypt(keys, frame.sealed)
<1>1. ~Broken(p)
    BY DEF DecodeSymmetricFrame, Broken
<1>2. p = frame.sealed.plaintext
    BY <1>1 DEF AesCbcDecrypt, Broken
<1>3. DecodeSymmetricFrame(keys, channel, token, frame) =
          [request_id |-> p.request_id, body |-> p.body]
    BY DEF DecodeSymmetricFrame, Broken
<1> QED
    BY <1>2, <1>3

\* A frame in the clear carries its security header and its body.
LEMMA PlainFrameCarries ==
    ASSUME NEW type, NEW channel, NEW security, NEW id, NEW body,
           NEW frame, frame = EncodeSecureConversationMessage(type, channel, security, id, body)
    PROVE  /\ frame.header.code = TypeCodes[type] /\ frame.prefix = security
           /\ frame.plain.body = body
BY DEF EncodeSecureConversationMessage, EncodeFrameHeader, EncodeMessageType

\* What a frame in the clear decodes to, if it does.
LEMMA PlainFrameGives ==
    ASSUME NEW frame, NEW type, ~Broken(DecodeSecureConversationMessage(frame, type))
    PROVE  DecodeSecureConversationMessage(frame, type).body = frame.plain.body
BY DEF DecodeSecureConversationMessage, Broken

\* The OPN frame of a secured channel names its policy and its sender.
LEMMA AsymmetricFrameCarries ==
    ASSUME NEW own, NEW peer, NEW policy, NEW id, NEW body,
           NEW frame, frame = BuildAsymmetricFrame(own, peer, policy, id, body),
           ~Broken(frame)
    PROVE  /\ frame.header.code = "OPN"
           /\ frame.prefix.security_policy_uri = policy
           /\ frame.prefix.sender_certificate = own
<1> DEFINE prefix == [security_policy_uri |-> policy, sender_certificate |-> own,
                      receiver_certificate_thumbprint |-> peer.id]
<1>1. PICK size, sealed, len :
        frame = [header |-> EncodeFrameHeader("SecureOpen", size),
                 prefix |-> prefix, sealed |-> sealed, len |-> len]
    BY DEF BuildAsymmetricFrame, Broken
<1> QED
    BY <1>1 DEF EncodeFrameHeader, EncodeMessageType, TypeCodes

\* The length goes in front of the other fields.
LEMMA LengthAdded ==
    ASSUME NEW n, NEW body
    PROVE  /\ WithLength(n, body).len = n
           /\ \A f \in DOMAIN body : f # "len" => WithLength(n, body)[f] = body[f]
BY DEF WithLength

\* A request is a message that carries its body, secured or not.
LEMMA RequestCarries ==
    ASSUME NEW o, o.size \in Nat, NEW body
    PROVE  LET sent == SendRequest(o, body)
           IN  /\ sent.kind = "request" /\ sent.frame.header.code = "MSG"
               /\ WithLength(o.size, body) =
                    IF UsesBasic256Sha256(o.security) THEN sent.frame.sealed.plaintext.body
                    ELSE sent.frame.plain.body
<1> DEFINE whole == WithLength(o.size, body)
           frame == SendRequest(o, body).frame
<1>1. whole.len \in Nat
    BY LengthAdded
<1> HIDE DEF whole
<1>2. CASE UsesBasic256Sha256(o.security)
  <2>1. frame = BuildSymmetricFrame("SecureMessage", ClientKeys(o.keys), ChannelId, TokenId,
                                    operations, whole)
      BY <1>2 DEF SendRequest, Request, whole
  <2>2. frame.header.code = "MSG" /\ frame.sealed.plaintext.body = whole
      BY <1>1, <2>1, SymmetricFrameCarries
  <2> QED
      BY <1>2, <2>2 DEF SendRequest, Request, whole
<1>3. CASE ~UsesBasic256Sha256(o.security)
  <2>1. frame = EncodeSecureConversationMessage("SecureMessage", ChannelId,
                                                [token_id |-> TokenId], operations, whole)
      BY <1>3 DEF SendRequest, Request, whole
  <2>2. frame.header.code = "MSG" /\ frame.plain.body = whole
      BY <2>1, PlainFrameCarries, Codes
  <2> QED
      BY <1>3, <2>2 DEF SendRequest, Request, whole
<1> QED
    BY <1>2, <1>3

\* The frame that opens a channel names the policy and the sender.
LEMMA OpenFrameCarries ==
    ASSUME NEW security, NEW nonce, NEW frame, frame = OpenFrame(security, nonce),
           ~Broken(frame)
    PROVE  /\ frame.header.code = "OPN"
           /\ frame.prefix.security_policy_uri = security.security_policy_uri
           /\ UsesBasic256Sha256(security) =>
                frame.prefix.sender_certificate = security.client_certificate
<1>1. CASE UsesBasic256Sha256(security)
  <2>1. frame = BuildAsymmetricFrame(security.client_certificate, security.server_certificate,
                              security.security_policy_uri, operations,
                              EncodeOpenRequest(security.security_mode, nonce))
      BY <1>1 DEF OpenFrame
  <2> QED
      BY <2>1, AsymmetricFrameCarries
<1>2. CASE ~UsesBasic256Sha256(security)
  <2>1. frame = EncodeSecureConversationMessage("SecureOpen", 0,
                    [security_policy_uri |-> security.security_policy_uri], operations,
                    EncodeOpenRequest(security.security_mode, NoNonce))
      BY <1>2 DEF OpenFrame, BuildPlaintextOpenFrame
  <2>2. /\ frame.header.code = "OPN"
        /\ frame.prefix = [security_policy_uri |-> security.security_policy_uri]
      BY <2>1, PlainFrameCarries, Codes
  <2> QED
      BY <1>2, <2>2
<1> QED
    BY <1>1, <1>2

(***************************************************************************)
(* The server's handlers.                                                  *)
(***************************************************************************)
\* A handler leaves the configuration alone, registers only what it is asked
\* to and over the channel it was asked, and vouches for its own certificate.
LEMMA HandleGives ==
    ASSUME NEW s, DOMAIN s = {"config", "registered", "session"},
           NEW body, body.type \in RequestTypes,
           NEW a, a = Handle(s, body)
    PROVE  /\ DOMAIN a.server = DOMAIN s /\ a.server.config = s.config
           /\ \/ a.server.registered = s.registered
              \/ /\ body.type \in {"RegisterServer", "RegisterServer2"}
                 /\ \E e : /\ a.server.registered = Append(s.registered, e)
                           /\ e.demanded = body.demanded
                           /\ e.discovery_urls = body.discovery_urls
                           /\ e.channel_secure = conn.secure
                           /\ e.client_certificate = conn.client_certificate
           /\ body.type = "CreateSession" =>
                /\ {"type", "status", "certificate"} \subseteq DOMAIN a.body
                /\ a.body.status = "Good" => a.body.certificate = s.config.certificate
<1>1. CASE body.type \in {"GetEndpoints", "FindServers", "Read"}
  <2>1. a.server = s
      BY <1>1 DEF Handle, ServeGetEndpoints, ServeFindServers, HandleRead, Answer
  <2> QED
      BY <1>1, <2>1
<1>2. ASSUME NEW capabilities, NEW answer,
             a = Answer(IF RegisterServerHandler(s, body) = "Good"
                        THEN [s EXCEPT !.registered = Registered(s, body, capabilities)] ELSE s,
                        answer),
             body.type \in {"RegisterServer", "RegisterServer2"}
      PROVE  /\ DOMAIN a.server = DOMAIN s /\ a.server.config = s.config
             /\ \/ a.server.registered = s.registered
                \/ \E e : /\ a.server.registered = Append(s.registered, e)
                          /\ e.demanded = body.demanded
                          /\ e.discovery_urls = body.discovery_urls
                          /\ e.channel_secure = conn.secure
                          /\ e.client_certificate = conn.client_certificate
  <2>1. CASE RegisterServerHandler(s, body) = "Good"
    <3>1. a.server = [s EXCEPT !.registered = Registered(s, body, capabilities)]
        BY <1>2, <2>1 DEF Answer
    <3>2. a.server.registered = Registered(s, body, capabilities)
        BY <3>1
    <3> DEFINE e == [server_uri |-> body.server_uri, product_uri |-> "product",
                     discovery_urls |-> body.discovery_urls, demanded |-> body.demanded,
                     capabilities |-> capabilities, channel_secure |-> conn.secure,
                     client_certificate |-> conn.client_certificate]
    <3>3. Registered(s, body, capabilities) = Append(s.registered, e)
        BY DEF Registered
    <3>4. /\ e.demanded = body.demanded /\ e.channel_secure = conn.secure
          /\ e.discovery_urls = body.discovery_urls
          /\ e.client_certificate = conn.client_certificate
        OBVIOUS
    <3>5. DOMAIN a.server = DOMAIN s /\ a.server.config = s.config
        BY <3>1
    <3> HIDE DEF e
    <3> QED
        BY <3>2, <3>3, <3>4, <3>5
  <2>2. CASE RegisterServerHandler(s, body) # "Good"
      BY <1>2, <2>2 DEF Answer
  <2> QED
      BY <2>1, <2>2
<1>3. CASE body.type = "RegisterServer"
  <2>1. a = HandleRegisterServer(s, body)
      BY <1>3 DEF Handle
  <2> QED
      BY <1>2, <1>3, <2>1 DEF HandleRegisterServer
<1>4. CASE body.type = "RegisterServer2"
  <2>1. a = HandleRegisterServer2(s, body)
      BY <1>4 DEF Handle
  <2> QED
      BY <1>2, <1>4, <2>1 DEF HandleRegisterServer2
<1>5. CASE body.type = "CreateSession"
  <2>1. a = HandleCreateSession(s, body)
      BY <1>5 DEF Handle
  <2> DEFINE session == [nonce |-> MakeServerNonce,
                         certificate |-> body.client_certificate, activated |-> FALSE]
             endpoints == ReachableEndpoints(s.config.endpoints, body.endpoint_url, {})
             refusal == [type |-> "CreateSessionResponse",
                         status |-> "Bad_ApplicationSignatureInvalid", nonce |-> NoNonce,
                         certificate |-> NoCertificate, endpoints |-> endpoints]
             consent == [type |-> "CreateSessionResponse", status |-> "Good",
                         nonce |-> session.nonce, certificate |-> s.config.certificate,
                         endpoints |-> endpoints]
  <2>2. \/ a = Answer(s, refusal)
        \/ a = Answer([s EXCEPT !.session = session], consent)
      BY <2>1 DEF HandleCreateSession
  <2> HIDE DEF session, endpoints
  <2>3. CASE a = Answer(s, refusal)
      BY <1>5, <2>3 DEF Answer
  <2>4. CASE a = Answer([s EXCEPT !.session = session], consent)
      BY <1>5, <2>4 DEF Answer
  <2> QED
      BY <2>2, <2>3, <2>4
<1>6. CASE body.type = "ActivateSession"
  <2>1. a = HandleActivateSession(s, body)
      BY <1>6 DEF Handle
  <2> DEFINE session == [s.session EXCEPT !.activated = TRUE]
  <2> DEFINE signed == \/ ~Parses(s.session.certificate)
                       \/ VerifyApplicationSignature(s.session.certificate,
                              s.config.certificate, s.session.nonce, body.signature)
             status == IF ~signed THEN "Bad_ApplicationSignatureInvalid"
                       ELSE IF body.user \in {"", "operator"} THEN "Good"
                       ELSE "Bad_UserAccessDenied"
             after == IF status = "Good" THEN [s EXCEPT !.session = session] ELSE s
             response == [type |-> "ActivateSessionResponse", status |-> status]
  <2>2. a = Answer(after, response)
      BY <2>1 DEF HandleActivateSession
  <2> HIDE DEF session, status, response
  <2>3. a.server = s \/ a.server = [s EXCEPT !.session = session]
    <3>1. a.server = after
        BY <2>2 DEF Answer
    <3> QED
        BY <3>1, Zenon
  <2>4. /\ DOMAIN a.server = DOMAIN s
        /\ a.server.config = s.config /\ a.server.registered = s.registered
      BY <2>3
  <2> QED
      BY <1>6, <2>4
<1>7. CASE body.type = "CloseSession"
  <2>1. a = HandleCloseSession(s, body)
      BY <1>7 DEF Handle
  <2>2. a.server = [s EXCEPT !.session = NoSession]
      BY <2>1 DEF HandleCloseSession, Answer
  <2> QED
      BY <1>7, <2>2
<1> QED
    BY <1>1, <1>3, <1>4, <1>5, <1>6, <1>7 DEF RequestTypes

\* A registration its channel lives up to can be added.
LEMMA RegistrationAdded ==
    ASSUME NEW s, NEW e, NEW t, IsSequence(s), RegistrationsVetted(s), t = Append(s, e),
           Demands(e.demanded) =>
               e.channel_secure /\ e.client_certificate = e.demanded.credentials
    PROVE  IsSequence(t) /\ RegistrationsVetted(t)
<1> DEFINE S == {s[i] : i \in DOMAIN s}
           T == S \cup {e}
<1>1. s \in Seq(T)
  <2>1. s \in Seq(S)
      BY DEF IsSequence
  <2> HIDE DEF S
  <2> QED
      BY <2>1
<1> HIDE DEF T
<1>2. /\ t \in Seq(T) /\ DOMAIN t = 1..(Len(s) + 1) /\ DOMAIN s = 1..Len(s)
      /\ \A i \in 1..Len(s) : t[i] = s[i]
      /\ t[Len(s) + 1] = e
      /\ Len(s) \in Nat
    BY <1>1 DEF T
<1>3. t \in Seq({t[i] : i \in DOMAIN t})
  <2> DEFINE R == {t[i] : i \in DOMAIN t}
  <2>1. \A i \in 1..(Len(s) + 1) : t[i] \in R
      BY <1>2
  <2>2. PICK n \in Nat : t \in [1..n -> T]
    <3>1. Seq(T) = UNION {[1..n -> T] : n \in Nat}
        BY SeqDef
    <3>2. t \in UNION {[1..n -> T] : n \in Nat}
        BY <1>2, <3>1
    <3> QED
        BY <3>2
  <2> HIDE DEF R
  <2>3. t \in [1..n -> R]
      BY <1>2, <2>1, <2>2
  <2>4. t \in Seq(R)
    <3>1. Seq(R) = UNION {[1..k -> R] : k \in Nat}
        BY SeqDef
    <3>2. t \in UNION {[1..k -> R] : k \in Nat}
        BY <2>3
    <3> QED
        BY <3>1, <3>2
  <2> QED
      BY <2>4 DEF R
<1>4. \A i \in DOMAIN t : t[i] = e \/ (i \in DOMAIN s /\ t[i] = s[i])
    BY <1>2
<1>5. RegistrationsVetted(t)
    BY <1>4 DEF RegistrationsVetted
<1> QED
    BY <1>3, <1>5 DEF IsSequence

(***************************************************************************)
(* The client's choice.                                                    *)
(***************************************************************************)
\* What is selected is offered, supported and wanted.
LEMMA SelectedIsUsable ==
    ASSUME NEW endpoints, NEW preference, NEW capabilities,
           NEW chosen, chosen = SelectEndpoint(endpoints, preference, capabilities),
           chosen # Missing
    PROVE  IsSupported(capabilities, chosen) /\ MatchesPreference(preference, chosen)
BY DEF SelectEndpoint

\* The security of an operation that demands it is vetted.
LEMMA SecurityIsVetted ==
    ASSUME NEW endpoints, NEW settings, NEW chosen, NEW security,
           chosen = SelectEndpoint(endpoints, ToSecurityPreference(settings),
                                   CapabilitiesFor(settings)),
           chosen # Missing,
           security = BuildChannelSecurity(chosen, settings, files), security # Missing
    PROVE  /\ security.security_mode = "None" => security.security_policy_uri = "None"
           /\ Demands(settings) =>
                /\ security.security_policy_uri = "Basic256Sha256"
                /\ security.security_mode = "SignAndEncrypt"
                /\ security.client_certificate = settings.credentials
                /\ security.server_certificate = chosen.server_certificate
                /\ Parses(security.server_certificate)
                /\ HasTrustStore(settings) =>
                     Validate(CertificateTrustStore(files), security.server_certificate)
<1>1. /\ IsSupported(CapabilitiesFor(settings), chosen)
      /\ MatchesPreference(ToSecurityPreference(settings), chosen)
    BY SelectedIsUsable
<1>2. <<chosen.security_policy_uri, chosen.security_mode>> \in DefaultCapabilities
    BY <1>1 DEF IsSupported, CapabilitiesFor, NoneOnlyCapabilities, DefaultCapabilities
<1>3. Demands(settings) => chosen.security_mode = "SignAndEncrypt"
    BY <1>1 DEF MatchesPreference, ToSecurityPreference, Demands
<1>4. CASE chosen.security_mode = "None"
  <2>1. security = Unsecured
      BY <1>4 DEF BuildChannelSecurity
  <2> QED
      BY <1>3, <1>4, <2>1 DEF Unsecured
<1>5. CASE chosen.security_mode # "None"
  <2>1. chosen.security_policy_uri = "Basic256Sha256" /\ chosen.security_mode = "SignAndEncrypt"
      BY <1>2, <1>5 DEF DefaultCapabilities
  <2>2. /\ security = [security_policy_uri |-> chosen.security_policy_uri,
                       security_mode |-> chosen.security_mode,
                       client_certificate |-> settings.credentials,
                       server_certificate |-> chosen.server_certificate]
        /\ Parses(chosen.server_certificate)
        /\ HasTrustStore(settings) =>
             Validate(CertificateTrustStore(files), chosen.server_certificate)
      BY <1>5 DEF BuildChannelSecurity, ReadCredentials
  <2> QED
      BY <2>1, <2>2
<1> QED
    BY <1>4, <1>5

\* A non-empty set of natural numbers has a least one.
LEMMA LeastNatural ==
    ASSUME NEW S, S \subseteq Nat, S # {}
    PROVE  \E x \in S : \A y \in S : x <= y
<1> DEFINE R == {p \in Nat \X Nat : p[1] < p[2]}
<1>1. IsWellFoundedOn(R, Nat)
    BY NatLessThanWellFounded, Zenon DEF OpToRel
<1>2. PICK x \in S : \A y \in S : <<y, x>> \notin R
  <2> HIDE DEF R
  <2> QED
      BY WFMin, <1>1
<1>3. ASSUME NEW y \in S, y < x
      PROVE  <<y, x>> \in R
    BY <1>3
<1>4. \A y \in S : ~(y < x)
    BY <1>2, <1>3
<1> QED
    BY <1>4

\* A sequence has finitely many positions.
LEMMA PositionsOf ==
    ASSUME NEW s, IsSequence(s)
    PROVE  /\ Len(s) \in Nat /\ DOMAIN s = 1 .. Len(s)
           /\ IsFiniteSet(DOMAIN s) /\ Cardinality(DOMAIN s) = Len(s)
<1> DEFINE S == {s[i] : i \in DOMAIN s}
<1>1. s \in Seq(S)
    BY DEF IsSequence
<1> HIDE DEF S
<1>2. Len(s) \in Nat /\ DOMAIN s = 1 .. Len(s)
    BY <1>1
<1>3. /\ IsFiniteSet(1 .. Len(s))
      /\ Cardinality(1 .. Len(s)) = IF 1 > Len(s) THEN 0 ELSE Len(s) - 1 + 1
    BY <1>2, FS_Interval
<1> QED
    BY <1>2, <1>3

\* EndpointSetsSecurityEquivalent compares as sets, too: whatever is in one
\* list has an equivalent in the other.  The other direction needs the counts.
LEMMA EquivalentListsCover ==
    ASSUME NEW d, NEW a, IsSequence(d), IsSequence(a), d # <<>>, a # <<>>,
           EndpointSetsSecurityEquivalent(d, a)
    PROVE  /\ \A i \in DOMAIN d : \E j \in DOMAIN a : SecurityEquivalent(a[j], d[i])
           /\ \A j \in DOMAIN a : \E i \in DOMAIN d : SecurityEquivalent(a[j], d[i])
<1> DEFINE Among(i) == {j \in DOMAIN d : SecurityEquivalent(d[j], d[i])}
           Across(i) == {j \in DOMAIN a : SecurityEquivalent(a[j], d[i])}
           pairing == [i \in DOMAIN d |-> CHOOSE f : f \in Bijection(Among(i), Across(i))]
           g == [i \in DOMAIN d |-> pairing[i][i]]
<1>1. /\ Len(d) = Len(a)
      /\ \A i \in DOMAIN d : Cardinality(Among(i)) = Cardinality(Across(i))
    BY DEF EndpointSetsSecurityEquivalent
<1>2. /\ IsFiniteSet(DOMAIN d) /\ Cardinality(DOMAIN d) = Len(d)
      /\ IsFiniteSet(DOMAIN a) /\ Cardinality(DOMAIN a) = Len(a)
    BY PositionsOf
<1>3. ASSUME NEW i \in DOMAIN d
      PROVE  pairing[i] \in Bijection(Among(i), Across(i))
  <2>1. IsFiniteSet(Among(i)) /\ IsFiniteSet(Across(i))
    <3>1. Among(i) \in SUBSET DOMAIN d /\ Across(i) \in SUBSET DOMAIN a
        OBVIOUS
    <3> HIDE DEF Among, Across
    <3> QED
        BY <1>2, <3>1, FS_Subset
  <2>2. Cardinality(Among(i)) = Cardinality(Across(i))
      BY <1>1
  <2> HIDE DEF Among, Across
  <2>3. ExistsBijection(Among(i), Across(i))
      BY <2>1, <2>2, FS_SameCardinalityBij
  <2> QED
      BY <2>3 DEF ExistsBijection
<1>4. ASSUME NEW i \in DOMAIN d
      PROVE  i \in Among(i)
    BY DEF SecurityEquivalent
<1>5. ASSUME NEW i \in DOMAIN d
      PROVE  g[i] \in Across(i)
  <2>1. pairing[i] \in [Among(i) -> Across(i)] /\ i \in Among(i)
      BY <1>3, <1>4 DEF Bijection, Injection
  <2> HIDE DEF Among, Across, pairing
  <2> QED
      BY <2>1
<1>6. ASSUME NEW i \in DOMAIN d, NEW k \in DOMAIN d, g[i] = g[k]
      PROVE  i = k
  <2>1. SecurityEquivalent(a[g[i]], d[i]) /\ SecurityEquivalent(a[g[i]], d[k])
      BY <1>5, <1>6
  <2>2. SecurityEquivalent(d[k], d[i])
      BY <2>1 DEF SecurityEquivalent
  <2>3. Among(i) = Among(k) /\ Across(i) = Across(k)
      BY <2>2 DEF SecurityEquivalent
  <2>4. k \in Among(i) /\ i \in Among(i)
      BY <2>2, <1>4
  <2>5. pairing[i] \in Injection(Among(i), Across(i))
      BY <1>3 DEF Bijection
  <2>6. pairing[k] = pairing[i]
    <3> HIDE DEF Among, Across
    <3> QED
        BY <2>3
  <2>7. pairing[i][i] = pairing[i][k]
    <3> HIDE DEF pairing
    <3> QED
        BY <1>6, <2>6
  <2> HIDE DEF Among, Across, pairing
  <2> QED
      BY <2>4, <2>5, <2>7 DEF Injection, IsInjective
<1>7. g \in Injection(DOMAIN d, DOMAIN a)
  <2>1. \A i \in DOMAIN d : g[i] \in DOMAIN a
      BY <1>5
  <2> HIDE DEF pairing
  <2>2. g \in [DOMAIN d -> DOMAIN a]
      BY <2>1
  <2> HIDE DEF g
  <2> QED
      BY <2>2, <1>6 DEF Injection, IsInjective
<1> HIDE DEF g
<1>8. g \in Surjection(DOMAIN d, DOMAIN a)
    BY <1>1, <1>2, <1>7, FS_Injection
<1>9. \A j \in DOMAIN a : \E i \in DOMAIN d : g[i] = j
    BY <1>8 DEF Surjection
<1>10. \A i \in DOMAIN d : g[i] \in DOMAIN a /\ SecurityEquivalent(a[g[i]], d[i])
    BY <1>5
<1> QED
    BY <1>9, <1>10

\* What a client with these settings can and may use.
Usable(e, settings) == /\ IsSupported(CapabilitiesFor(settings), e)
                       /\ MatchesPreference(ToSecurityPreference(settings), e)

\* Ranks are numbers.
LEMMA RankIsNatural ==
    ASSUME NEW mode
    PROVE  SecurityRank(mode) \in 0 .. 3
BY DEF SecurityRank

\* What is selected is usable, and no usable endpoint ranks higher.
LEMMA SelectedRanksHighest ==
    ASSUME NEW endpoints, NEW settings,
           NEW chosen, chosen = SelectEndpoint(endpoints, ToSecurityPreference(settings),
                                               CapabilitiesFor(settings)),
           chosen # Missing
    PROVE  \E i \in DOMAIN endpoints :
             /\ chosen = endpoints[i] /\ Usable(endpoints[i], settings)
             /\ \A j \in DOMAIN endpoints : Usable(endpoints[j], settings) =>
                  SecurityRank(endpoints[j].security_mode) <= SecurityRank(chosen.security_mode)
<1> DEFINE usable == {i \in DOMAIN endpoints : Usable(endpoints[i], settings)}
           best == {i \in usable : \A j \in usable :
                      IF j < i THEN IsBetter(endpoints[i], endpoints[j])
                      ELSE ~IsBetter(endpoints[j], endpoints[i])}
<1>1. best # {} /\ chosen = endpoints[CHOOSE i \in best : TRUE]
    BY DEF SelectEndpoint, Usable
<1>2. PICK i \in best : chosen = endpoints[i]
    BY <1>1
<1>3. ASSUME NEW j \in DOMAIN endpoints, Usable(endpoints[j], settings)
      PROVE  SecurityRank(endpoints[j].security_mode) <= SecurityRank(chosen.security_mode)
  <2>1. IF j < i THEN IsBetter(endpoints[i], endpoints[j])
        ELSE ~IsBetter(endpoints[j], endpoints[i])
      BY <1>2, <1>3
  <2>2. /\ SecurityRank(endpoints[j].security_mode) \in 0 .. 3
        /\ SecurityRank(endpoints[i].security_mode) \in 0 .. 3
      BY RankIsNatural
  <2> QED
      BY <1>2, <2>1, <2>2 DEF IsBetter
<1> QED
    BY <1>2, <1>3

\* The scan ends with an endpoint if one is usable: of those that rank highest
\* and, among them, have the highest level, the first.
LEMMA SomethingIsSelected ==
    ASSUME NEW endpoints, NEW settings, IsEndpointList(endpoints),
           NEW u \in DOMAIN endpoints, Usable(endpoints[u], settings)
    PROVE  SelectEndpoint(endpoints, ToSecurityPreference(settings),
                          CapabilitiesFor(settings)) # Missing
<1> DEFINE usable == {i \in DOMAIN endpoints : Usable(endpoints[i], settings)}
           best == {i \in usable : \A j \in usable :
                      IF j < i THEN IsBetter(endpoints[i], endpoints[j])
                      ELSE ~IsBetter(endpoints[j], endpoints[i])}
           Rank(i) == SecurityRank(endpoints[i].security_mode)
           Level(i) == endpoints[i].security_level
           Short(i) == 1023 - (256 * Rank(i) + Level(i))
<1>1. DOMAIN endpoints \subseteq Nat /\ u \in usable /\ usable \subseteq DOMAIN endpoints
    BY PositionsOf DEF IsEndpointList, IsSequence
<1>2. \A i \in usable : Rank(i) \in 0 .. 3 /\ Level(i) \in 0 .. 255
    BY RankIsNatural DEF IsEndpointList, IsSequence
<1>3. \A i, j \in usable : IsBetter(endpoints[i], endpoints[j]) <=> Short(i) < Short(j)
  <2> SUFFICES ASSUME NEW i \in usable, NEW j \in usable
               PROVE  IsBetter(endpoints[i], endpoints[j]) <=> Short(i) < Short(j)
      OBVIOUS
  <2>1. /\ Rank(i) \in 0 .. 3 /\ Level(i) \in 0 .. 255
        /\ Rank(j) \in 0 .. 3 /\ Level(j) \in 0 .. 255
      BY <1>2
  <2>2. IsBetter(endpoints[i], endpoints[j])
           <=> Rank(i) > Rank(j) \/ (Rank(i) = Rank(j) /\ Level(i) > Level(j))
      BY DEF IsBetter
  <2> HIDE DEF Rank, Level, usable
  <2>3. PICK r \in 0 .. 3, l \in 0 .. 255, q \in 0 .. 3, m \in 0 .. 255 :
          r = Rank(i) /\ l = Level(i) /\ q = Rank(j) /\ m = Level(j)
      BY <2>1
  <2>4. (r > q \/ (r = q /\ l > m)) <=> 1023 - (256 * r + l) < 1023 - (256 * q + m)
      OBVIOUS
  <2> QED
      BY <2>2, <2>3, <2>4
<1>4. \A i \in usable : Short(i) \in Nat
  <2> HIDE DEF Rank, Level, usable
  <2> QED
      BY <1>2
<1> HIDE DEF Short, usable
<1>5. PICK n \in {Short(i) : i \in usable} : \A m \in {Short(i) : i \in usable} : n <= m
  <2>1. {Short(i) : i \in usable} \subseteq Nat /\ {Short(i) : i \in usable} # {}
      BY <1>1, <1>4
  <2> QED
      BY <2>1, LeastNatural
<1> DEFINE top == {i \in usable : Short(i) = n}
<1>6. PICK f \in top : \A i \in top : f <= i
  <2>1. top \subseteq Nat /\ top # {}
      BY <1>1, <1>5
  <2> HIDE DEF top
  <2> QED
      BY <2>1, LeastNatural
<1>7. ASSUME NEW j \in usable
      PROVE  IF j < f THEN Short(f) < Short(j) ELSE ~(Short(j) < Short(f))
  <2>1. Short(f) = n /\ n \in Nat /\ Short(j) \in Nat /\ n <= Short(j)
      BY <1>4, <1>5, <1>6
  <2>2. j < f => Short(j) # n
    <3>1. f \in Nat /\ j \in Nat
        BY <1>1, <1>6
    <3> QED
        BY <1>6, <3>1
  <2> QED
      BY <2>1, <2>2
<1>8. f \in best
    BY <1>3, <1>6, <1>7
<1>9. PICK i \in best : SelectEndpoint(endpoints, ToSecurityPreference(settings),
                                       CapabilitiesFor(settings)) = endpoints[i]
    BY <1>8 DEF SelectEndpoint, Usable, usable
<1>10. \A j \in DOMAIN endpoints : endpoints[j] # Missing
    BY DEF IsEndpointList, EndpointMembers, Missing
<1> QED
    BY <1>1, <1>9, <1>10

\* The capabilities hold one policy per mode, and the modes rank apart.
LEMMA RankTellsSecurity ==
    ASSUME NEW settings, NEW a, NEW b, Usable(a, settings), Usable(b, settings),
           SecurityRank(a.security_mode) = SecurityRank(b.security_mode)
    PROVE  a.security_mode = b.security_mode /\ a.security_policy_uri = b.security_policy_uri
<1>1. /\ <<a.security_policy_uri, a.security_mode>> \in DefaultCapabilities
      /\ <<b.security_policy_uri, b.security_mode>> \in DefaultCapabilities
    BY DEF Usable, IsSupported, CapabilitiesFor, NoneOnlyCapabilities, DefaultCapabilities
<1>2. /\ \/ a.security_policy_uri = "Basic256Sha256" /\ a.security_mode = "SignAndEncrypt"
         \/ a.security_policy_uri = "None" /\ a.security_mode = "None"
      /\ \/ b.security_policy_uri = "Basic256Sha256" /\ b.security_mode = "SignAndEncrypt"
         \/ b.security_policy_uri = "None" /\ b.security_mode = "None"
    BY <1>1 DEF DefaultCapabilities
<1>3. SecurityRank("SignAndEncrypt") = 3 /\ SecurityRank("None") = 1
    BY DEF SecurityRank
<1> QED
    BY <1>2, <1>3

\* What is written to the rejected directory is not what the store reads.
LEMMA RejectingKeepsStore ==
    ASSUME NEW f, NEW store, NEW c, NEW g,
           DOMAIN f = {"trusted", "issuers", "crls", "keeps_rejected", "rejected"},
           g = WriteRejected(f, store, c) \/ g = f
    PROVE  DOMAIN g = DOMAIN f /\ CertificateTrustStore(g) = CertificateTrustStore(f)
<1>1. /\ DOMAIN g = DOMAIN f
      /\ g.trusted = f.trusted /\ g.issuers = f.issuers /\ g.crls = f.crls
    BY DEF WriteRejected
<1> QED
    BY <1>1 DEF CertificateTrustStore, LoadTrusted, LoadIssuerStore

(***************************************************************************)
(* How operations end and begin.                                           *)
(***************************************************************************)
NoneIsPlain(security) ==
    security.security_mode = "None" => security.security_policy_uri = "None"

FilesShape(f) == DOMAIN f = {"trusted", "issuers", "crls", "keeps_rejected", "rejected"}

\* Nothing under way and no session: little is left to say.
LEMMA AtRest ==
    ASSUME ConnectInv,
           DOMAIN op' = DOMAIN Idle, op'.pc = "idle", op'.size \in Nat,
           NoneIsPlain(op'.security),
           DOMAIN client' = DOMAIN NoStack, client'.session = FALSE,
           client'.is_connected = FALSE, notified' # "up", wire'.kind = "silent",
           DOMAIN conn' = DOMAIN Closed, conn'.open \in BOOLEAN, conn'.secure \in BOOLEAN,
           server' = server, FilesShape(files')
    PROVE  ConnectInv'
<1> USE DEF Opening, Talking
<1>1. Shape'
    BY DEF ConnectInv, Shape, FilesShape
<1>2. SignalInv' /\ PurposeInv'
    BY DEF SignalInv, PurposeInv, Up
<1>3. SecurityInv'
    BY DEF SecurityInv, InUse, NoneIsPlain, Up
<1>4. ChannelInv'
    BY DEF ChannelInv, Up
<1>5. WireInv'
    BY DEF WireInv
<1>6. RegistrationsVetted(server.registered)'
    BY DEF ConnectInv
<1> QED
    BY <1>1, <1>2, <1>3, <1>4, <1>5, <1>6 DEF ConnectInv

\* An operation of a client that is not connected fails.
LEMMA FailEnds ==
    ASSUME ConnectInv, NEW o, NEW status, Fail(o, status),
           DOMAIN o = DOMAIN Idle, o.size \in Nat, NoneIsPlain(o.security),
           server' = server, FilesShape(files'), o.kind # "connect" => ~client.session
    PROVE  ConnectInv'
<1>1. op' = [o EXCEPT !.pc = "idle", !.result = status]
    BY DEF Fail, Done
<1>2. /\ DOMAIN op' = DOMAIN Idle /\ op'.pc = "idle" /\ op'.size \in Nat
      /\ NoneIsPlain(op'.security)
    BY <1>1 DEF Idle, NoneIsPlain
<1>3. /\ DOMAIN client = DOMAIN NoStack
      /\ client.session \in BOOLEAN /\ client.is_connected \in BOOLEAN
      /\ ~client.session => client.is_connected = FALSE /\ notified # "up"
    BY DEF ConnectInv, Shape, SignalInv
<1>4. \/ client' = client /\ ~client.session
      \/ client' = [client EXCEPT !.session = FALSE, !.is_connected = FALSE]
    BY DEF Fail, Reset
<1>5. /\ DOMAIN client' = DOMAIN NoStack
      /\ client'.session = FALSE /\ client'.is_connected = FALSE
    BY <1>3, <1>4 DEF NoStack
<1>6. notified' # "up"
    BY <1>3 DEF Fail, NotifyStateChanged
<1>7. wire'.kind = "silent" /\ conn' = Closed
    BY DEF Fail, HangUp, Silent
<1>8. DOMAIN conn' = DOMAIN Closed /\ conn'.open \in BOOLEAN /\ conn'.secure \in BOOLEAN
    BY <1>7 DEF Closed
<1> QED
    BY <1>2, <1>5, <1>6, <1>7, <1>8, AtRest

\* A new connection.
LEMMA DialStarts ==
    ASSUME ConnectInv, NEW o, NEW security, NEW then, Dial(security, then, o),
           DOMAIN o = DOMAIN Idle, o.size \in Nat, NoneIsPlain(security),
           then \in {"endpoints", "service", "create"},
           o.kind \in {"connect", "find", "register", "register2"},
           then = "service" => o.kind # "connect",
           then = "create" => o.kind = "connect",
           DOMAIN client' = DOMAIN NoStack, client'.session \in BOOLEAN,
           client'.is_connected \in BOOLEAN, client'.is_connected => client'.session,
           ~client'.session => notified' # "up", ~o.refused,
           client'.session <=> then = "create",
           server' = server, FilesShape(files'),
           then \in {"service", "create"} =>
               Vetted([o EXCEPT !.security = security, !.then = then], files')
    PROVE  ConnectInv'
<1> USE DEF Opening, Talking
<1>1. /\ op' = [o EXCEPT !.pc = "hello", !.then = then, !.security = security, !.keys = NoKeys]
      /\ wire' = Request(EncodeHelloMessage(HelloMessage(DefaultLimits, EndpointUrl(o.params))))
      /\ conn' = Accepted
    BY DEF Dial
<1>2. /\ DOMAIN op' = DOMAIN Idle /\ op'.pc = "hello" /\ op'.size \in Nat
      /\ op'.then = then /\ op'.security = security /\ op'.params = o.params
      /\ op'.expected = o.expected /\ op'.kind = o.kind /\ op'.refused = o.refused
    BY <1>1 DEF Idle
<1>3. /\ DOMAIN conn' = DOMAIN Closed /\ conn'.open \in BOOLEAN /\ conn'.secure = FALSE
    BY <1>1 DEF Accepted, Closed
<1>4. wire'.kind = "request" /\ wire'.frame.header.code = "HEL"
    BY <1>1, Codes DEF Request, EncodeHelloMessage, EncodeWithHeader, EncodeFrameHeader,
                       EncodeMessageType
<1>5. Shape'
    BY <1>2, <1>3 DEF ConnectInv, Shape, FilesShape
<1>6. SignalInv'
    BY <1>2 DEF SignalInv
<1>7. PurposeInv'
    BY <1>2 DEF PurposeInv, Up
<1>8. SecurityInv'
  <2>1. ASSUME then \in {"service", "create"}
        PROVE  Vetted(op', files')
    <3> DEFINE w == [o EXCEPT !.security = security, !.then = then]
    <3>1. /\ w.params = op'.params /\ w.security = op'.security
          /\ w.expected = op'.expected /\ w.then = op'.then
        BY <1>2 DEF Idle
    <3>2. Vetted(w, files')
        BY <2>1
    <3> HIDE DEF w
    <3> QED
        BY <3>1, <3>2 DEF Vetted
  <2> QED
      BY <1>2, <2>1 DEF SecurityInv, NoneIsPlain
<1>9. ChannelInv'
    BY <1>2, <1>3 DEF ChannelInv, Up
<1>10. WireInv'
    BY <1>2, <1>4 DEF WireInv
<1>11. RegistrationsVetted(server.registered)'
    BY DEF ConnectInv
<1> QED
    BY <1>5, <1>6, <1>7, <1>8, <1>9, <1>10, <1>11 DEF ConnectInv

\* A discovery request starts, or fails for want of a transport.
LEMMA DiscoveryStarts ==
    ASSUME ConnectInv, NEW o, NEW security, NEW then, NEW created,
           SendDiscoveryRequest(o, security, then, created),
           DOMAIN o = DOMAIN Idle, o.size \in Nat, NoneIsPlain(security),
           NoneIsPlain(o.security),
           then \in {"endpoints", "service"},
           o.kind \in {"connect", "find", "register", "register2"},
           then = "service" => o.kind # "connect",
           ~client.session, ~o.refused, server' = server, FilesShape(files'),
           then = "service" => Vetted([o EXCEPT !.security = security, !.then = then], files')
    PROVE  ConnectInv'
<1>1. CASE ~created
    BY <1>1, FailEnds DEF SendDiscoveryRequest
<1>2. CASE created
  <2>1. Dial(security, then, o) /\ client' = client /\ notified' = notified
      BY <1>2 DEF SendDiscoveryRequest
  <2>2. /\ DOMAIN client' = DOMAIN NoStack /\ client'.session = FALSE
        /\ client'.is_connected = FALSE /\ notified' # "up"
      BY <2>1 DEF ConnectInv, Shape, SignalInv
  <2> QED
      BY <2>1, <2>2, DialStarts
<1> QED
    BY <1>1, <1>2

\* The stack of a session is built and dialled, or nothing happens.
LEMMA StackStarts ==
    ASSUME ConnectInv, NEW o, NEW security, NEW created, BuildStack(o, security, created),
           DOMAIN o = DOMAIN Idle, o.size \in Nat, NoneIsPlain(security),
           NoneIsPlain(o.security), o.kind = "connect", ~o.refused,
           created \/ ~client.session, server' = server, FilesShape(files'),
           Vetted([o EXCEPT !.security = security, !.then = "create"], files')
    PROVE  ConnectInv'
<1>1. /\ DOMAIN client = DOMAIN NoStack
      /\ client.session \in BOOLEAN /\ client.is_connected \in BOOLEAN
      /\ ~client.session => client.is_connected = FALSE /\ notified # "up"
    BY DEF ConnectInv, Shape, SignalInv
<1>2. CASE ~created
  <2>1. /\ op' = [o EXCEPT !.pc = "idle", !.result = "Bad_NoCommunication"]
        /\ wire' = Silent /\ conn' = Closed /\ client' = client /\ notified' = notified
      BY <1>2 DEF BuildStack, ReturnSilently, Done, HangUp
  <2>2. /\ DOMAIN op' = DOMAIN Idle /\ op'.pc = "idle" /\ op'.size \in Nat
        /\ NoneIsPlain(op'.security)
      BY <2>1 DEF Idle, NoneIsPlain
  <2>3. wire'.kind = "silent"
      BY <2>1 DEF Silent
  <2>4. DOMAIN conn' = DOMAIN Closed /\ conn'.open \in BOOLEAN /\ conn'.secure \in BOOLEAN
      BY <2>1 DEF Closed
  <2> QED
      BY <1>1, <1>2, <2>1, <2>2, <2>3, <2>4, AtRest
<1>3. CASE created
  <2>1. /\ Dial(security, "create", o)
        /\ client' = [client EXCEPT !.session = TRUE] /\ notified' = notified
      BY <1>3 DEF BuildStack
  <2>2. /\ DOMAIN client' = DOMAIN NoStack /\ client'.session = TRUE
        /\ client'.is_connected \in BOOLEAN
      BY <1>1, <2>1 DEF NoStack
  <2> QED
      BY <2>1, <2>2, DialStarts
<1> QED
    BY <1>2, <1>3

(***************************************************************************)
(* Steps of the server.                                                    *)
(***************************************************************************)
\* The type of a frame on its way tells how far the client is.
LEMMA FrameTellsStage ==
    ASSUME ConnectInv, NEW type, Arrives(type)
    PROVE  /\ type = "Hello" => op.pc = "hello"
           /\ type = "SecureOpen" => op.pc = "open"
           /\ type = "SecureMessage" => op.pc \in Talking
<1>1. wire.kind = "request" /\ wire.frame.header.code = TypeCodes[type]
    BY TypeOfFrame DEF Arrives
<1>2. op.pc \in {"idle", "hello", "open"} \cup Talking
    BY DEF ConnectInv, Shape, Opening
<1> QED
    BY <1>1, <1>2, Codes DEF ConnectInv, WireInv

\* What a step of the server does not touch.
LEMMA ServerKeeps ==
    ASSUME ConnectInv, UNCHANGED <<files, client, op, notified>>
    PROVE  /\ SignalInv' /\ PurposeInv' /\ SecurityInv'
           /\ DOMAIN op' = DOMAIN Idle
           /\ op'.pc \in {"idle"} \cup Opening \cup Talking
           /\ op'.size \in Nat
           /\ DOMAIN client' = DOMAIN NoStack
           /\ client'.session \in BOOLEAN /\ client'.is_connected \in BOOLEAN
           /\ DOMAIN files' = {"trusted", "issuers", "crls", "keeps_rejected", "rejected"}
<1>1. SignalInv' /\ PurposeInv'
    BY DEF ConnectInv, SignalInv, PurposeInv, Up
<1>2. SecurityInv'
    BY DEF ConnectInv, SecurityInv, InUse, Vetted, Up
<1> QED
    BY <1>1, <1>2 DEF ConnectInv, Shape

\* The server gives the connection up, or it breaks.
LEMMA ClosingKeeps ==
    ASSUME ConnectInv, UNCHANGED <<files, client, op, notified>>,
           op.pc # "idle" \/ wire'.kind = "silent", wire'.kind # "request",
           conn' = Closed,
           DOMAIN server' = {"config", "registered", "session"},
           IsSequence(server'.registered), RegistrationsVetted(server'.registered)
    PROVE  ConnectInv'
<1>1. /\ conn'.open = FALSE /\ conn'.secure = FALSE /\ DOMAIN conn' = DOMAIN Closed
    BY DEF Closed
<1>2. Shape'
    BY <1>1, ServerKeeps DEF Shape
<1>3. ChannelInv'
    BY <1>1 DEF ChannelInv, Matched
<1>4. WireInv'
    BY <1>1 DEF WireInv
<1> QED
    BY <1>2, <1>3, <1>4, ServerKeeps DEF ConnectInv

\* The server answers Hello, or gives the connection up.
LEMMA HelloKeeps ==
    ASSUME ConnectInv, HandleHello
    PROVE  ConnectInv'
<1>1. op.pc = "hello" /\ UNCHANGED <<server, files, client, op, notified>>
    BY FrameTellsStage DEF HandleHello
<1>2. /\ DOMAIN server = {"config", "registered", "session"}
      /\ IsSequence(server.registered) /\ RegistrationsVetted(server.registered)
      /\ DOMAIN conn = DOMAIN Closed
      /\ conn.open \in BOOLEAN /\ conn.secure \in BOOLEAN
      /\ conn.open => ~conn.secure
    BY <1>1 DEF ConnectInv, Shape, ChannelInv
<1>3. wire'.kind = "response"
    BY DEF HandleHello, WriteErrorAndClose, Response
<1>4. conn' = Closed \/ conn' = [conn EXCEPT !.hello_received = TRUE]
    BY DEF HandleHello, WriteErrorAndClose
<1>5. CASE conn' = Closed
    BY <1>1, <1>2, <1>3, <1>5, ClosingKeeps
<1>6. CASE conn' = [conn EXCEPT !.hello_received = TRUE]
  <2>1. /\ conn'.open = conn.open /\ conn'.secure = conn.secure
        /\ DOMAIN conn' = DOMAIN Closed
      BY <1>2, <1>6 DEF Closed
  <2>2. Shape'
      BY <1>1, <1>2, <2>1, ServerKeeps DEF Shape
  <2>3. ChannelInv'
    <3>1. ~Up' /\ op'.pc = "hello"
        BY <1>1 DEF Up
    <3> QED
        BY <1>2, <2>1, <3>1 DEF ChannelInv, Talking
  <2>4. WireInv'
      BY <1>1, <1>3 DEF WireInv, Talking
  <2> QED
      BY <1>1, <1>2, <2>2, <2>3, <2>4, ServerKeeps DEF ConnectInv
<1> QED
    BY <1>4, <1>5, <1>6

\* The server has answered an OpenSecureChannel the way it was asked.
LEMMA OpenedKeeps ==
    ASSUME ConnectInv, UNCHANGED <<server, files, client, op, notified>>, op.pc = "open",
           wire'.kind = "response",
           DOMAIN conn' = DOMAIN Closed, conn'.open \in BOOLEAN, conn'.secure \in BOOLEAN,
           conn'.secure <=> UsesBasic256Sha256(op.security),
           conn'.secure => conn'.client_certificate = op.security.client_certificate
    PROVE  ConnectInv'
<1>1. Shape'
    BY ServerKeeps DEF ConnectInv, Shape
<1>2. ChannelInv'
  <2>1. ~Up' /\ op'.pc = "open"
      BY DEF Up
  <2>2. Matched'
      BY DEF Matched
  <2> QED
      BY <2>1, <2>2 DEF ChannelInv
<1>3. WireInv'
    BY DEF WireInv, Talking
<1>4. RegistrationsVetted(server.registered)'
    BY DEF ConnectInv
<1> QED
    BY <1>1, <1>2, <1>3, <1>4, ServerKeeps DEF ConnectInv

\* OpenSecureChannel in the clear: only a channel that asked for no security.
LEMMA OpenNoneKeeps ==
    ASSUME ConnectInv, HandleOpenNone
    PROVE  ConnectInv'
<1>1. op.pc = "open" /\ UNCHANGED <<server, files, client, op, notified>>
    BY FrameTellsStage DEF HandleOpenNone
<1>2. /\ DOMAIN server = {"config", "registered", "session"}
      /\ IsSequence(server.registered) /\ RegistrationsVetted(server.registered)
      /\ DOMAIN conn = DOMAIN Closed
      /\ conn.open \in BOOLEAN /\ conn.secure \in BOOLEAN
    BY DEF ConnectInv, Shape
<1>3. /\ wire.kind = "request" /\ conn.open
      /\ wire.frame.prefix.security_policy_uri = "None"
    BY DEF HandleOpenNone, Arrives
<1>4. conn.secure = FALSE /\ ~UsesBasic256Sha256(op.security)
    BY <1>1, <1>2, <1>3 DEF ConnectInv, ChannelInv, WireInv, UsesBasic256Sha256
<1>5. wire'.kind \in {"response", "failed"}
    BY DEF HandleOpenNone, WriteErrorAndClose, Drop, Response, Failed
<1>6. \/ conn' = Closed
      \/ wire'.kind = "response" /\ \E good : conn' = [conn EXCEPT !.opened = good]
    BY DEF HandleOpenNone, WriteErrorAndClose, Drop, Response
<1>7. CASE conn' = Closed
    BY <1>1, <1>2, <1>5, <1>7, ClosingKeeps
<1>8. CASE wire'.kind = "response" /\ \E good : conn' = [conn EXCEPT !.opened = good]
  <2>1. /\ conn'.open = conn.open /\ conn'.secure = FALSE
        /\ DOMAIN conn' = DOMAIN Closed
      BY <1>2, <1>4, <1>8 DEF Closed
  <2> QED
      BY <1>1, <1>2, <1>4, <1>8, <2>1, OpenedKeeps
<1> QED
    BY <1>6, <1>7, <1>8

\* OpenSecureChannel under Basic256Sha256: the certificate is the client's own.
LEMMA OpenSecureKeeps ==
    ASSUME ConnectInv, HandleOpenSecure
    PROVE  ConnectInv'
<1>1. op.pc = "open" /\ UNCHANGED <<server, files, client, op, notified>>
    BY FrameTellsStage DEF HandleOpenSecure
<1>2. /\ DOMAIN server = {"config", "registered", "session"}
      /\ IsSequence(server.registered) /\ RegistrationsVetted(server.registered)
      /\ DOMAIN conn = DOMAIN Closed
      /\ conn.open \in BOOLEAN /\ conn.secure \in BOOLEAN
    BY DEF ConnectInv, Shape
<1>3. /\ wire.kind = "request"
      /\ wire.frame.prefix.security_policy_uri = "Basic256Sha256"
    BY DEF HandleOpenSecure, Arrives
<1>4. /\ UsesBasic256Sha256(op.security)
      /\ wire.frame.prefix.sender_certificate = op.security.client_certificate
    BY <1>1, <1>3 DEF ConnectInv, SecurityInv, WireInv, UsesBasic256Sha256
<1>5. wire'.kind \in {"response", "failed"}
    BY DEF HandleOpenSecure, WriteErrorAndClose, Drop, Response, Failed
<1> DEFINE sender == wire.frame.prefix.sender_certificate
           request == DecodeAsymmetricFrame(server.config.certificate, sender, wire.frame)
           derived == [secret |-> Nonce(<<"server", operations>>),
                       seed |-> request.body.client_nonce]
<1>6. \/ conn' = Closed
      \/ /\ wire'.kind = "response"
         /\ conn' = [conn EXCEPT !.opened = TRUE, !.secure = TRUE,
                                 !.client_certificate = sender, !.keys = derived]
    BY DEF HandleOpenSecure, WriteErrorAndClose, Drop, Response
<1> HIDE DEF derived
<1>7. CASE conn' = Closed
    BY <1>1, <1>2, <1>5, <1>7, ClosingKeeps
<1>8. ASSUME wire'.kind = "response",
             conn' = [conn EXCEPT !.opened = TRUE, !.secure = TRUE,
                                  !.client_certificate = sender, !.keys = derived]
      PROVE  ConnectInv'
  <2>1. /\ conn'.open = conn.open /\ conn'.secure = TRUE
        /\ conn'.client_certificate = op.security.client_certificate
        /\ DOMAIN conn' = DOMAIN Closed
      BY <1>2, <1>4, <1>8 DEF Closed
  <2> QED
      BY <1>1, <1>2, <1>4, <1>8, <2>1, OpenedKeeps
<1> QED
    BY <1>6, <1>7, <1>8

\* What the server reads of a message is what the client put into it.
LEMMA ServerReadsRequest ==
    ASSUME ConnectInv, Arrives("SecureMessage"), ~Broken(ServerDecode(wire.frame))
    PROVE  ServerDecode(wire.frame).body = BodyOf(wire.frame)
<1>1. conn.secure <=> UsesBasic256Sha256(op.security)
    BY FrameTellsStage DEF ConnectInv, ChannelInv, Matched, Arrives
<1>2. CASE conn.secure
    BY <1>1, <1>2, SymmetricFrameGives DEF ServerDecode, BodyOf
<1>3. CASE ~conn.secure
  <2>1. ServerDecode(wire.frame) = DecodeSecureConversationMessage(wire.frame, "SecureMessage")
      BY <1>3 DEF ServerDecode, Broken
  <2> QED
      BY <1>1, <1>3, <2>1, PlainFrameGives DEF BodyOf
<1> QED
    BY <1>2, <1>3

\* A service request: what it registers, and whose certificate it vouches for.
LEMMA MessageKeeps ==
    ASSUME ConnectInv, HandleSecureMessage
    PROVE  ConnectInv'
<1>1. /\ op.pc \in Talking /\ op.pc # "idle" /\ op.pc \notin Opening
      /\ UNCHANGED <<files, client, op, notified>>
      /\ Arrives("SecureMessage") /\ conn.open /\ wire.kind = "request"
    BY FrameTellsStage DEF HandleSecureMessage, Talking, Opening, Arrives
<1>2. /\ DOMAIN server = {"config", "registered", "session"}
      /\ IsSequence(server.registered) /\ RegistrationsVetted(server.registered)
    BY DEF ConnectInv, Shape
<1> DEFINE chunk == ServerDecode(wire.frame)
           answer == Handle(server, chunk.body)
           reply == WithLength(chunk.body.len + 3, answer.body)
<1>3. CASE ~conn.opened \/ Broken(chunk)
  <2>1. wire' = Failed /\ conn' = Closed /\ server' = server
      BY <1>3 DEF HandleSecureMessage, Drop
  <2>2. wire'.kind = "failed"
      BY <2>1 DEF Failed
  <2> QED
      BY <1>1, <1>2, <2>1, <2>2, ClosingKeeps
<1>4. CASE ~(~conn.opened \/ Broken(chunk))
  <2>1. /\ server' = answer.server /\ conn' = conn
        /\ wire' = Response(BuildServiceResponse(chunk.request_id, reply))
      BY <1>4 DEF HandleSecureMessage
  <2>2. chunk.body = BodyOf(wire.frame) /\ Asked(chunk.body)
    <3>1. chunk.body = BodyOf(wire.frame)
        BY <1>1, <1>4, ServerReadsRequest
    <3>2. Asked(BodyOf(wire.frame))
        BY <1>1 DEF ConnectInv, WireInv
    <3> QED
        BY <3>1, <3>2
  <2> HIDE DEF chunk
  <2>3. chunk.body.type \in RequestTypes
      BY <2>2 DEF Asked
  <2>4. /\ DOMAIN answer.server = DOMAIN server /\ answer.server.config = server.config
        /\ \/ answer.server.registered = server.registered
           \/ /\ chunk.body.type \in {"RegisterServer", "RegisterServer2"}
              /\ \E e : /\ answer.server.registered = Append(server.registered, e)
                        /\ e.demanded = chunk.body.demanded
                        /\ e.channel_secure = conn.secure
                        /\ e.client_certificate = conn.client_certificate
        /\ chunk.body.type = "CreateSession" =>
             /\ {"type", "status", "certificate"} \subseteq DOMAIN answer.body
             /\ answer.body.status = "Good" =>
                  answer.body.certificate = server.config.certificate
      BY <1>2, <2>3, HandleGives
  <2> HIDE DEF answer
  <2>5. /\ DOMAIN conn = DOMAIN Closed /\ conn.open \in BOOLEAN /\ conn.secure \in BOOLEAN
        /\ Matched
      BY <1>1 DEF ConnectInv, Shape, ChannelInv
  <2>6. IsSequence(server'.registered) /\ RegistrationsVetted(server'.registered)
    <3>1. CASE answer.server.registered = server.registered
        BY <1>2, <2>1, <3>1
    <3>2. ASSUME chunk.body.type \in {"RegisterServer", "RegisterServer2"},
                 NEW e, answer.server.registered = Append(server.registered, e),
                 e.demanded = chunk.body.demanded, e.channel_secure = conn.secure,
                 e.client_certificate = conn.client_certificate
          PROVE  IsSequence(server'.registered) /\ RegistrationsVetted(server'.registered)
      <4>1. op.pc = "service" /\ e.demanded = op.params.settings
          BY <2>2, <3>2 DEF Asked
      <4>2. op.then = "service" /\ Vetted(op, files)
          BY <4>1 DEF ConnectInv, PurposeInv, SecurityInv, InUse
      <4>3. Demands(e.demanded) =>
              e.channel_secure /\ e.client_certificate = e.demanded.credentials
          BY <1>1, <2>5, <3>2, <4>1, <4>2 DEF Vetted, Matched, UsesBasic256Sha256
      <4>4. server'.registered = Append(server.registered, e)
          BY <2>1, <3>2
      <4> QED
          BY <1>2, <4>3, <4>4, RegistrationAdded
    <3> QED
        BY <2>4, <3>1, <3>2
  <2>7. Shape'
      BY <1>2, <2>1, <2>4, <2>5, <2>6, ServerKeeps, <1>1 DEF Shape
  <2>8. ChannelInv'
    <3>1. server'.config = server.config
        BY <2>1, <2>4
    <3> QED
        BY <1>1, <2>1, <3>1 DEF ConnectInv, ChannelInv, Matched, Opening, Up
  <2>9. WireInv'
    <3>1. wire'.kind = "response"
        BY <2>1 DEF Response
    <3>2. ASSUME op.pc = "create", UsesBasic256Sha256(op.security),
                 BodyOf(wire'.frame).status = "Good"
          PROVE  BodyOf(wire'.frame).certificate = server'.config.certificate
      <4>1. conn.secure
          BY <1>1, <2>5, <3>2 DEF Matched
      <4>2. chunk.body.type = "CreateSession" /\ chunk.body.len \in Nat
          BY <2>2, <3>2 DEF Asked
      <4>3. /\ reply.len \in Nat
            /\ reply.status = answer.body.status
            /\ reply.certificate = answer.body.certificate
        <5>1. /\ reply.len = chunk.body.len + 3
              /\ \A f \in DOMAIN answer.body : f # "len" => reply[f] = answer.body[f]
            BY LengthAdded
        <5> HIDE DEF reply
        <5>2. "status" \in DOMAIN answer.body /\ "certificate" \in DOMAIN answer.body
            BY <2>4, <4>2
        <5> QED
            BY <4>2, <5>1, <5>2
      <4> HIDE DEF reply
      <4>4. wire'.frame = BuildSymmetricFrame("SecureMessage", OutboundKeys, ChannelId,
                                              TokenId, chunk.request_id, reply)
          BY <2>1, <4>1 DEF BuildServiceResponse, BuildSecureServiceResponse, Response
      <4>5. BodyOf(wire'.frame) = reply
        <5>1. wire'.frame.sealed.plaintext.body = reply
            BY <4>3, <4>4, SymmetricFrameCarries
        <5> QED
            BY <3>2, <5>1 DEF BodyOf
      <4>6. server'.config = server.config
          BY <2>1, <2>4
      <4> QED
          BY <2>4, <3>2, <4>2, <4>3, <4>5, <4>6
    <3> QED
        BY <1>1, <3>1, <3>2 DEF WireInv, BodyOf
  <2> QED
      BY <1>1, <2>6, <2>7, <2>8, <2>9, ServerKeeps DEF ConnectInv
<1> QED
    BY <1>3, <1>4

\* A request on a connection that is gone.
LEMMA UnreachableKeeps ==
    ASSUME ConnectInv, Unreachable
    PROVE  ConnectInv'
<1>1. /\ wire.kind = "request" /\ ~conn.open /\ wire' = Failed
      /\ UNCHANGED <<server, conn, files, client, op, notified>>
    BY DEF Unreachable
<1>2. wire'.kind = "failed" /\ op.pc # "idle"
    BY <1>1 DEF Failed, ConnectInv, WireInv
<1>3. Shape'
    BY <1>1, ServerKeeps DEF ConnectInv, Shape
<1>4. ChannelInv'
    BY <1>1, <1>2 DEF ConnectInv, ChannelInv, Matched
<1>5. WireInv'
    BY <1>1, <1>2 DEF WireInv
<1>6. RegistrationsVetted(server.registered)'
    BY <1>1 DEF ConnectInv
<1> QED
    BY <1>1, <1>3, <1>4, <1>5, <1>6, ServerKeeps DEF ConnectInv

(***************************************************************************)
(* Steps of the client.                                                    *)
(***************************************************************************)
\* An operation that is not yet connected fails.
LEMMA OpFails ==
    ASSUME ConnectInv, NEW status, Fail(op, status),
           op.pc \in Opening \cup {"endpoints", "service", "create", "activate"},
           server' = server, FilesShape(files')
    PROVE  ConnectInv'
<1>1. DOMAIN op = DOMAIN Idle /\ op.size \in Nat /\ NoneIsPlain(op.security)
    BY DEF ConnectInv, Shape, SecurityInv, NoneIsPlain
<1>2. op.kind # "connect" => ~client.session
    BY DEF ConnectInv, SignalInv, PurposeInv, Opening
<1> QED
    BY <1>1, <1>2, FailEnds

\* A request of the operation is on its way.
LEMMA Speaks ==
    ASSUME NEW o, NEW body, op'.security = o.security, o.size \in Nat,
           wire' = SendRequest(o, body), op'.pc \in Talking,
           "type" \in DOMAIN body, body.type \in RequestTypes,
           body.type \in {"RegisterServer", "RegisterServer2"} =>
               /\ op'.pc = "service" /\ "demanded" \in DOMAIN body
               /\ body.demanded = op'.params.settings,
           op'.pc = "create" => body.type = "CreateSession"
    PROVE  WireInv'
<1> DEFINE whole == WithLength(o.size, body)
<1>1. /\ wire'.kind = "request" /\ wire'.frame.header.code = "MSG"
      /\ whole = IF UsesBasic256Sha256(o.security) THEN wire'.frame.sealed.plaintext.body
                 ELSE wire'.frame.plain.body
    BY RequestCarries
<1>2. /\ whole.len = o.size
      /\ \A f \in DOMAIN body : f # "len" => whole[f] = body[f]
    BY LengthAdded
<1> HIDE DEF whole
<1>3. whole.type = body.type /\ ("demanded" \in DOMAIN body => whole.demanded = body.demanded)
    BY <1>2
<1>4. BodyOf(wire.frame)' = whole
    BY <1>1 DEF BodyOf
<1>5. Asked(BodyOf(wire.frame))'
    BY <1>2, <1>3, <1>4 DEF Asked
<1> QED
    BY <1>1, <1>5 DEF WireInv, Talking

\* What a step of the client that goes on does not touch.
LEMMA TalkKeeps ==
    ASSUME ConnectInv, UNCHANGED <<server, conn, files>>,
           op'.security = op.security, op'.params = op.params, op'.then = op.then,
           op'.expected = op.expected
    PROVE  /\ Vetted(op, files) => Vetted(op', files')
           /\ NoneIsPlain(op'.security)
           /\ Matched => Matched'
           /\ RegistrationsVetted(server.registered)'
           /\ FilesShape(files')
           /\ DOMAIN conn' = DOMAIN Closed
           /\ conn'.open \in BOOLEAN /\ conn'.secure \in BOOLEAN
           /\ DOMAIN server' = {"config", "registered", "session"}
           /\ IsSequence(server'.registered)
<1>1. Vetted(op, files) => Vetted(op', files')
    BY DEF Vetted
<1>2. Matched => Matched'
    BY DEF Matched
<1> QED
    BY <1>1, <1>2 DEF ConnectInv, Shape, SecurityInv, NoneIsPlain, FilesShape

\* The transport is up: the OPN frame goes out.
LEMMA AcknowledgeKeeps ==
    ASSUME ConnectInv, OnAcknowledge
    PROVE  ConnectInv'
<1> DEFINE frame == OpenFrame(op.security, Nonce(<<"client", operations>>))
<1>1. op.pc = "hello" /\ UNCHANGED <<server, files>> /\ FilesShape(files')
    BY DEF OnAcknowledge, ConnectInv, Shape, FilesShape
<1>2. CASE \E status : Fail(op, status)
    BY <1>1, <1>2, OpFails DEF Opening
<1>3. CASE /\ ~Broken(frame) /\ op' = [op EXCEPT !.pc = "open"]
           /\ wire' = Request(frame) /\ UNCHANGED <<conn, client, notified>>
  <2>1. /\ DOMAIN op' = DOMAIN Idle /\ op'.pc = "open" /\ op'.size \in Nat
        /\ op'.security = op.security /\ op'.params = op.params /\ op'.then = op.then
        /\ op'.expected = op.expected /\ op'.kind = op.kind /\ op'.refused = op.refused
      BY <1>3 DEF ConnectInv, Shape, Idle
  <2>2. wire'.kind = "request" /\ wire'.frame = frame
      BY <1>3 DEF Request
  <2>3. Shape'
      BY <1>1, <1>3, <2>1, TalkKeeps DEF ConnectInv, Shape, Opening, FilesShape
  <2>4. SignalInv'
      BY <1>1, <1>3, <2>1 DEF ConnectInv, SignalInv, Opening
  <2>5. PurposeInv'
      BY <1>1, <1>3, <2>1 DEF ConnectInv, PurposeInv, Opening, Up
  <2>6. SecurityInv'
    <3>1. op.then \in {"service", "create"} => Vetted(op, files)
        BY <1>1 DEF ConnectInv, SecurityInv, InUse, Opening
    <3> QED
        BY <1>1, <1>3, <2>1, <3>1, TalkKeeps DEF SecurityInv, NoneIsPlain
  <2>7. ChannelInv'
    <3>1. (conn.open => ~conn.secure) /\ ~Up'
        BY <1>1, <2>1 DEF ConnectInv, ChannelInv, Up
    <3> QED
        BY <1>3, <2>1, <2>2, <3>1 DEF ChannelInv, Talking
  <2>8. WireInv'
    <3>1. /\ frame.header.code = "OPN"
          /\ frame.prefix.security_policy_uri = op.security.security_policy_uri
          /\ UsesBasic256Sha256(op.security) =>
               frame.prefix.sender_certificate = op.security.client_certificate
        BY <1>3, OpenFrameCarries
    <3> HIDE DEF frame
    <3> QED
        BY <2>1, <2>2, <3>1 DEF WireInv, Talking
  <2> QED
      BY <1>1, <1>3, <2>1, <2>3, <2>4, <2>5, <2>6, <2>7, <2>8, TalkKeeps DEF ConnectInv
<1> QED
    BY <1>2, <1>3 DEF OnAcknowledge

\* The first request on a connection is the one it was opened for.
LEMMA FirstRequestFits ==
    ASSUME NEW o, o.then \in {"endpoints", "service", "create"},
           o.then = "service" => o.kind \in {"find", "register", "register2"}
    PROVE  LET body == FirstRequest(o)
           IN  /\ "type" \in DOMAIN body /\ body.type \in RequestTypes
               /\ body.type \in {"RegisterServer", "RegisterServer2"} =>
                    /\ o.then = "service" /\ "demanded" \in DOMAIN body
                    /\ body.demanded = o.params.settings
               /\ o.then = "create" => body.type = "CreateSession"
<1>1. CASE o.then = "endpoints"
    BY <1>1 DEF FirstRequest, RequestTypes
<1>2. CASE o.then = "create"
    BY <1>2 DEF FirstRequest, RequestTypes
<1>3. CASE o.then = "service" /\ o.kind = "find"
    BY <1>3 DEF FirstRequest, RequestTypes
<1>4. CASE o.then = "service" /\ o.kind = "register"
    BY <1>4 DEF FirstRequest, RequestTypes
<1>5. CASE o.then = "service" /\ o.kind = "register2"
    BY <1>5 DEF FirstRequest, RequestTypes
<1> QED
    BY <1>1, <1>2, <1>3, <1>4, <1>5

\* The channel is open: the first request goes out.
LEMMA OpenedOnKeeps ==
    ASSUME ConnectInv, OnOpened
    PROVE  ConnectInv'
<1> DEFINE body == OpenedBody
           keys == [secret |-> body.server_nonce, seed |-> Nonce(<<"client", operations>>)]
           opened == [op EXCEPT !.pc = op.then, !.keys = keys]
<1>1. op.pc = "open" /\ UNCHANGED <<server, files>> /\ FilesShape(files')
    BY DEF OnOpened, ConnectInv, Shape, FilesShape
<1>2. CASE \E status : Fail(op, status)
    BY <1>1, <1>2, OpFails DEF Opening
<1>3. CASE /\ ~Broken(body) /\ op' = opened
           /\ wire' = SendRequest(opened, FirstRequest(opened))
           /\ UNCHANGED <<conn, client, notified>>
  <2>1. wire.kind = "response"
      BY <1>3 DEF OnOpened, OpenedBody, Broken
  <2> HIDE DEF keys
  <2>2. /\ DOMAIN op' = DOMAIN Idle /\ op'.pc = op.then /\ op'.size \in Nat
        /\ op'.security = op.security /\ op'.params = op.params /\ op'.then = op.then
        /\ op'.expected = op.expected /\ op'.kind = op.kind /\ op'.refused = op.refused
      BY <1>3 DEF ConnectInv, Shape, Idle
  <2>3. /\ op.then \in {"endpoints", "service", "create"}
        /\ op.then = "service" => op.kind \in {"find", "register", "register2"}
        /\ op.kind \in {"connect", "find", "register", "register2"}
        /\ op.then = "create" => op.kind = "connect"
      BY <1>1 DEF ConnectInv, PurposeInv, Opening
  <2>4. /\ client.is_connected => client.session
        /\ ~client.session => notified # "up"
        /\ client.session <=> op.then = "create"
        /\ ~op.refused
      BY <1>1 DEF ConnectInv, SignalInv, Opening
  <2>5. Shape'
      BY <1>1, <1>3, <2>2, <2>3, TalkKeeps DEF ConnectInv, Shape, Talking, FilesShape
  <2>6. SignalInv'
      BY <1>3, <2>2, <2>3, <2>4 DEF SignalInv, Opening
  <2>7. PurposeInv'
      BY <1>3, <2>2, <2>3, <2>4 DEF PurposeInv, Opening, Up
  <2>8. SecurityInv'
    <3>1. op.then \in {"service", "create"} => Vetted(op, files)
        BY <1>1 DEF ConnectInv, SecurityInv, InUse, Opening
    <3> QED
        BY <1>1, <1>3, <2>2, <3>1, TalkKeeps DEF SecurityInv, NoneIsPlain
  <2>9. ChannelInv'
    <3>1. Matched
        BY <1>1, <2>1 DEF ConnectInv, ChannelInv
    <3>2. Matched'
        BY <1>1, <1>3, <2>2, <3>1, TalkKeeps
    <3> QED
        BY <1>3, <2>2, <2>3, <2>4, <3>2 DEF ChannelInv, Up
  <2>10. WireInv'
    <3> DEFINE request == FirstRequest(op')
    <3>1. /\ "type" \in DOMAIN request /\ request.type \in RequestTypes
          /\ request.type \in {"RegisterServer", "RegisterServer2"} =>
               /\ op'.then = "service" /\ "demanded" \in DOMAIN request
               /\ request.demanded = op'.params.settings
          /\ op'.then = "create" => request.type = "CreateSession"
        BY <2>2, <2>3, FirstRequestFits
    <3>2. wire' = SendRequest(op', request)
        BY <1>3
    <3> HIDE DEF request
    <3>3. op'.pc \in Talking
        BY <2>2, <2>3 DEF Talking
    <3> QED
        BY <2>2, <3>1, <3>2, <3>3, Speaks
  <2> QED
      BY <1>1, <1>3, <2>2, <2>5, <2>6, <2>7, <2>8, <2>9, <2>10, TalkKeeps DEF ConnectInv
<1> QED
    BY <1>2, <1>3 DEF OnOpened

\* The endpoint is chosen, its certificate judged, the next connection dialled.
LEMMA EndpointsKeep ==
    ASSUME ConnectInv, NEW created \in BOOLEAN, OnEndpoints(created)
    PROVE  ConnectInv'
<1> DEFINE body == ReadResponse
           settings == op.params.settings
           chosen == SelectEndpoint(body.endpoints, ToSecurityPreference(settings),
                                    CapabilitiesFor(settings))
           security == BuildChannelSecurity(chosen, settings, files)
           o == [op EXCEPT !.disturbed = op.disturbed \/ ~created]
           u == [o EXCEPT !.offered = body.endpoints, !.expected = chosen.server_certificate]
<1>1. /\ op.pc = "endpoints" /\ server' = server
      /\ DOMAIN op = DOMAIN Idle /\ op.size \in Nat /\ NoneIsPlain(op.security)
      /\ ~client.session /\ ~op.refused
      /\ op.kind \in {"connect", "find", "register", "register2"}
    BY DEF OnEndpoints, ConnectInv, Shape, SecurityInv, NoneIsPlain, SignalInv, PurposeInv
<1>2. /\ FilesShape(files')
      /\ CertificateTrustStore(files') = CertificateTrustStore(files)
  <2>1. \/ files' = WriteRejected(files, CertificateTrustStore(files), chosen.server_certificate)
        \/ files' = files
      BY DEF OnEndpoints, FilesAfter
  <2>2. DOMAIN files = {"trusted", "issuers", "crls", "keeps_rejected", "rejected"}
      BY DEF ConnectInv, Shape
  <2> QED
      BY <2>1, <2>2, RejectingKeepsStore DEF FilesShape
<1>3. CASE \E status : Fail(op, status)
    BY <1>1, <1>2, <1>3, OpFails
<1>4. CASE /\ chosen # Missing /\ security # Missing
           /\ IF op.kind = "connect" THEN BuildStack(u, security, created)
              ELSE SendDiscoveryRequest(o, security, "service", created)
  <2>1. /\ NoneIsPlain(security)
        /\ Demands(settings) =>
             /\ security.security_policy_uri = "Basic256Sha256"
             /\ security.security_mode = "SignAndEncrypt"
             /\ security.client_certificate = settings.credentials
             /\ security.server_certificate = chosen.server_certificate
             /\ Parses(security.server_certificate)
             /\ HasTrustStore(settings) =>
                  Validate(CertificateTrustStore(files), security.server_certificate)
      BY <1>4, SecurityIsVetted DEF NoneIsPlain
  <2> HIDE DEF security, chosen, body
  <2>2. /\ DOMAIN o = DOMAIN Idle /\ o.size \in Nat /\ NoneIsPlain(o.security)
        /\ o.kind = op.kind /\ o.params = op.params /\ o.refused = op.refused
      BY <1>1 DEF Idle
  <2>3. /\ DOMAIN u = DOMAIN Idle /\ u.size \in Nat /\ NoneIsPlain(u.security)
        /\ u.kind = op.kind /\ u.params = op.params /\ u.expected = chosen.server_certificate
        /\ u.refused = op.refused
      BY <1>1 DEF Idle
  <2> HIDE DEF o, u
  <2>4. CASE op.kind = "connect"
    <3> DEFINE w == [u EXCEPT !.security = security, !.then = "create"]
    <3>1. w.params = op.params /\ w.security = security /\ w.expected = chosen.server_certificate
        BY <2>3 DEF Idle
    <3> HIDE DEF w
    <3>2. Vetted(w, files')
        BY <1>2, <2>1, <3>1 DEF Vetted
    <3> QED
        BY <1>1, <1>2, <1>4, <2>1, <2>3, <2>4, <3>2, StackStarts DEF w
  <2>5. CASE op.kind # "connect"
    <3> DEFINE w == [o EXCEPT !.security = security, !.then = "service"]
    <3>1. w.params = op.params /\ w.security = security /\ w.then = "service"
        BY <2>2 DEF Idle
    <3> HIDE DEF w
    <3>2. Vetted(w, files')
        BY <1>2, <2>1, <3>1 DEF Vetted
    <3>3. SendDiscoveryRequest(o, security, "service", created)
        BY <1>4, <2>5
    <3> QED
        BY <1>1, <1>2, <2>1, <2>2, <2>5, <3>2, <3>3, DiscoveryStarts DEF w
  <2> QED
      BY <2>4, <2>5
<1> QED
    BY <1>3, <1>4 DEF OnEndpoints

\* The discovery service has answered.
LEMMA ServiceKeeps ==
    ASSUME ConnectInv, OnService
    PROVE  ConnectInv'
<1>1. op.pc = "service" /\ UNCHANGED <<server, files>> /\ FilesShape(files')
    BY DEF OnService, ConnectInv, Shape, FilesShape
<1>2. CASE \E status : Fail(op, status)
    BY <1>1, <1>2, OpFails
<1>3. CASE /\ op.kind = "find" => Done([op EXCEPT !.found = ReadResponse.servers], "Good")
           /\ op.kind # "find" => Done(op, ReadResponse.status)
           /\ HangUp /\ UNCHANGED <<client, notified>>
  <2>1. /\ DOMAIN op = DOMAIN Idle /\ op.size \in Nat /\ NoneIsPlain(op.security)
        /\ ~client.session /\ ~client.is_connected /\ notified # "up"
        /\ DOMAIN client = DOMAIN NoStack
        /\ client.session \in BOOLEAN /\ client.is_connected \in BOOLEAN
      BY <1>1 DEF ConnectInv, Shape, SecurityInv, NoneIsPlain, SignalInv
  <2>2. /\ DOMAIN op' = DOMAIN Idle /\ op'.pc = "idle" /\ op'.size \in Nat
        /\ NoneIsPlain(op'.security)
      BY <1>3, <2>1 DEF Done, Idle
  <2>3. wire'.kind = "silent" /\ conn' = Closed
      BY <1>3 DEF HangUp, Silent
  <2>4. DOMAIN conn' = DOMAIN Closed /\ conn'.open \in BOOLEAN /\ conn'.secure \in BOOLEAN
      BY <2>3 DEF Closed
  <2> QED
      BY <1>1, <1>3, <2>1, <2>2, <2>3, <2>4, AtRest
<1> QED
    BY <1>2, <1>3 DEF OnService

\* What the client reads of a secured message is what the server put into it.
LEMMA ClientReadsAnswer ==
    ASSUME UsesBasic256Sha256(op.security), ~Broken(ReadResponse)
    PROVE  wire.kind # "failed" /\ ReadResponse = BodyOf(wire.frame)
<1> DEFINE chunk == DecodeSymmetricFrame(ServerKeys(op.keys), ChannelId, TokenId, wire.frame)
<1>1. wire.kind # "failed" /\ ~Broken(chunk) /\ ReadResponse = chunk.body
    BY DEF ReadResponse, DecodeServiceMessageChunk, Broken
<1>2. chunk.body = wire.frame.sealed.plaintext.body
    BY <1>1, SymmetricFrameGives
<1> QED
    BY <1>1, <1>2 DEF BodyOf

\* The server that created the session owns the certificate that was vetted.
LEMMA CreatedByVetted ==
    ASSUME ConnectInv, op.pc = "create", wire.kind \in {"response", "failed"}, conn.open,
           Demands(op.params.settings),
           Answered(ReadResponse, "CreateSessionResponse"), ReadResponse.status = "Good",
           op.expected = NoCertificate \/ op.expected = ReadResponse.certificate
    PROVE  server.config.certificate = op.expected
<1>1. op.then = "create" /\ Vetted(op, files)
    BY DEF ConnectInv, PurposeInv, SecurityInv, InUse
<1>2. /\ UsesBasic256Sha256(op.security)
      /\ op.expected = op.security.server_certificate /\ op.expected # NoCertificate
    BY <1>1 DEF Vetted, UsesBasic256Sha256, Parses
<1>3. ~Broken(ReadResponse) /\ ReadResponse.type = "CreateSessionResponse"
    BY DEF Answered
<1>4. wire.kind = "response" /\ ReadResponse = BodyOf(wire.frame)
    BY <1>2, <1>3, ClientReadsAnswer
<1>5. ReadResponse.certificate = server.config.certificate
    BY <1>2, <1>3, <1>4 DEF ConnectInv, WireInv
<1> QED
    BY <1>2, <1>5

\* The session is created: the checks of its answer.
LEMMA CreatedKeeps ==
    ASSUME ConnectInv, OnCreated
    PROVE  ConnectInv'
<1> DEFINE signature == SignClientData(op.security, <<ReadResponse.certificate, ReadResponse.nonce>>)
           request == [type |-> "ActivateSession", user |-> op.params.user,
                       signature |-> signature]
           o == [op EXCEPT !.pc = "activate"]
<1>1. /\ op.pc = "create" /\ wire.kind \in {"response", "failed"}
      /\ UNCHANGED <<server, files>> /\ FilesShape(files')
    BY DEF OnCreated, ConnectInv, Shape, FilesShape
<1>2. CASE \E status : Fail(op, status)
    BY <1>1, <1>2, OpFails
<1>3. CASE /\ Answered(ReadResponse, "CreateSessionResponse") /\ ReadResponse.status = "Good"
           /\ op.expected = NoCertificate \/ op.expected = ReadResponse.certificate
           /\ Continue(o, request)
  <2>1. op' = o /\ wire' = SendRequest(o, request) /\ UNCHANGED <<conn, client, notified>>
      BY <1>3 DEF Continue
  <2>2. /\ DOMAIN op' = DOMAIN Idle /\ op'.pc = "activate" /\ op'.size \in Nat
        /\ op'.security = op.security /\ op'.params = op.params /\ op'.then = op.then
        /\ op'.expected = op.expected /\ op'.kind = op.kind /\ op'.refused = op.refused
      BY <2>1 DEF ConnectInv, Shape, Idle
  <2>3. Shape'
      BY <1>1, <2>1, <2>2, TalkKeeps DEF ConnectInv, Shape, Talking, FilesShape
  <2>4. SignalInv'
      BY <1>1, <2>1, <2>2 DEF ConnectInv, SignalInv, Opening
  <2>5. PurposeInv'
      BY <1>1, <2>1, <2>2 DEF ConnectInv, PurposeInv, Opening
  <2>6. SecurityInv'
    <3>1. op.then = "create" /\ Vetted(op, files)
        BY <1>1 DEF ConnectInv, PurposeInv, SecurityInv, InUse
    <3> QED
        BY <1>1, <2>1, <2>2, <3>1, TalkKeeps DEF SecurityInv, NoneIsPlain
  <2>7. ChannelInv'
    <3>1. Matched' /\ ~Up'
        BY <1>1, <2>1, <2>2, TalkKeeps DEF ConnectInv, ChannelInv, Talking, Up
    <3>2. (conn.open /\ Demands(op.params.settings)) => server.config.certificate = op.expected
        BY <1>1, <1>3, CreatedByVetted
    <3> QED
        BY <1>1, <2>1, <2>2, <3>1, <3>2 DEF ChannelInv
  <2>8. WireInv'
    <3>1. "type" \in DOMAIN request /\ request.type = "ActivateSession"
        OBVIOUS
    <3> HIDE DEF request
    <3>2. wire' = SendRequest(op', request)
        BY <2>1
    <3> QED
        BY <2>2, <3>1, <3>2, Speaks DEF RequestTypes, Talking
  <2> QED
      BY <1>1, <2>1, <2>2, <2>3, <2>4, <2>5, <2>6, <2>7, <2>8, TalkKeeps DEF ConnectInv
<1> QED
    BY <1>2, <1>3 DEF OnCreated

\* The session is activated, so connected.
LEMMA ActivatedKeeps ==
    ASSUME ConnectInv, OnActivated
    PROVE  ConnectInv'
<1> DEFINE request == [type |-> "Read"]
<1>1. op.pc = "activate" /\ UNCHANGED <<server, files>> /\ FilesShape(files')
    BY DEF OnActivated, ConnectInv, Shape, FilesShape
<1>2. CASE \E status : Fail(op, status)
    BY <1>1, <1>2, OpFails
<1>3. CASE /\ op' = [op EXCEPT !.pc = "namespaces"]
           /\ client' = [client EXCEPT !.is_connected = TRUE]
           /\ wire' = SendRequest(op, request) /\ UNCHANGED <<conn, notified>>
  <2>1. /\ DOMAIN op' = DOMAIN Idle /\ op'.pc = "namespaces" /\ op'.size \in Nat
        /\ op'.security = op.security /\ op'.params = op.params /\ op'.then = op.then
        /\ op'.expected = op.expected /\ op'.kind = op.kind /\ op.size \in Nat
        /\ op'.refused = op.refused
      BY <1>3 DEF ConnectInv, Shape, Idle
  <2>2. /\ client'.session = client.session /\ client'.is_connected = TRUE
        /\ DOMAIN client' = DOMAIN NoStack /\ client.session \in BOOLEAN
      BY <1>3 DEF ConnectInv, Shape, NoStack
  <2>3. Shape'
      BY <1>1, <1>3, <2>1, <2>2, TalkKeeps DEF Shape, Talking, FilesShape
  <2>4. SignalInv'
      BY <1>1, <2>1, <2>2 DEF ConnectInv, SignalInv, Opening
  <2>5. PurposeInv'
      BY <1>1, <2>1, <2>2 DEF ConnectInv, PurposeInv, Opening
  <2>6. SecurityInv'
    <3>1. op.then = "create" /\ Vetted(op, files)
        BY <1>1 DEF ConnectInv, PurposeInv, SecurityInv, InUse
    <3> QED
        BY <1>1, <1>3, <2>1, <3>1, TalkKeeps DEF SecurityInv, NoneIsPlain
  <2>7. ChannelInv'
    <3>1. Matched'
        BY <1>1, <1>3, <2>1, TalkKeeps DEF ConnectInv, ChannelInv, Talking
    <3>2. (conn.open /\ Demands(op.params.settings)) => server.config.certificate = op.expected
        BY <1>1 DEF ConnectInv, ChannelInv
    <3> QED
        BY <1>1, <1>3, <2>1, <3>1, <3>2 DEF ChannelInv
  <2>8. WireInv'
    <3>1. "type" \in DOMAIN request /\ request.type = "Read"
        OBVIOUS
    <3> HIDE DEF request
    <3> QED
        BY <1>3, <2>1, <3>1, Speaks DEF RequestTypes, Talking
  <2> QED
      BY <1>1, <1>3, <2>1, <2>3, <2>4, <2>5, <2>6, <2>7, <2>8, TalkKeeps DEF ConnectInv
<1> QED
    BY <1>2, <1>3 DEF OnActivated

\* A step inside an established session: the connection, the security and the
\* signal stay what they are.
LEMMA SessionGoesOn ==
    ASSUME ConnectInv, UNCHANGED <<server, conn, files>>,
           Up, client'.is_connected = TRUE, client'.session = client.session,
           DOMAIN client' = DOMAIN NoStack,
           DOMAIN op' = DOMAIN Idle, op'.size \in Nat, op'.pc \in {"idle", "call", "close"},
           op'.security = op.security, op'.params = op.params, op'.then = op.then,
           op'.expected = op.expected, WireInv',
           op'.pc # "close" => (notified' = "up" <=> ~op'.refused)
    PROVE  ConnectInv'
<1>1. Shape'
    BY TalkKeeps DEF ConnectInv, Shape, Talking, FilesShape
<1>2. SignalInv'
    BY DEF ConnectInv, SignalInv, Opening, Up
<1>3. PurposeInv'
    BY DEF ConnectInv, PurposeInv, Opening
<1>4. SecurityInv'
  <2>1. op.then = "create" /\ Vetted(op, files)
      BY DEF ConnectInv, PurposeInv, SecurityInv, InUse
  <2> QED
      BY <2>1, TalkKeeps DEF SecurityInv, NoneIsPlain
<1>5. ChannelInv'
  <2>1. Matched'
      BY TalkKeeps DEF ConnectInv, ChannelInv
  <2>2. (conn.open /\ Demands(op.params.settings)) => server.config.certificate = op.expected
      BY DEF ConnectInv, ChannelInv
  <2> QED
      BY <2>1, <2>2 DEF ChannelInv
<1> QED
    BY <1>1, <1>2, <1>3, <1>4, <1>5, TalkKeeps DEF ConnectInv

\* The namespaces are read or not; observers hear of the session.
LEMMA NamespacesKeep ==
    ASSUME ConnectInv, OnNamespaces
    PROVE  ConnectInv'
<1>1. /\ op.pc = "namespaces" /\ UNCHANGED <<server, conn, files>>
      /\ op' = [op EXCEPT !.pc = "idle", !.result = "Good"]
      /\ notified' = "up" /\ wire' = Silent
    BY DEF OnNamespaces, Done, NotifyStateChanged
<1>2. /\ Up /\ ~op.refused /\ DOMAIN client = DOMAIN NoStack
      /\ client.is_connected = TRUE
    BY <1>1 DEF ConnectInv, SignalInv, Shape, Up
<1>3. client' = client \/ client' = [client EXCEPT !.namespace_table = ReadResponse.value]
    BY DEF OnNamespaces
<1>4. /\ client'.is_connected = TRUE /\ client'.session = client.session
      /\ DOMAIN client' = DOMAIN NoStack
    BY <1>2, <1>3 DEF NoStack
<1>5. /\ DOMAIN op' = DOMAIN Idle /\ op'.pc = "idle" /\ op'.size \in Nat
      /\ op'.security = op.security /\ op'.params = op.params /\ op'.then = op.then
      /\ op'.expected = op.expected /\ op'.refused = op.refused
    BY <1>1 DEF ConnectInv, Shape, Idle
<1>6. WireInv'
    BY <1>1, <1>5 DEF WireInv, Silent
<1> QED
    BY <1>1, <1>2, <1>4, <1>5, <1>6, SessionGoesOn

\* A service call starts.
LEMMA CallKeeps ==
    ASSUME ConnectInv, NEW size \in Sizes, Call(size)
    PROVE  ConnectInv'
<1> DEFINE request == [type |-> "Read"]
           o == [op EXCEPT !.pc = "call", !.kind = "call", !.size = size,
                           !.disturbed = ~conn.open]
<1>1. /\ op.pc = "idle" /\ client.is_connected /\ UNCHANGED <<server, conn, files>>
      /\ op' = o /\ wire' = SendRequest(o, request) /\ client' = client /\ notified' = notified
    BY DEF Call, Continue
<1>2. size \in Nat
    BY ConnectAssumption DEF ConnectAssumption
<1>3. /\ DOMAIN op' = DOMAIN Idle /\ op'.pc = "call" /\ op'.size \in Nat
      /\ op'.security = op.security /\ op'.params = op.params /\ op'.then = op.then
      /\ op'.expected = op.expected /\ op'.refused = op.refused
    BY <1>1, <1>2 DEF ConnectInv, Shape, Idle
<1>4. /\ Up /\ (notified = "up" <=> ~op.refused)
      /\ DOMAIN client = DOMAIN NoStack /\ client.is_connected = TRUE
    BY <1>1 DEF ConnectInv, SignalInv, Shape, Up
<1>5. WireInv'
  <2>1. "type" \in DOMAIN request /\ request.type = "Read"
      OBVIOUS
  <2> HIDE DEF request
  <2>2. wire' = SendRequest(op', request)
      BY <1>1
  <2> QED
      BY <1>3, <2>1, <2>2, Speaks DEF RequestTypes, Talking
<1> QED
    BY <1>1, <1>3, <1>4, <1>5, SessionGoesOn

\* A service call returns.
LEMMA OnCallKeeps ==
    ASSUME ConnectInv, OnCall
    PROVE  ConnectInv'
<1> DEFINE status == IF Answered(ReadResponse, "ReadResponse") THEN "Good" ELSE "Bad"
<1>1. /\ op.pc = "call" /\ UNCHANGED <<server, conn, files, client, notified>>
      /\ op' = [op EXCEPT !.pc = "idle", !.result = status] /\ wire' = Silent
    BY DEF OnCall, Done
<1> HIDE DEF status
<1>2. /\ Up /\ (notified = "up" <=> ~op.refused)
      /\ DOMAIN client = DOMAIN NoStack /\ client.is_connected = TRUE
    BY <1>1 DEF ConnectInv, SignalInv, Shape, Up
<1>3. /\ DOMAIN op' = DOMAIN Idle /\ op'.pc = "idle" /\ op'.size \in Nat
      /\ op'.security = op.security /\ op'.params = op.params /\ op'.then = op.then
      /\ op'.expected = op.expected /\ op'.refused = op.refused
    BY <1>1 DEF ConnectInv, Shape, Idle
<1>4. WireInv'
    BY <1>1, <1>3 DEF WireInv, Silent
<1> QED
    BY <1>1, <1>2, <1>3, <1>4, SessionGoesOn

\* Disconnect starts.
LEMMA DisconnectKeeps ==
    ASSUME ConnectInv, DisconnectAsync
    PROVE  ConnectInv'
<1> DEFINE request == [type |-> "CloseSession"]
           o == [op EXCEPT !.pc = "close", !.kind = "disconnect"]
<1>1. /\ op.pc = "idle" /\ client.session /\ UNCHANGED <<server, conn, files>>
      /\ op' = o /\ wire' = SendRequest(o, request) /\ client' = client /\ notified' = notified
    BY DEF DisconnectAsync, Continue
<1>2. /\ DOMAIN op' = DOMAIN Idle /\ op'.pc = "close" /\ op'.size \in Nat
      /\ op'.security = op.security /\ op'.params = op.params /\ op'.then = op.then
      /\ op'.expected = op.expected /\ op'.refused = op.refused
    BY <1>1 DEF ConnectInv, Shape, Idle
<1>3. /\ Up /\ DOMAIN client = DOMAIN NoStack /\ client.is_connected = TRUE
    BY <1>1 DEF ConnectInv, SignalInv, Shape, Up
<1>4. WireInv'
  <2>1. "type" \in DOMAIN request /\ request.type = "CloseSession"
      OBVIOUS
  <2> HIDE DEF request
  <2>2. wire' = SendRequest(op', request)
      BY <1>1
  <2> QED
      BY <1>2, <2>1, <2>2, Speaks DEF RequestTypes, Talking
<1> QED
    BY <1>1, <1>2, <1>3, <1>4, SessionGoesOn

\* Disconnect ends, whatever the server said.
LEMMA ClosedKeeps ==
    ASSUME ConnectInv, OnClosed
    PROVE  ConnectInv'
<1>1. /\ op' = [Idle EXCEPT !.kind = "disconnect", !.result = "Good"]
      /\ wire' = Silent /\ conn' = Closed /\ UNCHANGED <<server, files>>
      /\ client' = [client EXCEPT !.session = FALSE, !.is_connected = FALSE]
      /\ notified' = "down"
    BY DEF OnClosed, HangUp, Reset, NotifyStateChanged
<1>2. /\ DOMAIN op' = DOMAIN Idle /\ op'.pc = "idle" /\ op'.size \in Nat
      /\ NoneIsPlain(op'.security)
    BY <1>1 DEF Idle, NoneIsPlain, Unsecured
<1>3. /\ DOMAIN client' = DOMAIN NoStack /\ client'.session = FALSE
      /\ client'.is_connected = FALSE
    BY <1>1 DEF ConnectInv, Shape, NoStack
<1>4. wire'.kind = "silent" /\ FilesShape(files')
    BY <1>1 DEF Silent, ConnectInv, Shape, FilesShape
<1>5. DOMAIN conn' = DOMAIN Closed /\ conn'.open \in BOOLEAN /\ conn'.secure \in BOOLEAN
    BY <1>1 DEF Closed
<1> QED
    BY <1>1, <1>2, <1>3, <1>4, <1>5, AtRest

\* A call without a session is refused.
LEMMA CallUnconnectedKeeps ==
    ASSUME ConnectInv, CallUnconnected
    PROVE  ConnectInv'
<1>1. /\ op.pc = "idle" /\ ~client.is_connected
      /\ op' = [Idle EXCEPT !.kind = "call", !.result = "Bad_NoCommunication",
                            !.disturbed = TRUE]
      /\ UNCHANGED <<server, conn, files, client, wire, notified>>
    BY DEF CallUnconnected
<1>2. /\ DOMAIN op' = DOMAIN Idle /\ op'.pc = "idle" /\ op'.size \in Nat
      /\ NoneIsPlain(op'.security)
    BY <1>1 DEF Idle, NoneIsPlain, Unsecured
<1>3. /\ DOMAIN client' = DOMAIN NoStack /\ client'.session = FALSE
      /\ client'.is_connected = FALSE /\ notified' # "up"
      /\ wire'.kind = "silent" /\ FilesShape(files')
      /\ DOMAIN conn' = DOMAIN Closed /\ conn'.open \in BOOLEAN /\ conn'.secure \in BOOLEAN
    BY <1>1 DEF ConnectInv, Shape, SignalInv, WireInv, FilesShape
<1> QED
    BY <1>1, <1>2, <1>3, AtRest

\* An operation begins: what it starts from.
LEMMA StartedFresh ==
    ASSUME NEW kind, NEW p, NEW size \in Sizes, NEW created,
           NEW o, o = Started(kind, p, size, created)
    PROVE  /\ DOMAIN o = DOMAIN Idle /\ o.size \in Nat /\ NoneIsPlain(o.security)
           /\ o.kind = kind /\ o.params = p /\ ~o.refused
<1>1. size \in Nat
    BY ConnectAssumption DEF ConnectAssumption
<1> QED
    BY <1>1 DEF Started, Idle, NoneIsPlain, Unsecured

\* A client that asks for no security demands none.
LEMMA NothingDemanded ==
    ASSUME NEW o, DOMAIN o = DOMAIN Idle, o.params.settings.mode = "None", NEW then, NEW f
    PROVE  Vetted([o EXCEPT !.security = Unsecured, !.then = then], f)
<1> DEFINE w == [o EXCEPT !.security = Unsecured, !.then = then]
<1>1. w.params = o.params
    BY DEF Idle
<1> HIDE DEF w
<1>2. ~Demands(w.params.settings)
    BY <1>1 DEF Demands
<1>3. Vetted(w, f)
    BY <1>2 DEF Vetted
<1> QED
    BY <1>3 DEF w

\* An operation of a client that holds no session.
LEMMA UnconnectedState ==
    ASSUME ConnectInv, op.pc = "idle", ~client.session
    PROVE  /\ ~client.is_connected /\ notified # "up"
           /\ DOMAIN client = DOMAIN NoStack /\ client.session = FALSE
           /\ client.is_connected = FALSE
           /\ FilesShape(files)
BY DEF ConnectInv, Shape, SignalInv, FilesShape

\* Connect starts, or returns at once.
LEMMA ConnectKeeps ==
    ASSUME ConnectInv, NEW p, NEW size \in Sizes, NEW created \in BOOLEAN,
           ConnectAsync(p, size, created)
    PROVE  ConnectInv'
<1> DEFINE o == Started("connect", p, size, created)
<1>1. /\ op.pc = "idle" /\ ~client.session /\ UNCHANGED <<server, files>>
      /\ IF ~ParseOpcTcpUrl(EndpointUrl(p)) THEN ReturnSilently(o, "Bad")
         ELSE IF p.settings.mode = "None" THEN BuildStack(o, Unsecured, created)
         ELSE SendDiscoveryRequest(o, Unsecured, "endpoints", created)
    BY DEF ConnectAsync, Begin
<1>2. /\ DOMAIN o = DOMAIN Idle /\ o.size \in Nat /\ NoneIsPlain(o.security)
      /\ o.kind = "connect" /\ o.params = p /\ ~o.refused
    BY StartedFresh
<1>3. NoneIsPlain(Unsecured)
    BY DEF NoneIsPlain, Unsecured
<1>4. /\ ~client.is_connected /\ notified # "up"
      /\ DOMAIN client = DOMAIN NoStack /\ client.session = FALSE
      /\ client.is_connected = FALSE
      /\ FilesShape(files')
    BY <1>1, UnconnectedState
<1> HIDE DEF o
<1>5. CASE ReturnSilently(o, "Bad")
  <2>1. /\ op' = [o EXCEPT !.pc = "idle", !.result = "Bad"]
        /\ wire' = Silent /\ conn' = Closed /\ client' = client /\ notified' = notified
      BY <1>5 DEF ReturnSilently, Done, HangUp
  <2>2. /\ DOMAIN op' = DOMAIN Idle /\ op'.pc = "idle" /\ op'.size \in Nat
        /\ NoneIsPlain(op'.security)
      BY <1>2, <2>1 DEF Idle, NoneIsPlain
  <2>3. wire'.kind = "silent"
      BY <2>1 DEF Silent
  <2>4. DOMAIN conn' = DOMAIN Closed /\ conn'.open \in BOOLEAN /\ conn'.secure \in BOOLEAN
      BY <2>1 DEF Closed
  <2> QED
      BY <1>1, <1>4, <2>1, <2>2, <2>3, <2>4, AtRest
<1>6. CASE p.settings.mode = "None" /\ BuildStack(o, Unsecured, created)
  <2>1. Vetted([o EXCEPT !.security = Unsecured, !.then = "create"], files')
      BY <1>2, <1>6, NothingDemanded
  <2> QED
      BY <1>1, <1>2, <1>3, <1>4, <1>6, <2>1, StackStarts
<1>7. CASE SendDiscoveryRequest(o, Unsecured, "endpoints", created)
    BY <1>1, <1>2, <1>3, <1>4, <1>7, DiscoveryStarts
<1> QED
    BY <1>1, <1>5, <1>6, <1>7

\* Connect over a session returns and leaves the session as it is.
LEMMA ReturnKeeps ==
    ASSUME ConnectInv, op.pc = "idle", client.session, NEW status, NEW refused \in BOOLEAN,
           ReturnOverSession(status, refused), server' = server, FilesShape(files'),
           CertificateTrustStore(files') = CertificateTrustStore(files)
    PROVE  ConnectInv'
<1> DEFINE told == op.refused \/ refused
<1>1. /\ op' = [op EXCEPT !.kind = "again", !.result = status, !.refused = told]
      /\ UNCHANGED <<conn, client, wire>>
      /\ refused => notified' = "down"
      /\ ~refused => notified' = notified
    BY DEF ReturnOverSession, NotifyStateChanged
<1>2. /\ DOMAIN op' = DOMAIN Idle /\ op'.pc = "idle" /\ op'.size \in Nat
      /\ op'.security = op.security /\ op'.params = op.params /\ op'.then = op.then
      /\ op'.expected = op.expected /\ op'.refused = told
    BY <1>1 DEF ConnectInv, Shape, Idle
<1>3. Up /\ wire'.kind = "silent"
    BY <1>1 DEF ConnectInv, SignalInv, WireInv, Up
<1>4. Shape'
    BY <1>1, <1>2 DEF ConnectInv, Shape, FilesShape
<1>5. SignalInv'
    BY <1>1, <1>2 DEF ConnectInv, SignalInv, Opening
<1>6. PurposeInv'
    BY <1>2, <1>3 DEF ConnectInv, PurposeInv, Opening
<1>7. SecurityInv'
  <2>1. op.then = "create" /\ Vetted(op, files)
      BY <1>3 DEF ConnectInv, PurposeInv, SecurityInv, InUse
  <2>2. Vetted(op', files')
      BY <1>2, <2>1 DEF Vetted
  <2> QED
      BY <1>2, <2>2 DEF ConnectInv, SecurityInv
<1>8. ChannelInv'
    BY <1>1, <1>2, <1>3 DEF ConnectInv, ChannelInv, Matched, Talking
<1>9. WireInv'
    BY <1>2, <1>3 DEF WireInv
<1> QED
    BY <1>1, <1>4, <1>5, <1>6, <1>7, <1>8, <1>9 DEF ConnectInv

\* Judging a certificate leaves the trust store what it is.
LEMMA FilesAfterKeep ==
    ASSUME ConnectInv, NEW settings, NEW chosen,
           files' = files \/ files' = FilesAfter(settings, chosen)
    PROVE  FilesShape(files') /\ CertificateTrustStore(files') = CertificateTrustStore(files)
<1>1. \/ files' = WriteRejected(files, CertificateTrustStore(files), chosen.server_certificate)
      \/ files' = files
    BY DEF FilesAfter
<1>2. DOMAIN files = {"trusted", "issuers", "crls", "keeps_rejected", "rejected"}
    BY DEF ConnectInv, Shape
<1> QED
    BY <1>1, <1>2, RejectingKeepsStore DEF FilesShape

\* A Connect over a session that its discovery refused.
LEMMA RefusedKeeps ==
    ASSUME ConnectInv, NEW p, NEW reached \in BOOLEAN, RefusedAgain(p, reached)
    PROVE  ConnectInv'
<1>1. /\ op.pc = "idle" /\ client.session /\ server' = server
      /\ files' = files \/ files' = FilesAfter(p.settings, ChosenAgain(p))
      /\ \E status : ReturnOverSession(status, TRUE)
    BY DEF RefusedAgain, BeginAgain
<1>2. FilesShape(files') /\ CertificateTrustStore(files') = CertificateTrustStore(files)
    BY <1>1, FilesAfterKeep
<1> QED
    BY <1>1, <1>2, ReturnKeeps

\* A Connect over a session that replaces the stack, or returns at once.
LEMMA AgainKeeps ==
    ASSUME ConnectInv, NEW p, NEW size \in Sizes, NEW created \in BOOLEAN,
           ConnectAgain(p, size, created)
    PROVE  ConnectInv'
<1> DEFINE o == Started("connect", p, size, created)
           settings == p.settings
           chosen == ChosenAgain(p)
           security == BuildChannelSecurity(chosen, settings, files)
           u == [o EXCEPT !.offered = Offered(p), !.expected = chosen.server_certificate]
<1>1. /\ op.pc = "idle" /\ client.session /\ server' = server
      /\ files' = files \/ files' = FilesAfter(settings, chosen)
      /\ \/ \E status : ReturnOverSession(status, FALSE)
         \/ settings.mode = "None" /\ BuildStack(o, Unsecured, TRUE)
         \/ chosen # Missing /\ security # Missing /\ BuildStack(u, security, TRUE)
    BY DEF ConnectAgain, BeginAgain
<1>2. /\ DOMAIN o = DOMAIN Idle /\ o.size \in Nat /\ NoneIsPlain(o.security)
      /\ o.kind = "connect" /\ o.params = p /\ ~o.refused
    BY StartedFresh
<1>3. NoneIsPlain(Unsecured)
    BY DEF NoneIsPlain, Unsecured
<1>4. FilesShape(files') /\ CertificateTrustStore(files') = CertificateTrustStore(files)
    BY <1>1, FilesAfterKeep
<1>5. CASE \E status : ReturnOverSession(status, FALSE)
    BY <1>1, <1>4, <1>5, ReturnKeeps
<1>6. CASE settings.mode = "None" /\ BuildStack(o, Unsecured, TRUE)
  <2> HIDE DEF o
  <2>1. Vetted([o EXCEPT !.security = Unsecured, !.then = "create"], files')
      BY <1>2, <1>6, NothingDemanded
  <2> QED
      BY <1>1, <1>2, <1>3, <1>4, <1>6, <2>1, StackStarts
<1>7. CASE chosen # Missing /\ security # Missing /\ BuildStack(u, security, TRUE)
  <2>1. /\ NoneIsPlain(security)
        /\ Demands(settings) =>
             /\ security.security_policy_uri = "Basic256Sha256"
             /\ security.security_mode = "SignAndEncrypt"
             /\ security.client_certificate = settings.credentials
             /\ security.server_certificate = chosen.server_certificate
             /\ Parses(security.server_certificate)
             /\ HasTrustStore(settings) =>
                  Validate(CertificateTrustStore(files), security.server_certificate)
      BY <1>7, SecurityIsVetted DEF NoneIsPlain, ChosenAgain
  <2> HIDE DEF security, chosen, o
  <2>2. /\ DOMAIN u = DOMAIN Idle /\ u.size \in Nat /\ NoneIsPlain(u.security)
        /\ u.kind = "connect" /\ u.params = p /\ ~u.refused
        /\ u.expected = chosen.server_certificate
      BY <1>2 DEF Idle
  <2> HIDE DEF u
  <2> DEFINE w == [u EXCEPT !.security = security, !.then = "create"]
  <2>3. w.params = p /\ w.security = security /\ w.expected = chosen.server_certificate
      BY <2>2 DEF Idle
  <2> HIDE DEF w
  <2>4. Vetted(w, files')
      BY <1>4, <2>1, <2>3 DEF Vetted
  <2> QED
      BY <1>1, <1>4, <1>7, <2>1, <2>2, <2>4, StackStarts DEF w
<1> QED
    BY <1>1, <1>5, <1>6, <1>7

\* A discovery operation starts, or fails at once.
LEMMA DiscoverKeeps ==
    ASSUME ConnectInv, NEW kind \in {"find", "register", "register2"},
           NEW p, NEW size \in Sizes, NEW created \in BOOLEAN,
           Discover(kind, p, size, created)
    PROVE  ConnectInv'
<1> DEFINE o == Started(kind, p, size, created)
           then == IF p.settings.mode = "None" THEN "service" ELSE "endpoints"
<1>1. /\ op.pc = "idle" /\ ~client.session /\ UNCHANGED <<server, files>>
      /\ IF ~ParseOpcTcpUrl(EndpointUrl(p)) THEN Fail(o, "Bad")
         ELSE SendDiscoveryRequest(o, Unsecured, then, created)
    BY DEF Discover, Begin
<1>2. /\ DOMAIN o = DOMAIN Idle /\ o.size \in Nat /\ NoneIsPlain(o.security)
      /\ o.kind = kind /\ o.params = p /\ ~o.refused
    BY StartedFresh
<1>3. NoneIsPlain(Unsecured)
    BY DEF NoneIsPlain, Unsecured
<1>4. /\ ~client.is_connected /\ notified # "up" /\ FilesShape(files')
    BY <1>1, UnconnectedState
<1>5. /\ then \in {"service", "endpoints"}
      /\ then = "service" => p.settings.mode = "None"
    OBVIOUS
<1> HIDE DEF o, then
<1>6. CASE Fail(o, "Bad")
    BY <1>1, <1>2, <1>4, <1>6, FailEnds
<1>7. CASE SendDiscoveryRequest(o, Unsecured, then, created)
  <2>1. then = "service" =>
            Vetted([o EXCEPT !.security = Unsecured, !.then = then], files')
      BY <1>2, <1>5, NothingDemanded
  <2> QED
      BY <1>1, <1>2, <1>3, <1>4, <1>5, <1>7, <2>1, DiscoveryStarts
<1> QED
    BY <1>1, <1>6, <1>7

(***************************************************************************)
(* Faults and operators.                                                   *)
(***************************************************************************)
\* The connection breaks under whatever is going on.
LEMMA BreakKeeps ==
    ASSUME ConnectInv, UNCHANGED <<files, client, notified>>,
           conn' = Closed, wire' = Interrupted, op' = Disturbed,
           DOMAIN server' = {"config", "registered", "session"},
           IsSequence(server'.registered), RegistrationsVetted(server'.registered)
    PROVE  ConnectInv'
<1>1. /\ DOMAIN op' = DOMAIN Idle /\ op'.pc = op.pc /\ op'.size \in Nat
      /\ op'.security = op.security /\ op'.params = op.params /\ op'.then = op.then
      /\ op'.expected = op.expected /\ op'.kind = op.kind /\ op'.refused = op.refused
      /\ op.pc \in {"idle"} \cup Opening \cup Talking
    BY DEF ConnectInv, Shape, Disturbed, Idle
<1>2. conn'.open = FALSE /\ conn'.secure = FALSE /\ DOMAIN conn' = DOMAIN Closed
    BY DEF Closed
<1>3. wire'.kind # "request" /\ (wire.kind = "silent" => wire'.kind = "silent")
    BY DEF Interrupted, Failed
<1>4. Shape'
    BY <1>1, <1>2 DEF ConnectInv, Shape
<1>5. SignalInv'
    BY <1>1 DEF ConnectInv, SignalInv
<1>6. PurposeInv'
    BY <1>1 DEF ConnectInv, PurposeInv, Up
<1>7. SecurityInv'
    BY <1>1 DEF ConnectInv, SecurityInv, InUse, Vetted, Up
<1>8. ChannelInv'
    BY <1>2 DEF ChannelInv, Matched
<1>9. WireInv'
    BY <1>1, <1>2, <1>3 DEF ConnectInv, WireInv
<1> QED
    BY <1>4, <1>5, <1>6, <1>7, <1>8, <1>9 DEF ConnectInv

\* The connection is lost.
LEMMA LoseKeeps ==
    ASSUME ConnectInv, LoseConnection
    PROVE  ConnectInv'
<1>1. /\ UNCHANGED <<server, files, client, notified>>
      /\ conn' = Closed /\ wire' = Interrupted /\ op' = Disturbed
    BY DEF LoseConnection
<1>2. /\ DOMAIN server = {"config", "registered", "session"}
      /\ IsSequence(server.registered) /\ RegistrationsVetted(server.registered)
    BY DEF ConnectInv, Shape
<1> QED
    BY <1>1, <1>2, BreakKeeps

\* No registrations.
LEMMA NoneRegistered == IsSequence(<<>>) /\ RegistrationsVetted(<<>>)
BY DEF IsSequence, RegistrationsVetted

\* The server restarts.
LEMMA RestartKeeps ==
    ASSUME ConnectInv, NEW s, Restart(s)
    PROVE  ConnectInv'
<1>1. /\ UNCHANGED <<files, client, notified>>
      /\ conn' = Closed /\ wire' = Interrupted /\ op' = Disturbed
      /\ server' = [config |-> s, registered |-> <<>>, session |-> NoSession]
    BY DEF Restart
<1>2. /\ DOMAIN server' = {"config", "registered", "session"}
      /\ server'.registered = <<>>
    BY <1>1
<1> QED
    BY <1>1, <1>2, NoneRegistered, BreakKeeps

\* The operator trusts a certificate while there is no session.
LEMMA TrustKeeps ==
    ASSUME ConnectInv, NEW c, TrustRejected(c)
    PROVE  ConnectInv'
<1>1. /\ op.pc = "idle" /\ ~client.session /\ op' = Idle
      /\ UNCHANGED <<server, conn, client, wire, notified>>
      /\ files' = [files EXCEPT !.trusted = @ \cup {c}, !.rejected = @ \ {c}]
    BY DEF TrustRejected
<1>2. /\ DOMAIN op' = DOMAIN Idle /\ op'.pc = "idle" /\ op'.size \in Nat
      /\ NoneIsPlain(op'.security)
    BY <1>1 DEF Idle, NoneIsPlain, Unsecured
<1>3. /\ DOMAIN client' = DOMAIN NoStack /\ client'.session = FALSE
      /\ client'.is_connected = FALSE /\ notified' # "up"
    BY <1>1, UnconnectedState
<1>4. /\ wire'.kind = "silent"
      /\ DOMAIN conn' = DOMAIN Closed /\ conn'.open \in BOOLEAN /\ conn'.secure \in BOOLEAN
      /\ FilesShape(files')
    BY <1>1 DEF ConnectInv, Shape, WireInv, FilesShape
<1> QED
    BY <1>1, <1>2, <1>3, <1>4, AtRest

(***************************************************************************)
(* The theorems.                                                           *)
(***************************************************************************)
\* Nothing has happened yet.
LEMMA ConnectStarts ==
    ASSUME Init
    PROVE  ConnectInv
<1>1. PICK s \in Servers : server = [config |-> s, registered |-> <<>>, session |-> NoSession]
    BY DEF Init
<1>2. /\ DOMAIN server = {"config", "registered", "session"}
      /\ server.registered = <<>>
    BY <1>1
<1>3. /\ op = Idle /\ client = NoStack /\ conn = Closed /\ wire = Silent
      /\ notified = "none" /\ files \in InitialFiles
    BY DEF Init
<1>4. /\ op.pc = "idle" /\ op.size \in Nat /\ op.then = "none" /\ op.security = Unsecured
    BY <1>3 DEF Idle
<1>5. client.session = FALSE /\ client.is_connected = FALSE
    BY <1>3 DEF NoStack
<1>6. Shape
  <2>1. conn.open = FALSE /\ conn.secure = FALSE
      BY <1>3 DEF Closed
  <2>2. DOMAIN files = {"trusted", "issuers", "crls", "keeps_rejected", "rejected"}
      BY <1>3, ConnectAssumption DEF ConnectAssumption
  <2>3. IsSequence(server.registered)
      BY <1>2, NoneRegistered
  <2> QED
      BY <1>2, <1>3, <1>4, <1>5, <2>1, <2>2, <2>3 DEF Shape
<1>7. SignalInv /\ PurposeInv
    BY <1>3, <1>4, <1>5 DEF SignalInv, PurposeInv, Opening, Up
<1>8. SecurityInv
    BY <1>4, <1>5 DEF SecurityInv, InUse, Opening, Unsecured
<1>9. ChannelInv
    BY <1>4, <1>5 DEF ChannelInv, Talking, Up
<1>10. WireInv
    BY <1>3, <1>4 DEF WireInv, Silent
<1>11. RegistrationsVetted(server.registered)
    BY <1>2, NoneRegistered
<1> QED
    BY <1>6, <1>7, <1>8, <1>9, <1>10, <1>11 DEF ConnectInv

\* Nothing happens.
LEMMA StutterKeeps ==
    ASSUME ConnectInv, UNCHANGED vars
    PROVE  ConnectInv'
<1>1. UNCHANGED <<server, conn, files, client, op, wire, notified>>
    BY DEF vars
<1>2. Shape' /\ RegistrationsVetted(server.registered)'
    BY <1>1 DEF ConnectInv, Shape
<1>3. ChannelInv'
    BY <1>1 DEF ConnectInv, ChannelInv, Matched, Up
<1>4. WireInv'
    BY <1>1 DEF ConnectInv, WireInv, BodyOf, Asked
<1> QED
    BY <1>1, <1>2, <1>3, <1>4, ServerKeeps DEF ConnectInv

\* Every step of the client, the server, the network and the operator keeps
\* what was told, what was vetted and what is on the wire in step.
THEOREM ConnectInductive == Spec => []ConnectInv
<1>1. Init => ConnectInv
    BY ConnectStarts
<1>2. ConnectInv /\ [Next]_vars => ConnectInv'
  <2> SUFFICES ASSUME ConnectInv, [Next]_vars
               PROVE  ConnectInv'
      OBVIOUS
  <2>1. CASE ServerStep
      BY <2>1, HelloKeeps, OpenNoneKeeps, OpenSecureKeeps, MessageKeeps, UnreachableKeeps
         DEF ServerStep
  <2>2. CASE ClientStep
      BY <2>2, AcknowledgeKeeps, OpenedOnKeeps, EndpointsKeep, ServiceKeeps, CreatedKeeps,
         ActivatedKeeps, NamespacesKeep, OnCallKeeps, ClosedKeeps DEF ClientStep
  <2>3. ASSUME NEW p \in Parameters, NEW size \in Sizes, NEW created \in BOOLEAN,
               \/ ConnectAsync(p, size, created)
               \/ ConnectAgain(p, size, created)
               \/ \E kind \in {"find", "register", "register2"} :
                     Discover(kind, p, size, created)
        PROVE  ConnectInv'
      BY <2>3, ConnectKeeps, AgainKeeps, DiscoverKeeps
  <2>4. CASE \E size \in Sizes : Call(size)
      BY <2>4, CallKeeps
  <2>5. CASE CallUnconnected
      BY <2>5, CallUnconnectedKeeps
  <2>6. CASE DisconnectAsync
      BY <2>6, DisconnectKeeps
  <2>7. CASE LoseConnection
      BY <2>7, LoseKeeps
  <2>8. CASE \E s \in Servers : Restart(s)
      BY <2>8, RestartKeeps
  <2>9. CASE \E c \in files.rejected : TrustRejected(c)
      BY <2>9, TrustKeeps
  <2>10. CASE Resting \/ UNCHANGED vars
      BY <2>10, StutterKeeps DEF Resting
  <2>11. CASE \E p \in Parameters, reached \in BOOLEAN : RefusedAgain(p, reached)
      BY <2>11, RefusedKeeps
  <2> QED
      BY <2>1, <2>2, <2>3, <2>4, <2>5, <2>6, <2>7, <2>8, <2>9, <2>10, <2>11 DEF Next
<1> QED
    BY <1>1, <1>2, PTL DEF Spec

\* session_state_changed_ leaves an observer with what is_connected_ says, however
\* Connect, Disconnect and the calls end and whatever breaks meanwhile, until a
\* Connect over a session is refused by its discovery: then it has said FALSE of
\* a session that goes on.
THEOREM SignalsTellTheTruth == Spec => []LastWordIsTrue
<1>1. ConnectInv => LastWordIsTrue
    BY DEF ConnectInv, SignalInv, LastWordIsTrue
<1> QED
    BY <1>1, ConnectInductive, PTL

\* A Connect that fails leaves no stack behind: between operations there is one
\* exactly while the session is connected.
THEOREM NoStackLeftBehind ==
    Spec => [](op.pc = "idle" => (client.session <=> client.is_connected))
<1>1. ConnectInv => (op.pc = "idle" => (client.session <=> client.is_connected))
    BY DEF ConnectInv, SignalInv
<1> QED
    BY <1>1, ConnectInductive, PTL

\* A client that demands security holds a session, and registers a server, only
\* over a channel secured under its own certificate; the server at the other
\* end owns a certificate its trust store accepts.
THEOREM PeerIsTrusted == Spec => []TrustedPeer
<1>1. ConnectInv => TrustedPeer
  <2> SUFFICES ASSUME ConnectInv
               PROVE  TrustedPeer
      OBVIOUS
  <2>1. ASSUME Established, Demands(op.params.settings)
        PROVE  /\ conn.secure
               /\ conn.client_certificate = op.params.settings.credentials
               /\ HasTrustStore(op.params.settings) =>
                    Validate(CertificateTrustStore(files), server.config.certificate)
    <3>1. Up /\ conn.open
        BY <2>1 DEF Established, Up
    <3>2. op.then = "create" /\ Vetted(op, files) /\ Matched
        BY <3>1 DEF ConnectInv, PurposeInv, SecurityInv, InUse, ChannelInv
    <3>3. server.config.certificate = op.security.server_certificate
        BY <2>1, <3>1, <3>2 DEF ConnectInv, ChannelInv, Vetted
    <3> QED
        BY <2>1, <3>1, <3>2, <3>3 DEF Vetted, Matched, UsesBasic256Sha256
  <2>2. RegistrationsVetted(server.registered)
      BY DEF ConnectInv
  <2> QED
      BY <2>1, <2>2 DEF TrustedPeer, RegistrationsVetted
<1> QED
    BY <1>1, ConnectInductive, PTL

(***************************************************************************)
(* The second look: a session runs at the security SelectEndpoint picks    *)
(* from the list the server has now.                                       *)
(***************************************************************************)
\* The security is that of a usable endpoint of the list, and none ranks higher.
Picked(offered, settings, security) ==
    /\ IsSequence(offered)
    /\ \E i \in DOMAIN offered :
         /\ Usable(offered[i], settings)
         /\ offered[i].security_mode = security.security_mode
         /\ offered[i].security_policy_uri = security.security_policy_uri
    /\ \A j \in DOMAIN offered : Usable(offered[j], settings) =>
         SecurityRank(offered[j].security_mode) <= SecurityRank(security.security_mode)

\* Two lists that differ in their wording only.
SameSecurity(a, b) ==
    /\ IsSequence(a) /\ IsSequence(b) /\ DOMAIN a = DOMAIN b
    /\ \A i \in DOMAIN b : SecurityEquivalent(a[i], b[i])

Chooses == op.params.settings.mode # "None"
LookedAgain == op.pc = "activate" \/ Up

PickInv == (InUse /\ op.then = "create" /\ Chooses) =>
               Picked(op.offered, op.params.settings, op.security)

LookInv == (LookedAgain /\ conn.open /\ Chooses) =>
               EndpointSetsSecurityEquivalent(op.offered, server.config.endpoints)

\* What the answers that carry a list carry.
ListInv ==
    LET body == BodyOf(wire.frame)
    IN  /\ (op.pc = "endpoints" /\ wire.kind = "request") =>
             body.type = "GetEndpoints" /\ body.profile_uris = {}
        /\ (/\ op.pc = "endpoints" /\ wire.kind = "response"
            /\ body.type = "GetEndpointsResponse") => IsSequence(body.endpoints)
        /\ (/\ op.pc = "create" /\ wire.kind = "response" /\ conn.open
            /\ body.type = "CreateSessionResponse" /\ body.status = "Good") =>
             SameSecurity(body.endpoints, server.config.endpoints)

SelectInv == server.config \in Servers /\ PickInv /\ LookInv /\ ListInv

\* Positions 1 to n make a sequence.
LEMMA MadeSequence ==
    ASSUME NEW n \in Nat, NEW t, t = [i \in 1 .. n |-> t[i]]
    PROVE  IsSequence(t)
<1> DEFINE R == {t[i] : i \in DOMAIN t}
<1>1. DOMAIN t = 1 .. n
    OBVIOUS
<1>2. \A i \in 1 .. n : t[i] \in R
    BY <1>1
<1> HIDE DEF R
<1>3. t \in [1 .. n -> R]
    BY <1>1, <1>2
<1>4. t \in Seq(R)
    BY <1>3, SeqDef
<1> QED
    BY <1>4 DEF IsSequence, R

\* The positions a loop keeps are counted through, each at its rank.
LEMMA RanksAreTaken ==
    ASSUME NEW n \in Nat, NEW P, P \subseteq 1 .. n
    PROVE  /\ Cardinality(P) \in Nat
           /\ \A i \in 1 .. Cardinality(P) : \E j \in P : RankIn(P, j) = i
<1> DEFINE m == Cardinality(P)
           Upto(j) == {k \in P : k <= j}
           rank == [j \in P |-> Cardinality(Upto(j))]
<1>1. IsFiniteSet(P) /\ m \in Nat
  <2>1. IsFiniteSet(1 .. n)
      BY FS_Interval
  <2> QED
      BY <2>1, FS_Subset, FS_CardinalityType
<1>2. ASSUME NEW j \in P
      PROVE  /\ IsFiniteSet(Upto(j)) /\ Cardinality(Upto(j)) \in 1 .. m
             /\ j \in Upto(j)
  <2>1. Upto(j) \in SUBSET P /\ j \in Upto(j)
      OBVIOUS
  <2> HIDE DEF Upto
  <2>2. /\ IsFiniteSet(Upto(j)) /\ Cardinality(Upto(j)) <= m
        /\ Cardinality(Upto(j)) \in Nat
      BY <1>1, <2>1, FS_Subset, FS_CardinalityType
  <2>3. Cardinality(Upto(j)) # 0
      BY <2>1, <2>2, FS_EmptySet
  <2> QED
      BY <1>1, <2>1, <2>2, <2>3
<1>3. ASSUME NEW j \in P, NEW k \in P, j < k, Cardinality(Upto(j)) = Cardinality(Upto(k))
      PROVE  FALSE
  <2>1. Upto(j) \in SUBSET Upto(k) /\ k \notin Upto(j)
    <3>1. \A x \in P : x \in Int
        OBVIOUS
    <3>2. (\A x \in P : x <= j => x <= k) /\ ~(k <= j)
        BY <1>3, <3>1
    <3> QED
        BY <3>2
  <2>2. IsFiniteSet(Upto(k)) /\ k \in Upto(k)
      BY <1>2
  <2> HIDE DEF Upto
  <2>3. Upto(k) = Upto(j)
      BY <1>3, <2>1, <2>2, FS_Subset
  <2> QED
      BY <2>1, <2>2, <2>3
<1>4. rank \in Injection(P, 1 .. m)
  <2>1. rank \in [P -> 1 .. m]
      BY <1>2
  <2>2. ASSUME NEW j \in P, NEW k \in P, rank[j] = rank[k]
        PROVE  j = k
    <3>1. Cardinality(Upto(j)) = Cardinality(Upto(k))
        BY <2>2
    <3> HIDE DEF Upto
    <3> QED
        BY <1>3, <3>1
  <2> HIDE DEF rank
  <2> QED
      BY <2>1, <2>2 DEF Injection, IsInjective
<1>5. IsFiniteSet(1 .. m) /\ Cardinality(1 .. m) = m
    BY <1>1, FS_Interval
<1>6. rank \in Surjection(P, 1 .. m)
  <2> HIDE DEF rank, m
  <2> QED
      BY <1>4, <1>5, FS_Injection DEF m
<1>7. \A i \in 1 .. m : \E j \in P : rank[j] = i
  <2> HIDE DEF rank
  <2> QED
      BY <1>6 DEF Surjection
<1> QED
    BY <1>1, <1>7 DEF RankIn

\* What is kept comes from a kept position, and from another one each time.
ArePositions(P) == \E n \in Nat : P \subseteq 1 .. n
Keeps(t, list, P) ==
    /\ IsSequence(t) /\ DOMAIN t = 1 .. Cardinality(P)
    /\ \A i \in DOMAIN t : \E j \in P : t[i] = list[j] /\ RankIn(P, j) = i

LEMMA KeptElements ==
    ASSUME NEW list, NEW P, ArePositions(P)
    PROVE  Keeps(AtPositions(list, P), list, P)
<1> SUFFICES ASSUME NEW t, t = AtPositions(list, P)
             PROVE  Keeps(t, list, P)
    OBVIOUS
<1>1. /\ Cardinality(P) \in Nat
      /\ \A i \in 1 .. Cardinality(P) : \E j \in P : RankIn(P, j) = i
    BY RanksAreTaken DEF ArePositions
<1>2. /\ t = [i \in 1 .. Cardinality(P) |-> t[i]]
      /\ \A i \in 1 .. Cardinality(P) : t[i] = list[CHOOSE j \in P : RankIn(P, j) = i]
    BY DEF AtPositions
<1>3. IsSequence(t)
    BY <1>1, <1>2, MadeSequence
<1>4. DOMAIN t = 1 .. Cardinality(P)
    BY <1>2
<1>5. ASSUME NEW i \in 1 .. Cardinality(P)
      PROVE  \E j \in P : t[i] = list[j] /\ RankIn(P, j) = i
  <2> DEFINE j == CHOOSE j \in P : RankIn(P, j) = i
  <2>1. j \in P /\ RankIn(P, j) = i
      BY <1>1
  <2>2. t[i] = list[j]
      BY <1>2
  <2> HIDE DEF j
  <2> QED
      BY <2>1, <2>2
<1> QED
    BY <1>3, <1>4, <1>5 DEF Keeps

\* A loop that keeps everything copies the list.
LEMMA EverythingKept ==
    ASSUME NEW s, IsSequence(s)
    PROVE  AtPositions(s, DOMAIN s) = s
<1>1. Len(s) \in Nat /\ DOMAIN s = 1 .. Len(s) /\ Cardinality(DOMAIN s) = Len(s)
    BY PositionsOf
<1>2. ArePositions(DOMAIN s)
    BY <1>1 DEF ArePositions
<1> SUFFICES ASSUME NEW t, t = AtPositions(s, DOMAIN s)
             PROVE  t = s
    OBVIOUS
<1>3. Keeps(t, s, DOMAIN s)
    BY <1>2, KeptElements
<1>4. t = [i \in DOMAIN t |-> t[i]] /\ s = [i \in DOMAIN s |-> s[i]]
  <2>1. t = [i \in DOMAIN t |-> t[i]]
      BY DEF AtPositions
  <2>2. s = [i \in DOMAIN s |-> s[i]]
      BY DEF IsSequence
  <2> QED
      BY <2>1, <2>2
<1>5. DOMAIN t = DOMAIN s
    BY <1>1, <1>3 DEF Keeps
<1>6. ASSUME NEW i \in DOMAIN s
      PROVE  t[i] = s[i]
  <2>1. PICK j \in DOMAIN s : t[i] = s[j] /\ RankIn(DOMAIN s, j) = i
      BY <1>3, <1>5 DEF Keeps
  <2>2. {k \in DOMAIN s : k <= j} = 1 .. j
      BY <1>1
  <2>3. Cardinality(1 .. j) = j
      BY <1>1, FS_Interval
  <2> QED
      BY <2>1, <2>2, <2>3 DEF RankIn
<1> QED
    BY <1>4, <1>5, <1>6

\* Rewording touches no field that is compared.
LEMMA RewordingKeepsSecurity ==
    ASSUME NEW endpoints, IsEndpointList(endpoints), NEW url
    PROVE  SameSecurity(Reworded(endpoints, url), endpoints)
<1> DEFINE t == Reworded(endpoints, url)
<1>1. /\ IsSequence(endpoints)
      /\ Len(endpoints) \in Nat /\ DOMAIN endpoints = 1 .. Len(endpoints)
    BY PositionsOf DEF IsEndpointList, IsSequence
<1>2. t = [i \in 1 .. Len(endpoints) |-> t[i]] /\ DOMAIN t = DOMAIN endpoints
    BY <1>1 DEF Reworded
<1>3. ASSUME NEW i \in DOMAIN endpoints
      PROVE  SecurityEquivalent(t[i], endpoints[i])
  <2>1. PICK x, y : t[i] = [endpoints[i] EXCEPT !.endpoint_url = x, !.discovery_urls = y]
      BY DEF Reworded
  <2>2. DOMAIN endpoints[i] = EndpointMembers
      BY DEF IsEndpointList
  <2> QED
      BY <2>1, <2>2 DEF SecurityEquivalent, EndpointMembers
<1> HIDE DEF t
<1>4. IsSequence(t)
    BY <1>1, <1>2, MadeSequence
<1> QED
    BY <1>1, <1>2, <1>3, <1>4 DEF SameSecurity, t

\* The comparison does not see a change of wording either.
LEMMA ComparedWithoutWording ==
    ASSUME NEW d, NEW a, NEW b, SameSecurity(a, b), EndpointSetsSecurityEquivalent(d, a)
    PROVE  EndpointSetsSecurityEquivalent(d, b)
<1>1. /\ Len(a) \in Nat /\ DOMAIN a = 1 .. Len(a)
      /\ Len(b) \in Nat /\ DOMAIN b = 1 .. Len(b)
      /\ DOMAIN a = DOMAIN b
    BY PositionsOf DEF SameSecurity
<1>2. Len(a) = Len(b)
  <2>1. Cardinality(DOMAIN a) = Len(a) /\ Cardinality(DOMAIN b) = Len(b)
      BY PositionsOf DEF SameSecurity
  <2> QED
      BY <1>1, <2>1
<1>3. a = <<>> => b = <<>>
  <2>1. b \in Seq({b[i] : i \in DOMAIN b})
      BY DEF SameSecurity, IsSequence
  <2>2. a = <<>> => Len(b) = 0
      BY <1>2
  <2> QED
      BY <2>1, <2>2, EmptySeq
<1>4. \A i \in DOMAIN d :
        {j \in DOMAIN a : SecurityEquivalent(a[j], d[i])} =
        {j \in DOMAIN b : SecurityEquivalent(b[j], d[i])}
    BY <1>1 DEF SameSecurity, SecurityEquivalent
<1> QED
    BY <1>2, <1>3, <1>4 DEF EndpointSetsSecurityEquivalent

\* Equivalent lists have equally secure best endpoints.
LEMMA SameBest ==
    ASSUME NEW offered, NEW endpoints, NEW settings, NEW security,
           Picked(offered, settings, security), IsEndpointList(endpoints), endpoints # <<>>,
           EndpointSetsSecurityEquivalent(offered, endpoints),
           NEW best, best = SelectEndpoint(endpoints, ToSecurityPreference(settings),
                                           CapabilitiesFor(settings))
    PROVE  /\ best # Missing
           /\ best.security_mode = security.security_mode
           /\ best.security_policy_uri = security.security_policy_uri
<1>1. IsSequence(offered) /\ IsSequence(endpoints)
    BY DEF Picked, IsEndpointList, IsSequence
<1>2. PICK i \in DOMAIN offered :
        /\ Usable(offered[i], settings)
        /\ offered[i].security_mode = security.security_mode
        /\ offered[i].security_policy_uri = security.security_policy_uri
    BY DEF Picked
<1>3. offered # <<>>
    BY <1>2
<1>4. /\ \A k \in DOMAIN offered : \E j \in DOMAIN endpoints :
            SecurityEquivalent(endpoints[j], offered[k])
      /\ \A j \in DOMAIN endpoints : \E k \in DOMAIN offered :
            SecurityEquivalent(endpoints[j], offered[k])
    BY <1>1, <1>3, EquivalentListsCover
<1>5. PICK u \in DOMAIN endpoints : SecurityEquivalent(endpoints[u], offered[i])
    BY <1>4
<1>6. Usable(endpoints[u], settings) /\ endpoints[u].security_mode = security.security_mode
    BY <1>2, <1>5 DEF SecurityEquivalent, Usable, IsSupported, MatchesPreference
<1>7. best # Missing
    BY <1>6, SomethingIsSelected
<1>8. PICK h \in DOMAIN endpoints :
        /\ best = endpoints[h] /\ Usable(endpoints[h], settings)
        /\ \A j \in DOMAIN endpoints : Usable(endpoints[j], settings) =>
             SecurityRank(endpoints[j].security_mode) <= SecurityRank(best.security_mode)
    BY <1>7, SelectedRanksHighest
<1>9. PICK k \in DOMAIN offered : SecurityEquivalent(endpoints[h], offered[k])
    BY <1>4
<1>10. Usable(offered[k], settings) /\ offered[k].security_mode = best.security_mode
    BY <1>8, <1>9 DEF SecurityEquivalent, Usable, IsSupported, MatchesPreference
<1>11. SecurityRank(best.security_mode) = SecurityRank(offered[i].security_mode)
  <2>1. SecurityRank(best.security_mode) <= SecurityRank(security.security_mode)
      BY <1>10 DEF Picked
  <2>2. SecurityRank(security.security_mode) <= SecurityRank(best.security_mode)
      BY <1>6, <1>8
  <2>3. /\ SecurityRank(best.security_mode) \in 0 .. 3
        /\ SecurityRank(security.security_mode) \in 0 .. 3
      BY RankIsNatural
  <2> QED
      BY <1>2, <2>1, <2>2, <2>3
<1>12. /\ best.security_mode = offered[i].security_mode
       /\ best.security_policy_uri = offered[i].security_policy_uri
    BY <1>2, <1>8, <1>11, RankTellsSecurity
<1> QED
    BY <1>2, <1>7, <1>12

\* What the client picked is what the security is built for.
LEMMA SecurityIsPicked ==
    ASSUME NEW endpoints, IsSequence(endpoints), NEW settings, NEW f, NEW chosen, NEW security,
           chosen = SelectEndpoint(endpoints, ToSecurityPreference(settings),
                                   CapabilitiesFor(settings)),
           chosen # Missing,
           security = BuildChannelSecurity(chosen, settings, f), security # Missing
    PROVE  Picked(endpoints, settings, security)
<1>1. PICK i \in DOMAIN endpoints :
        /\ chosen = endpoints[i] /\ Usable(endpoints[i], settings)
        /\ \A j \in DOMAIN endpoints : Usable(endpoints[j], settings) =>
             SecurityRank(endpoints[j].security_mode) <= SecurityRank(chosen.security_mode)
    BY SelectedRanksHighest
<1>2. chosen.security_mode = "None" => chosen.security_policy_uri = "None"
    BY <1>1 DEF Usable, IsSupported, CapabilitiesFor, NoneOnlyCapabilities, DefaultCapabilities
<1>3. /\ security.security_mode = chosen.security_mode
      /\ security.security_policy_uri = chosen.security_policy_uri
  <2>1. CASE chosen.security_mode = "None"
      BY <1>2, <2>1 DEF BuildChannelSecurity, Unsecured
  <2>2. CASE chosen.security_mode # "None"
    <3>1. security = [security_policy_uri |-> chosen.security_policy_uri,
                      security_mode |-> chosen.security_mode,
                      client_certificate |-> ReadCredentials(settings),
                      server_certificate |-> chosen.server_certificate]
        BY <2>2 DEF BuildChannelSecurity
    <3> QED
        BY <3>1
  <2> QED
      BY <2>1, <2>2
<1> QED
    BY <1>1, <1>3 DEF Picked

\* Nothing under way and no session: nothing was chosen.
LEMMA NothingChosen ==
    ASSUME server'.config \in Servers, op'.pc = "idle", client'.is_connected = FALSE
    PROVE  SelectInv'
BY DEF SelectInv, PickInv, LookInv, ListInv, InUse, LookedAgain, Opening, Up

\* No list is on its way.
LEMMA NoList ==
    ASSUME op'.pc \notin {"endpoints", "create"} \/ wire'.kind \in {"failed", "silent"}
    PROVE  ListInv'
BY DEF ListInv

\* A step that changes neither what was chosen nor for whom.
LEMMA ChoiceCarried ==
    ASSUME SelectInv,
           op'.security = op.security, op'.params = op.params, op'.then = op.then,
           op'.offered = op.offered,
           (InUse' /\ op.then = "create") => InUse,
           (LookedAgain /\ conn.open)' =>
               LookedAgain /\ conn.open /\ server'.config = server.config,
           server'.config \in Servers, ListInv'
    PROVE  SelectInv'
<1>1. PickInv'
    BY DEF SelectInv, PickInv, Chooses
<1>2. LookInv'
    BY DEF SelectInv, LookInv, Chooses
<1> QED
    BY <1>1, <1>2 DEF SelectInv

\* An operation that is not yet connected fails.
LEMMA FailForgets ==
    ASSUME ConnectInv, SelectInv, NEW o, NEW status, Fail(o, status), server' = server,
           DOMAIN o = DOMAIN Idle, o.kind # "connect" => ~client.session
    PROVE  SelectInv'
<1>1. op' = [o EXCEPT !.pc = "idle", !.result = status]
    BY DEF Fail, Done
<1>2. op'.pc = "idle"
    BY <1>1 DEF Idle
<1>3. /\ DOMAIN client = DOMAIN NoStack
      /\ \/ client' = client /\ client.is_connected = FALSE
         \/ client' = [client EXCEPT !.session = FALSE, !.is_connected = FALSE]
    BY DEF ConnectInv, Shape, SignalInv, Fail, Reset
<1>4. client'.is_connected = FALSE
    BY <1>3 DEF NoStack
<1>5. server'.config \in Servers
    BY DEF SelectInv
<1> QED
    BY <1>2, <1>4, <1>5, NothingChosen

LEMMA OpForgets ==
    ASSUME ConnectInv, SelectInv, NEW status, Fail(op, status), server' = server,
           op.pc \in Opening \cup {"endpoints", "service", "create", "activate"}
    PROVE  SelectInv'
<1>1. DOMAIN op = DOMAIN Idle /\ (op.kind # "connect" => ~client.session)
    BY DEF ConnectInv, Shape, SignalInv, PurposeInv, Opening
<1> QED
    BY <1>1, FailForgets

\* A new connection: for a session it takes what was picked along.
LEMMA DialCarries ==
    ASSUME SelectInv, NEW o, NEW security, NEW then, Dial(security, then, o),
           DOMAIN o = DOMAIN Idle, server' = server,
           then = "create" /\ o.params.settings.mode # "None" =>
               Picked(o.offered, o.params.settings, security)
    PROVE  SelectInv'
<1>1. op' = [o EXCEPT !.pc = "hello", !.then = then, !.security = security, !.keys = NoKeys]
    BY DEF Dial
<1>2. /\ op'.pc = "hello" /\ op'.then = then /\ op'.security = security
      /\ op'.params = o.params /\ op'.offered = o.offered
    BY <1>1 DEF Idle
<1>3. PickInv'
    BY <1>2 DEF PickInv, Chooses
<1>4. LookInv' /\ ListInv'
    BY <1>2 DEF LookInv, ListInv, LookedAgain, Up
<1> QED
    BY <1>3, <1>4 DEF SelectInv

\* The connection of a discovery request chooses nothing.
LEMMA DiscoveryCarries ==
    ASSUME ConnectInv, SelectInv, NEW o, NEW security, NEW then, NEW created,
           SendDiscoveryRequest(o, security, then, created),
           then \in {"endpoints", "service"},
           DOMAIN o = DOMAIN Idle, ~client.session, server' = server
    PROVE  SelectInv'
<1>1. CASE ~created
    BY <1>1, FailForgets DEF SendDiscoveryRequest
<1>2. CASE created
  <2>1. Dial(security, then, o)
      BY <1>2 DEF SendDiscoveryRequest
  <2> QED
      BY <2>1, DialCarries
<1> QED
    BY <1>1, <1>2

\* The stack of a session is built at the security that was picked.
LEMMA StackCarries ==
    ASSUME ConnectInv, SelectInv, NEW o, NEW security, NEW created,
           BuildStack(o, security, created),
           DOMAIN o = DOMAIN Idle, created \/ ~client.session, server' = server,
           o.params.settings.mode # "None" => Picked(o.offered, o.params.settings, security)
    PROVE  SelectInv'
<1>1. (~client.session => client.is_connected = FALSE) /\ server'.config \in Servers
    BY DEF ConnectInv, Shape, SignalInv, SelectInv
<1>2. CASE ~created
  <2>1. /\ op' = [o EXCEPT !.pc = "idle", !.result = "Bad_NoCommunication"]
        /\ client' = client
      BY <1>2 DEF BuildStack, ReturnSilently, Done
  <2>2. op'.pc = "idle"
      BY <2>1 DEF Idle
  <2> QED
      BY <1>1, <1>2, <2>1, <2>2, NothingChosen
<1>3. CASE created
  <2>1. Dial(security, "create", o)
      BY <1>3 DEF BuildStack
  <2> QED
      BY <2>1, DialCarries
<1> QED
    BY <1>2, <1>3

\* While a channel is opened no list is on its way.
LEMMA OpeningCarries ==
    ASSUME ConnectInv, SelectInv, op.pc \in Opening, UNCHANGED <<server, client, op>>
    PROVE  SelectInv'
<1>1. ~Up'
    BY DEF Up, Opening
<1>2. ListInv'
    BY NoList DEF Opening
<1>3. ~LookedAgain'
    BY <1>1 DEF LookedAgain, Opening
<1>4. server'.config \in Servers
    BY DEF SelectInv
<1> QED
    BY <1>2, <1>3, <1>4, ChoiceCarried DEF InUse


(***************************************************************************)
(* The lists on the wire.                                                  *)
(***************************************************************************)
\* The lists the server answers with differ from its own in their wording.
LEMMA ListAnswered ==
    ASSUME NEW s, IsEndpointList(s.config.endpoints), NEW body, NEW a, a = Handle(s, body)
    PROVE  /\ (body.type = "GetEndpoints" /\ body.profile_uris = {}) =>
                /\ {"type", "endpoints"} \subseteq DOMAIN a.body
                /\ IsSequence(a.body.endpoints)
           /\ body.type = "CreateSession" =>
                /\ {"type", "endpoints"} \subseteq DOMAIN a.body
                /\ SameSecurity(a.body.endpoints, s.config.endpoints)
<1> DEFINE listed == ReachableEndpoints(s.config.endpoints, body.endpoint_url, {})
<1>1. SameSecurity(listed, s.config.endpoints)
  <2> DEFINE endpoints == s.config.endpoints
  <2>1. {i \in DOMAIN endpoints :
           MatchesStringFilter(endpoints[i].transport_profile_uri, {})} = DOMAIN endpoints
      BY DEF MatchesStringFilter
  <2>2. AtPositions(endpoints, DOMAIN endpoints) = endpoints
      BY EverythingKept DEF IsEndpointList, IsSequence
  <2>3. listed = Reworded(endpoints, body.endpoint_url)
      BY <2>1, <2>2 DEF ReachableEndpoints
  <2> QED
      BY <2>3, RewordingKeepsSecurity
<1>2. IsSequence(listed)
    BY <1>1 DEF SameSecurity
<1>3. CASE body.type = "GetEndpoints" /\ body.profile_uris = {}
  <2>1. a.body = [type |-> "GetEndpointsResponse", endpoints |-> listed]
      BY <1>3 DEF Handle, ServeGetEndpoints, HandleGetEndpoints, Answer
  <2> HIDE DEF listed
  <2> QED
      BY <1>2, <1>3, <2>1
<1>4. CASE body.type = "CreateSession"
  <2>1. a = HandleCreateSession(s, body)
      BY <1>4 DEF Handle
  <2> DEFINE refusal == [type |-> "CreateSessionResponse",
                         status |-> "Bad_ApplicationSignatureInvalid", nonce |-> NoNonce,
                         certificate |-> NoCertificate, endpoints |-> listed]
             consent == [type |-> "CreateSessionResponse", status |-> "Good",
                         nonce |-> MakeServerNonce, certificate |-> s.config.certificate,
                         endpoints |-> listed]
  <2>2. a.body = refusal \/ a.body = consent
    <3> DEFINE session == [nonce |-> MakeServerNonce,
                           certificate |-> body.client_certificate, activated |-> FALSE]
    <3>1. \/ a = Answer(s, refusal)
          \/ a = Answer([s EXCEPT !.session = session], consent)
        BY <2>1 DEF HandleCreateSession
    <3> HIDE DEF session, refusal, consent
    <3> QED
        BY <3>1 DEF Answer
  <2> HIDE DEF listed
  <2> QED
      BY <1>1, <1>4, <2>2
<1> QED
    BY <1>3, <1>4

\* An answer carries its body, secured or not.
LEMMA ResponseCarries ==
    ASSUME Matched, conn.open, NEW id, NEW body, body.len \in Nat,
           op' = op, wire' = Response(BuildServiceResponse(id, body))
    PROVE  wire'.kind = "response" /\ BodyOf(wire.frame)' = body
<1>1. wire'.kind = "response" /\ wire'.frame = BuildServiceResponse(id, body)
    BY DEF Response
<1>2. conn.secure <=> UsesBasic256Sha256(op.security)
    BY DEF Matched
<1>3. CASE conn.secure
  <2>1. wire'.frame = BuildSymmetricFrame("SecureMessage", OutboundKeys, ChannelId, TokenId,
                                          id, body)
      BY <1>1, <1>3 DEF BuildServiceResponse, BuildSecureServiceResponse
  <2>2. wire'.frame.sealed.plaintext.body = body
      BY <2>1, SymmetricFrameCarries
  <2> QED
      BY <1>1, <1>2, <1>3, <2>2 DEF BodyOf
<1>4. CASE ~conn.secure
  <2>1. wire'.frame = EncodeSecureConversationMessage("SecureMessage", ChannelId,
                                                      [token_id |-> TokenId], id, body)
      BY <1>1, <1>4 DEF BuildServiceResponse
  <2>2. wire'.frame.plain.body = body
      BY <2>1, PlainFrameCarries
  <2> QED
      BY <1>1, <1>2, <1>4, <2>2 DEF BodyOf
<1> QED
    BY <1>3, <1>4

\* What the client reads is what the frame carries, secured or not.
LEMMA AnswerIsRead ==
    ASSUME ~Broken(ReadResponse)
    PROVE  wire.kind # "failed" /\ ReadResponse = BodyOf(wire.frame)
<1>1. CASE UsesBasic256Sha256(op.security)
    BY <1>1, ClientReadsAnswer
<1>2. CASE ~UsesBasic256Sha256(op.security)
  <2> DEFINE message == DecodeSecureConversationMessage(wire.frame, "SecureMessage")
  <2>1. wire.kind # "failed" /\ ~Broken(message) /\ ReadResponse = message.body
      BY <1>2 DEF ReadResponse, DecodeServiceMessageChunk, Broken
  <2>2. message.body = wire.frame.plain.body
      BY <2>1, PlainFrameGives
  <2> QED
      BY <1>2, <2>1, <2>2 DEF BodyOf
<1> QED
    BY <1>1, <1>2

\* A service request is answered, or the connection given up.
LEMMA MessageCarries ==
    ASSUME ConnectInv, SelectInv, HandleSecureMessage
    PROVE  SelectInv'
<1>1. /\ op.pc \in Talking /\ UNCHANGED <<files, client, op>>
      /\ Arrives("SecureMessage") /\ conn.open /\ wire.kind = "request"
    BY FrameTellsStage DEF HandleSecureMessage, Arrives
<1>2. /\ DOMAIN server = {"config", "registered", "session"}
      /\ server.config \in Servers /\ IsEndpointList(server.config.endpoints)
    BY ConnectAssumption DEF ConnectInv, Shape, SelectInv
<1>3. /\ op'.security = op.security /\ op'.params = op.params /\ op'.then = op.then
      /\ op'.offered = op.offered
      /\ InUse' => InUse
    BY <1>1 DEF InUse, Up
<1> DEFINE chunk == ServerDecode(wire.frame)
           answer == Handle(server, chunk.body)
           reply == WithLength(chunk.body.len + 3, answer.body)
<1>4. CASE ~conn.opened \/ Broken(chunk)
  <2>1. wire' = Failed /\ conn' = Closed /\ server' = server
      BY <1>4 DEF HandleSecureMessage, Drop
  <2>2. wire'.kind = "failed" /\ conn'.open = FALSE
      BY <2>1 DEF Failed, Closed
  <2> QED
      BY <1>2, <1>3, <2>1, <2>2, NoList, ChoiceCarried
<1>5. CASE ~(~conn.opened \/ Broken(chunk))
  <2>1. /\ server' = answer.server /\ conn' = conn
        /\ wire' = Response(BuildServiceResponse(chunk.request_id, reply))
      BY <1>5 DEF HandleSecureMessage
  <2>2. chunk.body = BodyOf(wire.frame) /\ Asked(chunk.body)
    <3>1. chunk.body = BodyOf(wire.frame)
        BY <1>1, <1>5, ServerReadsRequest
    <3>2. Asked(BodyOf(wire.frame))
        BY <1>1 DEF ConnectInv, WireInv
    <3> QED
        BY <3>1, <3>2
  <2>3. /\ op.pc = "endpoints" =>
             chunk.body.type = "GetEndpoints" /\ chunk.body.profile_uris = {}
        /\ op.pc = "create" => chunk.body.type = "CreateSession"
        /\ chunk.body.type \in RequestTypes /\ chunk.body.len \in Nat
      BY <1>1, <2>2 DEF SelectInv, ListInv, Asked
  <2> HIDE DEF chunk
  <2>4. answer.server.config = server.config
      BY <1>2, <2>3, HandleGives
  <2>5. /\ op.pc = "endpoints" =>
             "endpoints" \in DOMAIN answer.body /\ IsSequence(answer.body.endpoints)
        /\ op.pc = "create" =>
             /\ "endpoints" \in DOMAIN answer.body
             /\ SameSecurity(answer.body.endpoints, server.config.endpoints)
      BY <1>2, <2>3, ListAnswered
  <2> HIDE DEF answer
  <2>6. reply.len \in Nat /\ ("endpoints" \in DOMAIN answer.body =>
                                reply.endpoints = answer.body.endpoints)
      BY <2>3, LengthAdded
  <2> HIDE DEF reply
  <2>7. wire'.kind = "response" /\ BodyOf(wire.frame)' = reply
    <3>1. Matched
        BY <1>1 DEF ConnectInv, ChannelInv
    <3> QED
        BY <1>1, <2>1, <2>6, <3>1, ResponseCarries
  <2>8. server'.config = server.config
      BY <2>1, <2>4
  <2>9. ListInv'
      BY <1>1, <2>5, <2>6, <2>7, <2>8 DEF ListInv
  <2>10. (LookedAgain /\ conn.open)' => LookedAgain /\ conn.open
      BY <1>1, <2>1 DEF LookedAgain, Up
  <2> QED
      BY <1>2, <1>3, <2>8, <2>9, <2>10, ChoiceCarried
<1> QED
    BY <1>4, <1>5

\* The other steps of the server.
LEMMA ServerCarries ==
    ASSUME ConnectInv, SelectInv, ServerStep
    PROVE  SelectInv'
<1>1. CASE HandleHello
  <2>1. op.pc \in Opening
      BY <1>1, FrameTellsStage DEF HandleHello, Opening
  <2> QED
      BY <1>1, <2>1, OpeningCarries DEF HandleHello
<1>2. CASE HandleOpenNone
  <2>1. op.pc \in Opening
      BY <1>2, FrameTellsStage DEF HandleOpenNone, Opening
  <2> QED
      BY <1>2, <2>1, OpeningCarries DEF HandleOpenNone
<1>3. CASE HandleOpenSecure
  <2>1. op.pc \in Opening
      BY <1>3, FrameTellsStage DEF HandleOpenSecure, Opening
  <2> QED
      BY <1>3, <2>1, OpeningCarries DEF HandleOpenSecure
<1>4. CASE Unreachable
  <2>1. /\ UNCHANGED <<server, conn, client, op>> /\ wire'.kind = "failed"
      BY <1>4 DEF Unreachable, Failed
  <2>2. ListInv' /\ server'.config \in Servers
      BY <2>1, NoList DEF SelectInv
  <2>3. InUse' => InUse
      BY <2>1 DEF InUse, Up
  <2>4. (LookedAgain /\ conn.open)' => LookedAgain /\ conn.open
      BY <2>1 DEF LookedAgain, Up
  <2> QED
      BY <2>1, <2>2, <2>3, <2>4, ChoiceCarried
<1> QED
    BY <1>1, <1>2, <1>3, <1>4, MessageCarries DEF ServerStep

(***************************************************************************)
(* The client.                                                             *)
(***************************************************************************)
\* The transport is up.
LEMMA AcknowledgeCarries ==
    ASSUME ConnectInv, SelectInv, OnAcknowledge
    PROVE  SelectInv'
<1>1. op.pc = "hello" /\ server' = server
    BY DEF OnAcknowledge
<1>2. CASE \E status : Fail(op, status)
    BY <1>1, <1>2, OpForgets DEF Opening
<1>3. CASE op' = [op EXCEPT !.pc = "open"] /\ client' = client
  <2>1. /\ op'.pc = "open"
        /\ op'.security = op.security /\ op'.params = op.params /\ op'.then = op.then
        /\ op'.offered = op.offered
      BY <1>3 DEF ConnectInv, Shape, Idle
  <2>2. ~Up'
      BY <2>1 DEF Up
  <2>3. InUse /\ ~LookedAgain'
      BY <1>1, <2>1, <2>2 DEF InUse, LookedAgain, Opening
  <2>4. ListInv' /\ server'.config \in Servers
      BY <1>1, <2>1, NoList DEF SelectInv
  <2> QED
      BY <2>1, <2>3, <2>4, ChoiceCarried
<1> QED
    BY <1>2, <1>3 DEF OnAcknowledge

\* The channel is open: the first request asks for every endpoint.
LEMMA OpenedCarries ==
    ASSUME ConnectInv, SelectInv, OnOpened
    PROVE  SelectInv'
<1> DEFINE keys == [secret |-> OpenedBody.server_nonce, seed |-> Nonce(<<"client", operations>>)]
           opened == [op EXCEPT !.pc = op.then, !.keys = keys]
<1>1. op.pc = "open" /\ server' = server
    BY DEF OnOpened
<1>2. CASE \E status : Fail(op, status)
    BY <1>1, <1>2, OpForgets DEF Opening
<1>3. CASE op' = opened /\ wire' = SendRequest(opened, FirstRequest(opened)) /\ client' = client
  <2> HIDE DEF keys
  <2>1. /\ op'.pc = op.then /\ op'.size \in Nat
        /\ op'.security = op.security /\ op'.params = op.params /\ op'.then = op.then
        /\ op'.offered = op.offered
      BY <1>3 DEF ConnectInv, Shape, Idle
  <2>2. op.then \in {"endpoints", "service", "create"} /\ ~Up'
      BY <1>1, <2>1 DEF ConnectInv, PurposeInv, Opening, Up
  <2>3. InUse /\ ~LookedAgain'
      BY <1>1, <2>1, <2>2 DEF InUse, LookedAgain, Opening
  <2>4. ListInv'
    <3> DEFINE request == FirstRequest(op')
               whole == WithLength(op'.size, request)
    <3>1. /\ wire'.kind = "request"
          /\ whole = IF UsesBasic256Sha256(op'.security) THEN wire'.frame.sealed.plaintext.body
                     ELSE wire'.frame.plain.body
        BY <1>3, <2>1, RequestCarries
    <3>2. op'.then = "endpoints" =>
            /\ request.type = "GetEndpoints" /\ request.profile_uris = {}
            /\ {"type", "profile_uris"} \subseteq DOMAIN request
        BY DEF FirstRequest
    <3>3. \A f \in DOMAIN request : f # "len" => whole[f] = request[f]
        BY LengthAdded
    <3> HIDE DEF request, whole
    <3>4. BodyOf(wire.frame)' = whole
        BY <3>1 DEF BodyOf
    <3> QED
        BY <2>1, <3>1, <3>2, <3>3, <3>4 DEF ListInv
  <2> QED
      BY <1>1, <2>1, <2>3, <2>4, ChoiceCarried DEF SelectInv
<1> QED
    BY <1>2, <1>3 DEF OnOpened

\* An endpoint of the list is picked.
LEMMA EndpointsCarry ==
    ASSUME ConnectInv, SelectInv, NEW created \in BOOLEAN, OnEndpoints(created)
    PROVE  SelectInv'
<1> DEFINE body == ReadResponse
           settings == op.params.settings
           chosen == SelectEndpoint(body.endpoints, ToSecurityPreference(settings),
                                    CapabilitiesFor(settings))
           security == BuildChannelSecurity(chosen, settings, files)
           o == [op EXCEPT !.disturbed = op.disturbed \/ ~created]
           u == [o EXCEPT !.offered = body.endpoints, !.expected = chosen.server_certificate]
<1>1. /\ op.pc = "endpoints" /\ server' = server /\ wire.kind \in {"response", "failed"}
      /\ DOMAIN op = DOMAIN Idle /\ ~client.session
    BY DEF OnEndpoints, ConnectInv, Shape, SignalInv
<1>2. CASE \E status : Fail(op, status)
    BY <1>1, <1>2, OpForgets
<1>3. CASE /\ Answered(body, "GetEndpointsResponse")
           /\ chosen # Missing /\ security # Missing
           /\ IF op.kind = "connect" THEN BuildStack(u, security, created)
              ELSE SendDiscoveryRequest(o, security, "service", created)
  <2>1. IsSequence(body.endpoints)
    <3>1. ~Broken(body) /\ body.type = "GetEndpointsResponse"
        BY <1>3 DEF Answered
    <3>2. wire.kind # "failed" /\ body = BodyOf(wire.frame)
        BY <3>1, AnswerIsRead
    <3> QED
        BY <1>1, <3>1, <3>2 DEF SelectInv, ListInv
  <2>2. Picked(body.endpoints, settings, security)
      BY <1>3, <2>1, SecurityIsPicked
  <2> HIDE DEF body, chosen, security
  <2>3. /\ DOMAIN o = DOMAIN Idle
        /\ DOMAIN u = DOMAIN Idle /\ u.params = op.params /\ u.offered = body.endpoints
      BY <1>1 DEF Idle
  <2> HIDE DEF o, u
  <2>4. CASE op.kind = "connect"
      BY <1>1, <1>3, <2>2, <2>3, <2>4, StackCarries
  <2>5. CASE op.kind # "connect"
      BY <1>1, <1>3, <2>3, <2>5, DiscoveryCarries
  <2> QED
      BY <2>4, <2>5
<1> QED
    BY <1>2, <1>3 DEF OnEndpoints

\* The answer to a discovery request ends its operation.
LEMMA ServiceCarries ==
    ASSUME ConnectInv, SelectInv, OnService
    PROVE  SelectInv'
<1>1. op.pc = "service" /\ server' = server
    BY DEF OnService
<1>2. CASE \E status : Fail(op, status)
    BY <1>1, <1>2, OpForgets
<1>3. CASE /\ op.kind = "find" => Done([op EXCEPT !.found = ReadResponse.servers], "Good")
           /\ op.kind # "find" => Done(op, ReadResponse.status)
           /\ client' = client
  <2>1. op'.pc = "idle"
      BY <1>3 DEF Done, ConnectInv, Shape, Idle
  <2>2. client'.is_connected = FALSE
      BY <1>1, <1>3 DEF ConnectInv, Shape, SignalInv
  <2> QED
      BY <1>1, <2>1, <2>2, NothingChosen DEF SelectInv
<1> QED
    BY <1>2, <1>3 DEF OnService

\* The session is created: the list of its answer was looked at again.
LEMMA CreatedCarries ==
    ASSUME ConnectInv, SelectInv, OnCreated
    PROVE  SelectInv'
<1> DEFINE signature == SignClientData(op.security, <<ReadResponse.certificate, ReadResponse.nonce>>)
           request == [type |-> "ActivateSession", user |-> op.params.user,
                       signature |-> signature]
<1>1. op.pc = "create" /\ wire.kind \in {"response", "failed"} /\ server' = server
    BY DEF OnCreated
<1>2. CASE \E status : Fail(op, status)
    BY <1>1, <1>2, OpForgets
<1>3. CASE /\ Answered(ReadResponse, "CreateSessionResponse") /\ ReadResponse.status = "Good"
           /\ EndpointSetsSecurityEquivalent(op.offered, ReadResponse.endpoints)
           /\ Continue([op EXCEPT !.pc = "activate"], request)
  <2>1. op' = [op EXCEPT !.pc = "activate"] /\ UNCHANGED <<conn, client>>
      BY <1>3 DEF Continue
  <2>2. /\ op'.pc = "activate"
        /\ op'.security = op.security /\ op'.params = op.params /\ op'.then = op.then
        /\ op'.offered = op.offered
      BY <2>1 DEF ConnectInv, Shape, Idle
  <2>3. PickInv'
      BY <1>1, <2>2 DEF SelectInv, PickInv, InUse, Chooses
  <2>4. LookInv'
    <3>1. ~Broken(ReadResponse) /\ ReadResponse.type = "CreateSessionResponse"
        BY <1>3 DEF Answered
    <3>2. wire.kind = "response" /\ ReadResponse = BodyOf(wire.frame)
        BY <1>1, <3>1, AnswerIsRead
    <3>3. conn.open => SameSecurity(ReadResponse.endpoints, server.config.endpoints)
        BY <1>1, <1>3, <3>1, <3>2 DEF SelectInv, ListInv
    <3>4. conn.open => EndpointSetsSecurityEquivalent(op.offered, server.config.endpoints)
        BY <1>3, <3>3, ComparedWithoutWording
    <3> QED
        BY <1>1, <2>1, <2>2, <3>4 DEF LookInv
  <2>5. ListInv' /\ server'.config \in Servers
      BY <1>1, <2>2, NoList DEF SelectInv
  <2> QED
      BY <2>3, <2>4, <2>5 DEF SelectInv
<1> QED
    BY <1>2, <1>3 DEF OnCreated

\* A step of a session that stays as it was chosen.
LEMMA SessionCarries ==
    ASSUME SelectInv, UNCHANGED <<server, conn>>, LookedAgain,
           op'.security = op.security, op'.params = op.params, op'.then = op.then,
           op'.offered = op.offered, op'.pc \notin {"endpoints", "create"}
    PROVE  SelectInv'
<1>1. InUse
    BY DEF LookedAgain, InUse
<1>2. ListInv' /\ server'.config \in Servers
    BY NoList DEF SelectInv
<1> QED
    BY <1>1, <1>2, ChoiceCarried

\* From activation to the next call and the request to close.
LEMMA TalkCarries ==
    ASSUME ConnectInv, SelectInv,
           OnActivated \/ OnNamespaces \/ OnCall \/ (\E size \in Sizes : Call(size))
    PROVE  SelectInv'
<1>1. DOMAIN op = DOMAIN Idle
    BY DEF ConnectInv, Shape
<1>2. CASE OnActivated
  <2>1. op.pc = "activate" /\ server' = server
      BY <1>2 DEF OnActivated
  <2>2. CASE \E status : Fail(op, status)
      BY <2>1, <2>2, OpForgets
  <2>3. CASE op' = [op EXCEPT !.pc = "namespaces"] /\ conn' = conn
    <3>1. /\ op'.security = op.security /\ op'.params = op.params /\ op'.then = op.then
          /\ op'.offered = op.offered /\ op'.pc = "namespaces"
        BY <1>1, <2>3 DEF Idle
    <3> QED
        BY <2>1, <2>3, <3>1, SessionCarries DEF LookedAgain
  <2> QED
      BY <1>2, <2>2, <2>3 DEF OnActivated
<1>3. CASE OnNamespaces
  <2>1. /\ op' = [op EXCEPT !.pc = "idle", !.result = "Good"]
        /\ UNCHANGED <<server, conn>> /\ Up
      BY <1>3 DEF OnNamespaces, Done, ConnectInv, SignalInv, Up
  <2>2. /\ op'.security = op.security /\ op'.params = op.params /\ op'.then = op.then
        /\ op'.offered = op.offered /\ op'.pc = "idle"
      BY <1>1, <2>1 DEF Idle
  <2> QED
      BY <2>1, <2>2, SessionCarries DEF LookedAgain
<1>4. CASE OnCall
  <2>1. PICK result : op' = [op EXCEPT !.pc = "idle", !.result = result]
      BY <1>4 DEF OnCall, Done
  <2>2. UNCHANGED <<server, conn>> /\ Up
      BY <1>4 DEF OnCall, ConnectInv, SignalInv, Up
  <2>3. /\ op'.security = op.security /\ op'.params = op.params /\ op'.then = op.then
        /\ op'.offered = op.offered /\ op'.pc = "idle"
      BY <1>1, <2>1 DEF Idle
  <2> QED
      BY <2>2, <2>3, SessionCarries DEF LookedAgain
<1>5. ASSUME NEW size \in Sizes, Call(size)
      PROVE  SelectInv'
  <2>1. /\ op' = [op EXCEPT !.pc = "call", !.kind = "call", !.size = size,
                            !.disturbed = ~conn.open]
        /\ UNCHANGED <<server, conn>> /\ Up
      BY <1>5 DEF Call, Continue, Up
  <2>2. /\ op'.security = op.security /\ op'.params = op.params /\ op'.then = op.then
        /\ op'.offered = op.offered /\ op'.pc = "call"
      BY <1>1, <2>1 DEF Idle
  <2> QED
      BY <2>1, <2>2, SessionCarries DEF LookedAgain
<1> QED
    BY <1>2, <1>3, <1>4, <1>5

\* The end of a session, and a call without one.
LEMMA EndCarries ==
    ASSUME ConnectInv, SelectInv, DisconnectAsync \/ OnClosed \/ CallUnconnected
    PROVE  SelectInv'
<1>1. /\ DOMAIN op = DOMAIN Idle /\ DOMAIN client = DOMAIN NoStack
      /\ client.is_connected \in BOOLEAN /\ server.config \in Servers
    BY DEF ConnectInv, Shape, SelectInv
<1>2. CASE DisconnectAsync
  <2>1. /\ op' = [op EXCEPT !.pc = "close", !.kind = "disconnect"]
        /\ UNCHANGED <<server, conn>> /\ Up
      BY <1>2 DEF DisconnectAsync, Continue, ConnectInv, SignalInv, Up
  <2>2. /\ op'.security = op.security /\ op'.params = op.params /\ op'.then = op.then
        /\ op'.offered = op.offered /\ op'.pc = "close"
      BY <1>1, <2>1 DEF Idle
  <2> QED
      BY <2>1, <2>2, SessionCarries DEF LookedAgain
<1>3. CASE OnClosed
  <2>1. /\ op' = [Idle EXCEPT !.kind = "disconnect", !.result = "Good"]
        /\ client' = [client EXCEPT !.session = FALSE, !.is_connected = FALSE]
        /\ server' = server
      BY <1>3 DEF OnClosed, Reset
  <2>2. op'.pc = "idle" /\ client'.is_connected = FALSE
      BY <1>1, <2>1 DEF Idle, NoStack
  <2> QED
      BY <1>1, <2>1, <2>2, NothingChosen
<1>4. CASE CallUnconnected
  <2>1. /\ op' = [Idle EXCEPT !.kind = "call", !.result = "Bad_NoCommunication",
                              !.disturbed = TRUE]
        /\ UNCHANGED <<server, client>> /\ client.is_connected = FALSE
      BY <1>1, <1>4 DEF CallUnconnected
  <2>2. op'.pc = "idle"
      BY <2>1 DEF Idle
  <2> QED
      BY <1>1, <2>1, <2>2, NothingChosen
<1> QED
    BY <1>2, <1>3, <1>4

\* An operation starts.
LEMMA StartCarries ==
    ASSUME ConnectInv, SelectInv, NEW p \in Parameters, NEW size \in Sizes,
           NEW created \in BOOLEAN,
           \/ ConnectAsync(p, size, created)
           \/ \E kind \in {"find", "register", "register2"} : Discover(kind, p, size, created)
    PROVE  SelectInv'
<1>1. /\ server' = server /\ client.session = FALSE /\ client.is_connected = FALSE
      /\ server'.config \in Servers
    BY DEF ConnectAsync, Discover, Begin, ConnectInv, Shape, SignalInv, SelectInv
<1>2. CASE ConnectAsync(p, size, created)
  <2> DEFINE o == Started("connect", p, size, created)
  <2>1. DOMAIN o = DOMAIN Idle /\ o.params = p
      BY DEF Started, Idle
  <2>2. \/ ReturnSilently(o, "Bad")
        \/ p.settings.mode = "None" /\ BuildStack(o, Unsecured, created)
        \/ SendDiscoveryRequest(o, Unsecured, "endpoints", created)
      BY <1>2 DEF ConnectAsync
  <2> HIDE DEF o
  <2>3. CASE ReturnSilently(o, "Bad")
    <3>1. op' = [o EXCEPT !.pc = "idle", !.result = "Bad"] /\ client' = client
        BY <2>3 DEF ReturnSilently, Done
    <3>2. op'.pc = "idle"
        BY <2>1, <3>1 DEF Idle
    <3> QED
        BY <1>1, <3>1, <3>2, NothingChosen
  <2>4. CASE p.settings.mode = "None" /\ BuildStack(o, Unsecured, created)
      BY <1>1, <2>1, <2>4, StackCarries
  <2>5. CASE SendDiscoveryRequest(o, Unsecured, "endpoints", created)
      BY <1>1, <2>1, <2>5, DiscoveryCarries
  <2> QED
      BY <2>2, <2>3, <2>4, <2>5
<1>3. ASSUME NEW kind \in {"find", "register", "register2"}, Discover(kind, p, size, created)
      PROVE  SelectInv'
  <2> DEFINE o == Started(kind, p, size, created)
             then == IF p.settings.mode = "None" THEN "service" ELSE "endpoints"
  <2>1. DOMAIN o = DOMAIN Idle
      BY DEF Started, Idle
  <2>2. Fail(o, "Bad") \/ SendDiscoveryRequest(o, Unsecured, then, created)
      BY <1>3 DEF Discover
  <2>3. then \in {"endpoints", "service"}
      OBVIOUS
  <2> HIDE DEF o, then
  <2>4. CASE Fail(o, "Bad")
      BY <1>1, <2>1, <2>4, FailForgets
  <2>5. CASE SendDiscoveryRequest(o, Unsecured, then, created)
      BY <1>1, <2>1, <2>3, <2>5, DiscoveryCarries
  <2> QED
      BY <2>2, <2>4, <2>5
<1> QED
    BY <1>2, <1>3

\* Connect over a session: it stays at what it was chosen for, or the stack is
\* replaced at what was picked now.
LEMMA AgainCarries ==
    ASSUME ConnectInv, SelectInv, NEW p, NEW size \in Sizes,
           NEW worked \in BOOLEAN,
           ConnectAgain(p, size, worked) \/ RefusedAgain(p, worked)
    PROVE  SelectInv'
<1> DEFINE o == Started("connect", p, size, worked)
           chosen == ChosenAgain(p)
           security == BuildChannelSecurity(chosen, p.settings, files)
           u == [o EXCEPT !.offered = Offered(p), !.expected = chosen.server_certificate]
<1>1. /\ op.pc = "idle" /\ client.session /\ server' = server
      /\ \/ \E status, refused : ReturnOverSession(status, refused)
         \/ p.settings.mode = "None" /\ BuildStack(o, Unsecured, TRUE)
         \/ chosen # Missing /\ security # Missing /\ BuildStack(u, security, TRUE)
    BY DEF ConnectAgain, RefusedAgain, BeginAgain
<1>2. DOMAIN op = DOMAIN Idle /\ Up
    BY <1>1 DEF ConnectInv, Shape, SignalInv, Up
<1>3. DOMAIN o = DOMAIN Idle /\ o.params = p
    BY DEF Started, Idle
<1>4. CASE \E status, refused : ReturnOverSession(status, refused)
  <2>1. PICK status, told :
            op' = [op EXCEPT !.kind = "again", !.result = status, !.refused = told]
      BY <1>4 DEF ReturnOverSession
  <2>2. /\ op'.security = op.security /\ op'.params = op.params /\ op'.then = op.then
        /\ op'.offered = op.offered /\ op'.pc = "idle"
      BY <1>1, <1>2, <2>1 DEF Idle
  <2>3. UNCHANGED <<server, conn>>
      BY <1>1, <1>4 DEF ReturnOverSession
  <2> QED
      BY <1>2, <2>2, <2>3, SessionCarries DEF LookedAgain
<1>5. CASE p.settings.mode = "None" /\ BuildStack(o, Unsecured, TRUE)
  <2> HIDE DEF o
  <2> QED
      BY <1>1, <1>3, <1>5, StackCarries
<1>6. CASE chosen # Missing /\ security # Missing /\ BuildStack(u, security, TRUE)
  <2>1. IsSequence(Offered(p))
    <3> DEFINE request == [endpoint_url |-> EndpointUrl(p), profile_uris |-> {}]
               body == [type |-> "GetEndpoints", endpoint_url |-> EndpointUrl(p),
                        profile_uris |-> {}]
    <3>1. IsEndpointList(server.config.endpoints)
        BY ConnectAssumption DEF SelectInv
    <3>2. Handle(server, body).body.endpoints = Offered(p)
        BY DEF Handle, ServeGetEndpoints, HandleGetEndpoints, Answer, Offered
    <3>3. IsSequence(Handle(server, body).body.endpoints)
        BY <3>1, ListAnswered
    <3> QED
        BY <3>2, <3>3
  <2>2. Picked(Offered(p), p.settings, security)
      BY <1>6, <2>1, SecurityIsPicked DEF ChosenAgain
  <2> HIDE DEF chosen, security, o
  <2>3. DOMAIN u = DOMAIN Idle /\ u.params = p /\ u.offered = Offered(p)
      BY <1>3 DEF Idle
  <2> HIDE DEF u
  <2> QED
      BY <1>1, <1>6, <2>2, <2>3, StackCarries
<1> QED
    BY <1>1, <1>4, <1>5, <1>6

\* The connection breaks, with or without the server.
LEMMA BreakCarries ==
    ASSUME ConnectInv, SelectInv, LoseConnection \/ (\E s \in Servers : Restart(s))
    PROVE  SelectInv'
<1>1. /\ conn' = Closed /\ wire' = Interrupted /\ op' = Disturbed /\ client' = client
      /\ server'.config \in Servers
    BY DEF LoseConnection, Restart, SelectInv
<1>2. /\ op'.pc = op.pc
      /\ op'.security = op.security /\ op'.params = op.params /\ op'.then = op.then
      /\ op'.offered = op.offered
    BY <1>1 DEF ConnectInv, Shape, Disturbed, Idle
<1>3. conn'.open = FALSE
    BY <1>1 DEF Closed
<1>4. wire'.kind = "failed" \/ (wire' = wire /\ wire.kind # "request")
    BY <1>1 DEF Interrupted, Failed
<1>5. ListInv'
    BY <1>2, <1>3, <1>4 DEF SelectInv, ListInv, BodyOf
<1>6. InUse' => InUse
    BY <1>1, <1>2 DEF InUse, Up
<1> QED
    BY <1>1, <1>2, <1>3, <1>5, <1>6, ChoiceCarried

\* The operator trusts a certificate, or nothing happens.
LEMMA RestCarries ==
    ASSUME ConnectInv, SelectInv,
           (\E c \in files.rejected : TrustRejected(c)) \/ UNCHANGED vars
    PROVE  SelectInv'
<1>1. CASE \E c \in files.rejected : TrustRejected(c)
  <2>1. /\ op' = Idle /\ UNCHANGED <<server, client>> /\ client.is_connected = FALSE
      BY <1>1 DEF TrustRejected, ConnectInv, Shape, SignalInv
  <2>2. op'.pc = "idle" /\ server'.config \in Servers
      BY <2>1 DEF Idle, SelectInv
  <2> QED
      BY <2>1, <2>2, NothingChosen
<1>2. CASE UNCHANGED vars
  <2>1. UNCHANGED <<server, conn, client, op, wire>>
      BY <1>2 DEF vars
  <2>2. PickInv' /\ LookInv'
      BY <2>1 DEF SelectInv, PickInv, LookInv, InUse, LookedAgain, Chooses, Up
  <2>3. ListInv'
      BY <2>1 DEF SelectInv, ListInv, BodyOf
  <2> QED
      BY <2>1, <2>2, <2>3 DEF SelectInv
<1> QED
    BY <1>1, <1>2

(***************************************************************************)
(* The theorem.                                                            *)
(***************************************************************************)
\* Every step keeps what was picked, the lists on the wire and the second look
\* in step with the server.
THEOREM SelectInductive == Spec => []SelectInv
<1>1. Init => SelectInv
  <2> SUFFICES ASSUME Init
               PROVE  SelectInv
      OBVIOUS
  <2>1. op.pc = "idle" /\ client.is_connected = FALSE /\ server.config \in Servers
      BY DEF Init, Idle, NoStack
  <2> QED
      BY <2>1 DEF SelectInv, PickInv, LookInv, ListInv, InUse, LookedAgain, Opening, Up
<1>2. ConnectInv /\ SelectInv /\ [Next]_vars => SelectInv'
  <2> SUFFICES ASSUME ConnectInv, SelectInv, [Next]_vars
               PROVE  SelectInv'
      OBVIOUS
  <2>1. CASE ClientStep
      BY <2>1, AcknowledgeCarries, OpenedCarries, EndpointsCarry, ServiceCarries,
         CreatedCarries, TalkCarries, EndCarries DEF ClientStep
  <2>2. ASSUME NEW p \in Parameters, NEW size \in Sizes, NEW created \in BOOLEAN,
               \/ ConnectAsync(p, size, created)
               \/ ConnectAgain(p, size, created)
               \/ \E kind \in {"find", "register", "register2"} :
                     Discover(kind, p, size, created)
        PROVE  SelectInv'
      BY <2>2, StartCarries, AgainCarries
  <2>3. CASE \/ \E size \in Sizes : Call(size)
             \/ CallUnconnected \/ DisconnectAsync
      BY <2>3, TalkCarries, EndCarries
  <2>4. CASE LoseConnection \/ (\E s \in Servers : Restart(s))
      BY <2>4, BreakCarries
  <2>5. CASE (\E c \in files.rejected : TrustRejected(c)) \/ Resting \/ UNCHANGED vars
      BY <2>5, RestCarries DEF Resting
  <2>6. ASSUME NEW p \in Parameters, NEW reached \in BOOLEAN, RefusedAgain(p, reached)
        PROVE  SelectInv'
    <3>1. PICK size : size \in Sizes
        BY ConnectAssumption DEF ConnectAssumption
    <3> QED
        BY <2>6, <3>1, AgainCarries
  <2> QED
      BY <2>1, <2>2, <2>3, <2>4, <2>5, <2>6, ServerCarries DEF Next
<1> QED
    BY <1>1, <1>2, ConnectInductive, PTL DEF Spec

\* A session runs at the security SelectEndpoint would pick from the list the
\* server has now, however often it restarted since the list was fetched.
THEOREM SelectionHolds == Spec => []SelectionStands
<1>1. ConnectInv /\ SelectInv => SelectionStands
  <2> SUFFICES ASSUME ConnectInv, SelectInv, Up, conn.open, Chooses,
                      server.config.endpoints # <<>>,
                      NEW best,
                      best = SelectEndpoint(server.config.endpoints,
                                            ToSecurityPreference(op.params.settings),
                                            CapabilitiesFor(op.params.settings))
               PROVE  /\ best # Missing
                      /\ best.security_mode = op.security.security_mode
                      /\ best.security_policy_uri = op.security.security_policy_uri
      BY DEF SelectionStands, Established, Chooses, Up
  <2>1. op.then = "create" /\ InUse /\ LookedAgain
      BY DEF ConnectInv, PurposeInv, InUse, LookedAgain
  <2>2. Picked(op.offered, op.params.settings, op.security)
      BY <2>1 DEF SelectInv, PickInv
  <2>3. EndpointSetsSecurityEquivalent(op.offered, server.config.endpoints)
      BY <2>1 DEF SelectInv, LookInv
  <2>4. IsEndpointList(server.config.endpoints)
      BY ConnectAssumption DEF SelectInv
  <2> QED
      BY <2>2, <2>3, <2>4, SameBest
<1> QED
    BY <1>1, ConnectInductive, SelectInductive, PTL

(***************************************************************************)
(* What FindServers returns.                                               *)
(***************************************************************************)
NoServerTwice(found) ==
    \A i, j \in DOMAIN found : found[i].application_uri = found[j].application_uri => i = j

UrlsDialable(urls) ==
    \A u \in DOMAIN urls : urls[u].scheme # "" => ~IsWildcardHost(AuthorityHost(urls[u]))

AllDialable(found) == \A i \in DOMAIN found : UrlsDialable(found[i].discovery_urls)

OwnLeads(found, endpoints, uris, requested) ==
    \A i \in DOMAIN found, e \in DOMAIN endpoints :
        (/\ found[i].application_uri = endpoints[e].application_uri
         /\ MatchesStringFilter(found[i].application_uri, uris)
         /\ \E u \in DOMAIN found[i].discovery_urls :
              found[i].discovery_urls[u].scheme = requested.scheme) =>
            found[i].discovery_urls[1] = requested

\* A rebased URL keeps its scheme and has a host to dial.
LEMMA RebasedIsDialable ==
    ASSUME NEW url, DOMAIN url = {"scheme", "host", "port"}, NEW host, ~IsWildcardHost(host)
    PROVE  LET r == RebaseWildcardHost(url, host)
           IN  r.scheme = url.scheme /\ (r.scheme # "" => ~IsWildcardHost(AuthorityHost(r)))
<1>1. CASE url.scheme = ""
    BY <1>1 DEF RebaseWildcardHost, WithHost
<1>2. CASE url.scheme # ""
  <2>1. CASE ~IsWildcardHost(AuthorityHost(url))
      BY <2>1 DEF RebaseWildcardHost
  <2>2. CASE IsWildcardHost(AuthorityHost(url))
    <3>1. RebaseWildcardHost(url, host) = [url EXCEPT !.host = host]
        BY <1>2, <2>2 DEF RebaseWildcardHost, WithHost
    <3> QED
        BY <1>2, <3>1 DEF AuthorityHost
  <2> QED
      BY <2>1, <2>2
<1> QED
    BY <1>1, <1>2

\* A registrant's URLs: only a wildcard host is replaced.
LEMMA RebasedUrls ==
    ASSUME NEW urls, IsUrlList(urls), NEW host, ~IsWildcardHost(host),
           NEW r, r = [i \in DOMAIN urls |-> RebaseWildcardHost(urls[i], host)]
    PROVE  UrlsDialable(r) /\ IsSequence(r)
<1>1. /\ IsSequence(urls) /\ Len(urls) \in Nat /\ DOMAIN urls = 1 .. Len(urls)
    BY PositionsOf DEF IsUrlList, IsSequence
<1>2. \A i \in DOMAIN r : r[i].scheme # "" => ~IsWildcardHost(AuthorityHost(r[i]))
    BY RebasedIsDialable DEF IsUrlList
<1>3. r = [i \in 1 .. Len(urls) |-> r[i]]
    BY <1>1
<1> QED
    BY <1>1, <1>2, <1>3, MadeSequence DEF UrlsDialable

\* The server's own URLs: the one that was dialled leads.
LEMMA OwnUrls ==
    ASSUME NEW urls, IsUrlList(urls), NEW requested, ~IsWildcardHost(AuthorityHost(requested)),
           NEW r, r = ReachableDiscoveryUrls(urls, requested)
    PROVE  /\ UrlsDialable(r)
           /\ (\E u \in DOMAIN r : r[u].scheme = requested.scheme) => r[1] = requested
<1> DEFINE host == AuthorityHost(requested)
           rebased == [i \in DOMAIN urls |-> RebaseWildcardHost(urls[i], host)]
           P == {i \in DOMAIN rebased : rebased[i] # requested}
           kept == AtPositions(rebased, P)
<1>1. UrlsDialable(rebased) /\ IsSequence(rebased)
    BY RebasedUrls
<1>2. \/ r = rebased /\ \A i \in DOMAIN rebased : rebased[i].scheme # requested.scheme
      \/ r = <<requested>> \o kept
    BY DEF ReachableDiscoveryUrls, UrlScheme
<1> HIDE DEF rebased
<1>3. CASE r = rebased /\ \A i \in DOMAIN rebased : rebased[i].scheme # requested.scheme
    BY <1>1, <1>3
<1>4. CASE r = <<requested>> \o kept
  <2>1. P \subseteq DOMAIN rebased
      OBVIOUS
  <2>2. ArePositions(P)
      BY <1>1, <2>1, PositionsOf DEF ArePositions
  <2> HIDE DEF P
  <2>3. Keeps(kept, rebased, P)
      BY <2>2, KeptElements
  <2>4. IsSequence(kept) /\ \A i \in DOMAIN kept : \E j \in DOMAIN rebased : kept[i] = rebased[j]
      BY <2>1, <2>3 DEF Keeps
  <2> HIDE DEF kept
  <2> DEFINE X == {requested} \cup {kept[i] : i \in DOMAIN kept}
  <2>5. <<requested>> \in Seq(X) /\ kept \in Seq(X)
    <3>1. Len(kept) \in Nat /\ DOMAIN kept = 1 .. Len(kept)
        BY <2>4, PositionsOf
    <3>2. \A i \in DOMAIN kept : kept[i] \in X
        OBVIOUS
    <3>3. kept = [i \in 1 .. Len(kept) |-> kept[i]]
        BY <2>4, <3>1 DEF IsSequence
    <3>4. requested \in X
        OBVIOUS
    <3> HIDE DEF X
    <3>5. kept \in [1 .. Len(kept) -> X]
        BY <3>1, <3>2, <3>3
    <3> QED
        BY <3>1, <3>4, <3>5, SeqDef
  <2> HIDE DEF X
  <2>6. /\ DOMAIN r = 1 .. 1 + Len(kept) /\ Len(kept) \in Nat /\ DOMAIN kept = 1 .. Len(kept)
        /\ r[1] = requested
        /\ \A u \in DOMAIN r : u # 1 => r[u] = kept[u - 1]
      BY <1>4, <2>5
  <2>7. \A u \in DOMAIN r : r[u] = requested \/ \E j \in DOMAIN rebased : r[u] = rebased[j]
    <3> SUFFICES ASSUME NEW u \in DOMAIN r, u # 1
                 PROVE  \E j \in DOMAIN rebased : r[u] = rebased[j]
        BY <2>6
    <3>1. u - 1 \in DOMAIN kept
        BY <2>6
    <3> QED
        BY <2>4, <2>6, <3>1
  <2>8. UrlsDialable(r)
      BY <1>1, <2>7 DEF UrlsDialable
  <2> QED
      BY <2>6, <2>8
<1> QED
    BY <1>2, <1>3, <1>4

\* The servers found: none twice, all dialable, the server itself as dialled.
LEMMA FoundServers ==
    ASSUME NEW endpoints, IsEndpointList(endpoints), NEW registered, IsSequence(registered),
           \A i \in DOMAIN registered : IsUrlList(registered[i].discovery_urls),
           NEW request, ~IsWildcardHost(AuthorityHost(request.endpoint_url)),
           NEW found, found = HandleFindServers(endpoints, registered, request)
    PROVE  /\ NoServerTwice(found) /\ AllDialable(found)
           /\ OwnLeads(found, endpoints, request.server_uris, request.endpoint_url)
<1> DEFINE url == request.endpoint_url
           own == [i \in DOMAIN endpoints |-> OwnDescription(endpoints[i], url)]
           others == [i \in DOMAIN registered |-> RegistrantDescription(registered[i], url)]
           Wanted(s) == \/ MatchesStringFilter(s.application_uri, request.server_uris)
                        \/ MatchesStringFilter(s.product_uri, request.server_uris)
           all == own \o others
           first == {i \in DOMAIN all :
                       /\ Wanted(all[i])
                       /\ \A j \in 1 .. (i - 1) :
                            Wanted(all[j]) => all[j].application_uri # all[i].application_uri}
<1>1. found = AtPositions(all, first)
    BY DEF HandleFindServers
<1>2. IsSequence(own) /\ IsSequence(others)
  <2>1. /\ Len(endpoints) \in Nat /\ DOMAIN endpoints = 1 .. Len(endpoints)
        /\ Len(registered) \in Nat /\ DOMAIN registered = 1 .. Len(registered)
      BY PositionsOf DEF IsEndpointList, IsSequence
  <2>2. own = [i \in 1 .. Len(endpoints) |-> own[i]]
      BY <2>1
  <2>3. others = [i \in 1 .. Len(registered) |-> others[i]]
      BY <2>1
  <2> HIDE DEF own, others
  <2> QED
      BY <2>1, <2>2, <2>3, MadeSequence
<1>3. \A i \in DOMAIN own : i \in DOMAIN endpoints /\ own[i] = OwnDescription(endpoints[i], url)
    OBVIOUS
<1>4. \A i \in DOMAIN others : /\ i \in DOMAIN registered
                               /\ others[i] = RegistrantDescription(registered[i], url)
    OBVIOUS
<1>5. DOMAIN own = DOMAIN endpoints
    OBVIOUS
<1> HIDE DEF own, others
<1>6. /\ Len(own) \in Nat /\ DOMAIN own = 1 .. Len(own)
      /\ Len(others) \in Nat /\ DOMAIN others = 1 .. Len(others)
      /\ DOMAIN all = 1 .. Len(own) + Len(others)
      /\ \A a \in DOMAIN all :
           IF a <= Len(own) THEN all[a] = own[a] ELSE all[a] = others[a - Len(own)]
  <2> DEFINE X == {own[i] : i \in DOMAIN own} \cup {others[i] : i \in DOMAIN others}
  <2>1. /\ Len(own) \in Nat /\ DOMAIN own = 1 .. Len(own)
        /\ Len(others) \in Nat /\ DOMAIN others = 1 .. Len(others)
      BY <1>2, PositionsOf
  <2>2. own \in Seq(X) /\ others \in Seq(X)
    <3>1. (\A i \in DOMAIN own : own[i] \in X) /\ (\A i \in DOMAIN others : others[i] \in X)
        OBVIOUS
    <3>2. own = [i \in 1 .. Len(own) |-> own[i]] /\ others = [i \in 1 .. Len(others) |-> others[i]]
        BY <1>2, <2>1 DEF IsSequence
    <3> HIDE DEF X
    <3>3. own \in [1 .. Len(own) -> X] /\ others \in [1 .. Len(others) -> X]
        BY <2>1, <3>1, <3>2
    <3> QED
        BY <2>1, <3>3, SeqDef
  <2> HIDE DEF X
  <2> QED
      BY <2>1, <2>2
<1> HIDE DEF all
<1>7. /\ \A a \in first : a \in DOMAIN all
      /\ \A a, b \in first : b < a => all[b].application_uri # all[a].application_uri
  <2>1. \A a \in first : a \in DOMAIN all /\ Wanted(all[a])
      OBVIOUS
  <2>2. \A a \in first : \A j \in 1 .. (a - 1) :
          Wanted(all[j]) => all[j].application_uri # all[a].application_uri
      OBVIOUS
  <2>3. \A a, b \in first : b < a => b \in 1 .. (a - 1)
      BY <1>6, <2>1
  <2> HIDE DEF first, Wanted
  <2> QED
      BY <2>1, <2>2, <2>3
<1>8. \A a \in first : \A e \in DOMAIN all :
        (e < a /\ MatchesStringFilter(all[e].application_uri, request.server_uris)) =>
            all[e].application_uri # all[a].application_uri
    BY <1>6
<1> HIDE DEF first
<1>9. Keeps(found, all, first)
  <2>1. ArePositions(first)
    <3>1. Len(own) + Len(others) \in Nat /\ first \subseteq 1 .. Len(own) + Len(others)
        BY <1>6, <1>7
    <3> QED
        BY <3>1 DEF ArePositions
  <2> QED
      BY <1>1, <2>1, KeptElements
<1>10. \A i \in DOMAIN found : \E a \in first : found[i] = all[a] /\ RankIn(first, a) = i
    BY <1>9 DEF Keeps
<1>11. NoServerTwice(found)
  <2> SUFFICES ASSUME NEW i \in DOMAIN found, NEW j \in DOMAIN found,
                      found[i].application_uri = found[j].application_uri
               PROVE  i = j
      BY DEF NoServerTwice
  <2>1. PICK a \in first : found[i] = all[a] /\ RankIn(first, a) = i
      BY <1>10
  <2>2. PICK b \in first : found[j] = all[b] /\ RankIn(first, b) = j
      BY <1>10
  <2>3. a \in Int /\ b \in Int
      BY <1>6, <1>7
  <2>4. ~(a < b) /\ ~(b < a)
      BY <1>7, <2>1, <2>2
  <2> QED
      BY <2>1, <2>2, <2>3, <2>4
<1>12. ASSUME NEW i \in DOMAIN found
       PROVE  /\ UrlsDialable(found[i].discovery_urls)
              /\ \A e \in DOMAIN endpoints :
                   (/\ found[i].application_uri = endpoints[e].application_uri
                    /\ MatchesStringFilter(found[i].application_uri, request.server_uris)
                    /\ \E u \in DOMAIN found[i].discovery_urls :
                         found[i].discovery_urls[u].scheme = url.scheme) =>
                     found[i].discovery_urls[1] = url
  <2>1. PICK a \in first : found[i] = all[a]
      BY <1>10
  <2>2. a \in DOMAIN all
      BY <1>7
  <2>3. CASE a <= Len(own)
    <3>1. a \in DOMAIN own /\ found[i] = own[a]
        BY <1>6, <2>1, <2>2, <2>3
    <3>2. a \in DOMAIN endpoints /\ found[i] = OwnDescription(endpoints[a], url)
        BY <1>3, <3>1
    <3>3. IsUrlList(endpoints[a].discovery_urls)
        BY <3>2 DEF IsEndpointList
    <3>4. found[i].discovery_urls = ReachableDiscoveryUrls(endpoints[a].discovery_urls, url)
        BY <3>2 DEF OwnDescription
    <3> HIDE DEF url
    <3> QED
        BY <3>3, <3>4, OwnUrls DEF url
  <2>4. CASE ~(a <= Len(own))
    <3>1. a - Len(own) \in DOMAIN others /\ found[i] = others[a - Len(own)]
        BY <1>6, <2>1, <2>2, <2>4
    <3>2. PICK k \in DOMAIN registered : found[i] = RegistrantDescription(registered[k], url)
        BY <1>4, <3>1
    <3>3. UrlsDialable(found[i].discovery_urls)
      <4>1. IsUrlList(registered[k].discovery_urls)
          OBVIOUS
      <4>2. found[i].discovery_urls = [x \in DOMAIN registered[k].discovery_urls |->
              RebaseWildcardHost(registered[k].discovery_urls[x], AuthorityHost(url))]
          BY <3>2 DEF RegistrantDescription
      <4> QED
          BY <4>1, <4>2, RebasedUrls
    <3>4. ASSUME NEW e \in DOMAIN endpoints,
                 found[i].application_uri = endpoints[e].application_uri,
                 MatchesStringFilter(found[i].application_uri, request.server_uris)
          PROVE  FALSE
      <4>1. e \in DOMAIN own /\ own[e] = OwnDescription(endpoints[e], url)
          BY <1>3, <1>5
      <4>2. e \in DOMAIN all /\ e < a /\ all[e] = own[e]
          BY <1>6, <2>2, <2>4, <4>1
      <4>3. all[e].application_uri = found[i].application_uri
          BY <3>4, <4>1, <4>2 DEF OwnDescription
      <4> QED
          BY <1>8, <2>1, <3>4, <4>2, <4>3
    <3> QED
        BY <3>3, <3>4
  <2> QED
      BY <2>3, <2>4
<1> QED
    BY <1>11, <1>12 DEF AllDialable, OwnLeads

\* What the client was told, by the server its endpoints are.
Told(found, o, endpoints) ==
    ~IsWildcardHost(AuthorityHost(EndpointUrl(o.params))) =>
        /\ NoServerTwice(found) /\ AllDialable(found)
        /\ ~o.disturbed => OwnLeads(found, endpoints, o.params.server_uris,
                                    EndpointUrl(o.params))

RegistrantsListed(registered) ==
    \A i \in DOMAIN registered : IsUrlList(registered[i].discovery_urls)

\* Stages on the way to a discovery request, and those of a session.
Before == Opening \cup {"endpoints", "service"}
After == {"create", "activate", "namespaces", "call", "close"}

DialledInv ==
    /\ op.pc \in Before =>
         op.params \in Parameters /\ EndpointUrl(op.params).scheme = "opc.tcp"
    /\ op.pc \in After => op.kind # "find"

AskInv ==
    (op.pc = "service" /\ wire.kind = "request") =>
        LET body == BodyOf(wire.frame)
        IN  /\ body.type \in {"RegisterServer", "RegisterServer2"} => IsUrlList(body.discovery_urls)
            /\ op.kind = "find" => /\ body.type = "FindServers"
                                   /\ body.endpoint_url = EndpointUrl(op.params)
                                   /\ body.server_uris = op.params.server_uris

ToldInv ==
    /\ (op.pc = "service" /\ op.kind = "find" /\ wire.kind = "response") =>
         Told(BodyOf(wire.frame).servers, op, server.config.endpoints)
    /\ (op.pc = "idle" /\ op.kind = "find" /\ op.result = "Good") =>
         /\ EndpointUrl(op.params).scheme = "opc.tcp"
         /\ Told(op.found, op, server.config.endpoints)

FindInv ==
    /\ server.config \in Servers /\ RegistrantsListed(server.registered)
    /\ DialledInv /\ AskInv /\ ToldInv

\* No answer of FindServers is on its way or has just arrived.
LEMMA NothingTold ==
    ASSUME FindInv, server' = server, op'.pc # "service",
           ~(op'.pc = "idle" /\ op'.kind = "find" /\ op'.result = "Good"),
           op'.pc \in Before =>
               op'.params \in Parameters /\ EndpointUrl(op'.params).scheme = "opc.tcp",
           op'.pc \in After => op'.kind # "find"
    PROVE  FindInv'
<1>1. DialledInv'
    BY DEF DialledInv
<1>2. AskInv' /\ ToldInv'
    BY DEF AskInv, ToldInv
<1> QED
    BY <1>1, <1>2 DEF FindInv

\* A failure tells nothing.
LEMMA FailTells ==
    ASSUME FindInv, NEW o, NEW status, Fail(o, status), status # "Good",
           DOMAIN o = DOMAIN Idle, server' = server
    PROVE  FindInv'
<1>1. op' = [o EXCEPT !.pc = "idle", !.result = status]
    BY DEF Fail, Done
<1>2. op'.pc = "idle" /\ op'.result = status
    BY <1>1 DEF Idle
<1> QED
    BY <1>2, NothingTold DEF Before, After, Opening

\* A new connection keeps what was asked for.
LEMMA DialTells ==
    ASSUME FindInv, NEW o, NEW security, NEW then, Dial(security, then, o),
           DOMAIN o = DOMAIN Idle, server' = server,
           o.params \in Parameters, EndpointUrl(o.params).scheme = "opc.tcp"
    PROVE  FindInv'
<1>1. op' = [o EXCEPT !.pc = "hello", !.then = then, !.security = security, !.keys = NoKeys]
    BY DEF Dial
<1>2. op'.pc = "hello" /\ op'.params = o.params
    BY <1>1 DEF Idle
<1> QED
    BY <1>2, NothingTold DEF After

\* The server or the network gives up on a connection.
LEMMA SilenceTells ==
    ASSUME FindInv, server' = server, op' = op, wire'.kind \in {"failed", "silent"}
    PROVE  FindInv'
<1>1. DialledInv'
    BY DEF FindInv, DialledInv
<1>2. AskInv' /\ ToldInv'
    BY DEF FindInv, AskInv, ToldInv, Told
<1> QED
    BY <1>1, <1>2 DEF FindInv

\* Before the request of the operation goes out.
LEMMA StageTells ==
    ASSUME FindInv, server' = server, op'.pc \in Opening, op.pc \in Before,
           op'.params = op.params
    PROVE  FindInv'
<1>1. op.params \in Parameters /\ EndpointUrl(op.params).scheme = "opc.tcp"
    BY DEF FindInv, DialledInv
<1> QED
    BY <1>1, NothingTold DEF Opening, After

\* The answer of the server to FindServers.
LEMMA FindAnswered ==
    ASSUME NEW s, IsEndpointList(s.config.endpoints), IsSequence(s.registered),
           RegistrantsListed(s.registered),
           NEW body, body.type = "FindServers",
           ~IsWildcardHost(AuthorityHost(body.endpoint_url)),
           NEW a, a = Handle(s, body)
    PROVE  /\ "servers" \in DOMAIN a.body
           /\ NoServerTwice(a.body.servers) /\ AllDialable(a.body.servers)
           /\ OwnLeads(a.body.servers, s.config.endpoints, body.server_uris, body.endpoint_url)
<1> DEFINE found == HandleFindServers(s.config.endpoints, s.registered, body)
<1>1. a.body = [type |-> "FindServersResponse", servers |-> found]
    BY DEF Handle, ServeFindServers, Answer
<1>2. /\ NoServerTwice(found) /\ AllDialable(found)
      /\ OwnLeads(found, s.config.endpoints, body.server_uris, body.endpoint_url)
    BY FoundServers DEF RegistrantsListed
<1> HIDE DEF found
<1> QED
    BY <1>1, <1>2

\* A registration adds URLs that were asked for.
LEMMA ListedAdded ==
    ASSUME NEW registered, IsSequence(registered), RegistrantsListed(registered),
           NEW e, IsUrlList(e.discovery_urls), NEW after, after = Append(registered, e)
    PROVE  RegistrantsListed(after)
<1> DEFINE X == {registered[i] : i \in DOMAIN registered} \cup {e}
<1>1. registered \in Seq(X) /\ e \in X
  <2>1. Len(registered) \in Nat /\ DOMAIN registered = 1 .. Len(registered)
      BY PositionsOf
  <2>2. registered = [i \in 1 .. Len(registered) |-> registered[i]]
      BY <2>1 DEF IsSequence
  <2>3. (\A i \in DOMAIN registered : registered[i] \in X) /\ e \in X
      OBVIOUS
  <2> HIDE DEF X
  <2>4. registered \in [1 .. Len(registered) -> X]
      BY <2>1, <2>2, <2>3
  <2> QED
      BY <2>1, <2>3, <2>4, SeqDef
<1> HIDE DEF X
<1>2. \A i \in DOMAIN after : after[i] = e \/ (i \in DOMAIN registered /\ after[i] = registered[i])
    BY <1>1
<1> QED
    BY <1>2 DEF RegistrantsListed

\* A service request is answered.
LEMMA MessageTells ==
    ASSUME ConnectInv, FindInv, HandleSecureMessage
    PROVE  FindInv'
<1>1. /\ op.pc \in Talking /\ op' = op
      /\ Arrives("SecureMessage") /\ conn.open /\ wire.kind = "request"
    BY FrameTellsStage DEF HandleSecureMessage, Arrives
<1>2. /\ DOMAIN server = {"config", "registered", "session"}
      /\ server.config \in Servers /\ IsEndpointList(server.config.endpoints)
      /\ IsSequence(server.registered) /\ RegistrantsListed(server.registered)
    BY ConnectAssumption DEF ConnectInv, Shape, FindInv
<1> DEFINE chunk == ServerDecode(wire.frame)
           answer == Handle(server, chunk.body)
           reply == WithLength(chunk.body.len + 3, answer.body)
<1>3. CASE ~conn.opened \/ Broken(chunk)
  <2>1. wire' = Failed /\ server' = server
      BY <1>3 DEF HandleSecureMessage, Drop
  <2> QED
      BY <1>1, <2>1, SilenceTells DEF Failed
<1>4. CASE ~(~conn.opened \/ Broken(chunk))
  <2>1. /\ server' = answer.server
        /\ wire' = Response(BuildServiceResponse(chunk.request_id, reply))
      BY <1>4 DEF HandleSecureMessage
  <2>2. chunk.body = BodyOf(wire.frame) /\ Asked(chunk.body)
    <3>1. chunk.body = BodyOf(wire.frame)
        BY <1>1, <1>4, ServerReadsRequest
    <3>2. Asked(BodyOf(wire.frame))
        BY <1>1 DEF ConnectInv, WireInv
    <3> QED
        BY <3>1, <3>2
  <2>3. /\ chunk.body.type \in RequestTypes /\ chunk.body.len \in Nat
        /\ chunk.body.type \in {"RegisterServer", "RegisterServer2"} =>
             IsUrlList(chunk.body.discovery_urls)
        /\ op.pc = "service" /\ op.kind = "find" =>
             /\ chunk.body.type = "FindServers"
             /\ chunk.body.endpoint_url = EndpointUrl(op.params)
             /\ chunk.body.server_uris = op.params.server_uris
      BY <1>1, <2>2 DEF FindInv, AskInv, Asked
  <2> HIDE DEF chunk
  <2>4. /\ answer.server.config = server.config
        /\ \/ answer.server.registered = server.registered
           \/ /\ chunk.body.type \in {"RegisterServer", "RegisterServer2"}
              /\ \E e : /\ answer.server.registered = Append(server.registered, e)
                        /\ e.discovery_urls = chunk.body.discovery_urls
      BY <1>2, <2>3, HandleGives
  <2>5. RegistrantsListed(server'.registered) /\ server'.config = server.config
    <3>1. RegistrantsListed(answer.server.registered)
      <4> HIDE DEF answer
      <4> QED
          BY <1>2, <2>3, <2>4, ListedAdded
    <3> QED
        BY <2>1, <2>4, <3>1
  <2>6. (op.pc = "service" /\ op.kind = "find") => Told(BodyOf(wire'.frame).servers, op, server.config.endpoints)
    <3> SUFFICES ASSUME op.pc = "service", op.kind = "find",
                        ~IsWildcardHost(AuthorityHost(EndpointUrl(op.params)))
                 PROVE  LET found == BodyOf(wire'.frame).servers
                        IN  /\ NoServerTwice(found) /\ AllDialable(found)
                            /\ OwnLeads(found, server.config.endpoints, op.params.server_uris,
                                        EndpointUrl(op.params))
        BY DEF Told
    <3>1. /\ "servers" \in DOMAIN answer.body
          /\ NoServerTwice(answer.body.servers) /\ AllDialable(answer.body.servers)
          /\ OwnLeads(answer.body.servers, server.config.endpoints, op.params.server_uris,
                      EndpointUrl(op.params))
        BY <1>2, <2>3, FindAnswered
    <3> HIDE DEF answer
    <3>2. reply.len \in Nat /\ reply.servers = answer.body.servers
        BY <2>3, <3>1, LengthAdded
    <3> HIDE DEF reply
    <3>3. Matched
        BY <1>1 DEF ConnectInv, ChannelInv
    <3>4. BodyOf(wire.frame)' = reply
        BY <1>1, <2>1, <3>2, <3>3, ResponseCarries
    <3>5. BodyOf(wire'.frame) = reply
        BY <1>1, <3>4 DEF BodyOf
    <3> QED
        BY <3>1, <3>2, <3>5
  <2>7. wire'.kind = "response" /\ op.pc # "idle"
      BY <1>1, <2>1 DEF Response, Talking
  <2>8. DialledInv' /\ AskInv'
      BY <1>1, <2>7 DEF FindInv, DialledInv, AskInv
  <2>9. ToldInv'
    <3>1. BodyOf(wire.frame)' = BodyOf(wire'.frame)
        BY <1>1 DEF BodyOf
    <3> QED
        BY <1>1, <2>5, <2>6, <2>7, <3>1 DEF ToldInv, Told
  <2> QED
      BY <1>2, <2>5, <2>8, <2>9 DEF FindInv
<1> QED
    BY <1>3, <1>4

\* Every step of the server.
LEMMA ServerTells ==
    ASSUME ConnectInv, FindInv, ServerStep
    PROVE  FindInv'
<1>1. CASE HandleHello
    BY <1>1, FrameTellsStage, StageTells DEF HandleHello, Opening, Before
<1>2. CASE HandleOpenNone
    BY <1>2, FrameTellsStage, StageTells DEF HandleOpenNone, Opening, Before
<1>3. CASE HandleOpenSecure
    BY <1>3, FrameTellsStage, StageTells DEF HandleOpenSecure, Opening, Before
<1>4. CASE Unreachable
    BY <1>4, SilenceTells DEF Unreachable, Failed
<1> QED
    BY <1>1, <1>2, <1>3, <1>4, MessageTells DEF ServerStep

\* The transport is up.
LEMMA AcknowledgeTells ==
    ASSUME ConnectInv, FindInv, OnAcknowledge
    PROVE  FindInv'
<1>1. op.pc = "hello" /\ server' = server /\ DOMAIN op = DOMAIN Idle
    BY DEF OnAcknowledge, ConnectInv, Shape
<1>2. CASE \E status : status # "Good" /\ Fail(op, status)
    BY <1>1, <1>2, FailTells
<1>3. CASE op' = [op EXCEPT !.pc = "open"]
  <2>1. op'.pc = "open" /\ op'.params = op.params
      BY <1>1, <1>3 DEF Idle
  <2> QED
      BY <1>1, <2>1, StageTells DEF Opening, Before
<1> QED
    BY <1>2, <1>3 DEF OnAcknowledge

\* The request goes out with what it was started with.
LEMMA OpenedTells ==
    ASSUME ConnectInv, FindInv, OnOpened
    PROVE  FindInv'
<1> DEFINE keys == [secret |-> OpenedBody.server_nonce, seed |-> Nonce(<<"client", operations>>)]
           opened == [op EXCEPT !.pc = op.then, !.keys = keys]
<1>1. op.pc = "open" /\ server' = server /\ DOMAIN op = DOMAIN Idle
    BY DEF OnOpened, ConnectInv, Shape
<1>2. CASE \E status : status # "Good" /\ Fail(op, status)
    BY <1>1, <1>2, FailTells
<1>3. CASE op' = opened /\ wire' = SendRequest(opened, FirstRequest(opened))
  <2> HIDE DEF keys
  <2>1. /\ op'.pc = op.then /\ op'.size \in Nat /\ op'.params = op.params
        /\ op'.then = op.then /\ op'.kind = op.kind
      BY <1>1, <1>3 DEF ConnectInv, Shape, Idle
  <2>2. /\ op.then \in {"endpoints", "service", "create"}
        /\ op.then = "service" => op.kind \in {"find", "register", "register2"}
        /\ op.then = "create" => op.kind = "connect"
      BY <1>1 DEF ConnectInv, PurposeInv, Opening
  <2>3. op.params \in Parameters /\ EndpointUrl(op.params).scheme = "opc.tcp"
      BY <1>1 DEF FindInv, DialledInv, Before, Opening
  <2>4. DialledInv'
      BY <2>1, <2>2, <2>3 DEF DialledInv, After
  <2> DEFINE request == FirstRequest(op')
             whole == WithLength(op'.size, request)
  <2>5. /\ wire'.kind = "request"
        /\ whole = IF UsesBasic256Sha256(op'.security) THEN wire'.frame.sealed.plaintext.body
                   ELSE wire'.frame.plain.body
    <3> HIDE DEF request
    <3>1. wire' = SendRequest(op', request)
        BY <1>3 DEF request
    <3> QED
        BY <2>1, <3>1, RequestCarries
  <2>6. AskInv'
    <3> SUFFICES ASSUME op.then = "service"
                 PROVE  AskInv'
        BY <2>1 DEF AskInv
    <3>2. \A f \in DOMAIN request : f # "len" => whole[f] = request[f]
        BY LengthAdded
    <3>3. BodyOf(wire.frame)' = whole
        BY <2>5 DEF BodyOf
    <3>4. CASE op.kind = "find"
      <4>1. request = [type |-> "FindServers", endpoint_url |-> EndpointUrl(op.params),
                       server_uris |-> op.params.server_uris]
          BY <2>1, <3>4 DEF FirstRequest
      <4> HIDE DEF request, whole
      <4>2. /\ whole.type = "FindServers" /\ whole.endpoint_url = EndpointUrl(op.params)
            /\ whole.server_uris = op.params.server_uris
          BY <3>2, <4>1
      <4> QED
          BY <2>1, <3>3, <4>2 DEF AskInv
    <3>5. CASE op.kind \in {"register", "register2"}
      <4>1. /\ {"type", "discovery_urls"} \subseteq DOMAIN request
            /\ request.discovery_urls = op.params.discovery_urls
        <5>1. CASE op.kind = "register"
            BY <2>1, <5>1 DEF FirstRequest
        <5>2. CASE op.kind = "register2"
            BY <2>1, <5>2 DEF FirstRequest
        <5> QED
            BY <3>5, <5>1, <5>2
      <4> HIDE DEF request, whole
      <4>2. IsUrlList(whole.discovery_urls)
          BY <2>3, <3>2, <4>1, ConnectAssumption
      <4> QED
          BY <2>1, <3>3, <3>5, <4>2 DEF AskInv
    <3> QED
        BY <2>2, <3>4, <3>5
  <2>7. ToldInv'
      BY <2>1, <2>2, <2>5 DEF ToldInv
  <2> QED
      BY <1>1, <2>4, <2>6, <2>7 DEF FindInv
<1> QED
    BY <1>2, <1>3 DEF OnOpened

\* The next connection of the same operation.
LEMMA EndpointsTell ==
    ASSUME ConnectInv, FindInv, NEW created \in BOOLEAN, OnEndpoints(created)
    PROVE  FindInv'
<1> DEFINE body == ReadResponse
           settings == op.params.settings
           chosen == SelectEndpoint(body.endpoints, ToSecurityPreference(settings),
                                    CapabilitiesFor(settings))
           security == BuildChannelSecurity(chosen, settings, files)
           o == [op EXCEPT !.disturbed = op.disturbed \/ ~created]
           u == [o EXCEPT !.offered = body.endpoints, !.expected = chosen.server_certificate]
<1>1. /\ op.pc = "endpoints" /\ server' = server /\ DOMAIN op = DOMAIN Idle
      /\ op.params \in Parameters /\ EndpointUrl(op.params).scheme = "opc.tcp"
    BY DEF OnEndpoints, ConnectInv, Shape, FindInv, DialledInv, Before
<1>2. CASE \E status : status # "Good" /\ Fail(op, status)
    BY <1>1, <1>2, FailTells
<1>3. CASE IF op.kind = "connect" THEN BuildStack(u, security, created)
           ELSE SendDiscoveryRequest(o, security, "service", created)
  <2> HIDE DEF body, chosen, security
  <2>1. /\ DOMAIN o = DOMAIN Idle /\ o.params = op.params
        /\ DOMAIN u = DOMAIN Idle /\ u.params = op.params
      BY <1>1 DEF Idle
  <2> HIDE DEF o, u
  <2>2. \/ Dial(security, "create", u) \/ Dial(security, "service", o)
        \/ ReturnSilently(u, "Bad_NoCommunication") \/ Fail(o, "Bad_NoCommunication")
      BY <1>3 DEF BuildStack, SendDiscoveryRequest
  <2>3. CASE ReturnSilently(u, "Bad_NoCommunication")
    <3>1. op' = [u EXCEPT !.pc = "idle", !.result = "Bad_NoCommunication"]
        BY <2>3 DEF ReturnSilently, Done
    <3>2. op'.pc = "idle" /\ op'.result = "Bad_NoCommunication"
        BY <2>1, <3>1 DEF Idle
    <3> QED
        BY <1>1, <3>2, NothingTold DEF Before, After, Opening
  <2>4. CASE Fail(o, "Bad_NoCommunication")
      BY <1>1, <2>1, <2>4, FailTells
  <2>5. CASE Dial(security, "create", u)
      BY <1>1, <2>1, <2>5, DialTells
  <2>6. CASE Dial(security, "service", o)
      BY <1>1, <2>1, <2>6, DialTells
  <2> QED
      BY <2>2, <2>3, <2>4, <2>5, <2>6
<1> QED
    BY <1>2, <1>3 DEF OnEndpoints

\* The answer to the discovery request arrives.
LEMMA ServiceTells ==
    ASSUME ConnectInv, FindInv, OnService
    PROVE  FindInv'
<1>1. /\ op.pc = "service" /\ server' = server /\ DOMAIN op = DOMAIN Idle
      /\ wire.kind \in {"response", "failed"}
      /\ EndpointUrl(op.params).scheme = "opc.tcp"
    BY DEF OnService, ConnectInv, Shape, FindInv, DialledInv, Before
<1>2. CASE \E status : status # "Good" /\ Fail(op, status)
    BY <1>1, <1>2, FailTells
<1>3. CASE /\ ~Broken(ReadResponse)
           /\ op.kind = "find" => Done([op EXCEPT !.found = ReadResponse.servers], "Good")
           /\ op.kind # "find" => Done(op, ReadResponse.status)
  <2>1. CASE op.kind # "find"
    <3>1. op' = [op EXCEPT !.pc = "idle", !.result = ReadResponse.status]
        BY <1>3, <2>1 DEF Done
    <3>2. op'.pc = "idle" /\ op'.kind = op.kind
        BY <1>1, <3>1 DEF Idle
    <3> QED
        BY <1>1, <2>1, <3>2, NothingTold DEF Before, After, Opening
  <2>2. CASE op.kind = "find"
    <3>1. wire.kind = "response" /\ ReadResponse = BodyOf(wire.frame)
        BY <1>1, <1>3, AnswerIsRead
    <3>2. Told(ReadResponse.servers, op, server.config.endpoints)
        BY <1>1, <2>2, <3>1 DEF FindInv, ToldInv
    <3>3. op' = [[op EXCEPT !.found = ReadResponse.servers] EXCEPT !.pc = "idle", !.result = "Good"]
        BY <1>3, <2>2 DEF Done
    <3>4. /\ op'.pc = "idle" /\ op'.found = ReadResponse.servers /\ op'.params = op.params
          /\ op'.disturbed = op.disturbed
        BY <1>1, <3>3 DEF Idle
    <3>5. Told(op'.found, op', server'.config.endpoints)
        BY <1>1, <3>2, <3>4 DEF Told
    <3>6. ToldInv'
        BY <1>1, <3>4, <3>5 DEF ToldInv
    <3>7. DialledInv' /\ AskInv'
        BY <3>4 DEF DialledInv, AskInv, Before, After, Opening
    <3> QED
        BY <1>1, <3>6, <3>7 DEF FindInv
  <2> QED
      BY <2>1, <2>2
<1> QED
    BY <1>2, <1>3 DEF OnService

\* Steps of a session.
LEMMA SessionTells ==
    ASSUME ConnectInv, FindInv,
           \/ OnCreated \/ OnActivated \/ OnNamespaces \/ OnCall \/ OnClosed
           \/ (\E size \in Sizes : Call(size)) \/ CallUnconnected \/ DisconnectAsync
    PROVE  FindInv'
<1>1. DOMAIN op = DOMAIN Idle
    BY DEF ConnectInv, Shape
<1>2. op.pc \in After => op.kind # "find"
    BY DEF FindInv, DialledInv
<1>3. CASE OnCreated
  <2>1. op.pc = "create" /\ server' = server
      BY <1>3 DEF OnCreated
  <2>2. CASE \E status : status # "Good" /\ Fail(op, status)
      BY <1>1, <2>1, <2>2, FailTells
  <2>3. CASE op' = [op EXCEPT !.pc = "activate"]
    <3>1. op'.pc = "activate" /\ op'.kind = op.kind
        BY <1>1, <2>3 DEF Idle
    <3> QED
        BY <1>2, <2>1, <3>1, NothingTold DEF Before, After, Opening
  <2> QED
      BY <1>3, <2>2, <2>3 DEF OnCreated, Continue
<1>4. CASE OnActivated
  <2>1. op.pc = "activate" /\ server' = server
      BY <1>4 DEF OnActivated
  <2>2. CASE \E status : status # "Good" /\ Fail(op, status)
      BY <1>1, <2>1, <2>2, FailTells
  <2>3. CASE op' = [op EXCEPT !.pc = "namespaces"]
    <3>1. op'.pc = "namespaces" /\ op'.kind = op.kind
        BY <1>1, <2>3 DEF Idle
    <3> QED
        BY <1>2, <2>1, <3>1, NothingTold DEF Before, After, Opening
  <2> QED
      BY <1>4, <2>2, <2>3 DEF OnActivated
<1>5. CASE OnNamespaces \/ OnCall
  <2>1. op.pc \in {"namespaces", "call"} /\ server' = server
      BY <1>5 DEF OnNamespaces, OnCall
  <2>2. PICK result : op' = [op EXCEPT !.pc = "idle", !.result = result]
      BY <1>5 DEF OnNamespaces, OnCall, Done
  <2>3. op'.pc = "idle" /\ op'.kind = op.kind
      BY <1>1, <2>2 DEF Idle
  <2> QED
      BY <1>2, <2>1, <2>3, NothingTold DEF Before, After, Opening
<1>6. ASSUME NEW size \in Sizes, Call(size)
      PROVE  FindInv'
  <2>1. /\ op' = [op EXCEPT !.pc = "call", !.kind = "call", !.size = size,
                            !.disturbed = ~conn.open]
        /\ server' = server
      BY <1>6 DEF Call, Continue
  <2>2. op'.pc = "call" /\ op'.kind = "call"
      BY <1>1, <2>1 DEF Idle
  <2> QED
      BY <2>1, <2>2, NothingTold DEF Before, Opening
<1>7. CASE DisconnectAsync
  <2>1. op' = [op EXCEPT !.pc = "close", !.kind = "disconnect"] /\ server' = server
      BY <1>7 DEF DisconnectAsync, Continue
  <2>2. op'.pc = "close" /\ op'.kind = "disconnect"
      BY <1>1, <2>1 DEF Idle
  <2> QED
      BY <2>1, <2>2, NothingTold DEF Before, Opening
<1>8. CASE OnClosed \/ CallUnconnected
  <2>1. \/ op' = [Idle EXCEPT !.kind = "disconnect", !.result = "Good"]
        \/ op' = [Idle EXCEPT !.kind = "call", !.result = "Bad_NoCommunication",
                              !.disturbed = TRUE]
      BY <1>8 DEF OnClosed, CallUnconnected
  <2>2. op'.pc = "idle" /\ op'.kind # "find" /\ server' = server
      BY <1>8, <2>1 DEF Idle, OnClosed, CallUnconnected
  <2> QED
      BY <2>2, NothingTold DEF Before, After, Opening
<1> QED
    BY <1>3, <1>4, <1>5, <1>6, <1>7, <1>8

\* An operation starts with its own parameters.
LEMMA StartTells ==
    ASSUME ConnectInv, FindInv, NEW p \in Parameters, NEW size \in Sizes,
           NEW created \in BOOLEAN,
           \/ ConnectAsync(p, size, created)
           \/ \E kind \in {"find", "register", "register2"} : Discover(kind, p, size, created)
    PROVE  FindInv'
<1>1. server' = server
    BY DEF ConnectAsync, Discover, Begin
<1>2. PICK kind, o : /\ o = Started(kind, p, size, created)
                     /\ \/ ReturnSilently(o, "Bad") \/ Fail(o, "Bad")
                        \/ /\ ParseOpcTcpUrl(EndpointUrl(p))
                           /\ \/ BuildStack(o, Unsecured, created)
                              \/ \E then : SendDiscoveryRequest(o, Unsecured, then, created)
    BY DEF ConnectAsync, Discover
<1>3. DOMAIN o = DOMAIN Idle /\ o.params = p
    BY <1>2 DEF Started, Idle
<1>4. CASE \E status : status # "Good" /\ Fail(o, status)
    BY <1>1, <1>3, <1>4, FailTells
<1>5. CASE \E status : status # "Good" /\ ReturnSilently(o, status)
  <2>1. PICK status : status # "Good" /\ op' = [o EXCEPT !.pc = "idle", !.result = status]
      BY <1>5 DEF ReturnSilently, Done
  <2>2. op'.pc = "idle" /\ op'.result = status
      BY <1>3, <2>1 DEF Idle
  <2> QED
      BY <1>1, <2>1, <2>2, NothingTold DEF Before, After, Opening
<1>6. CASE ParseOpcTcpUrl(EndpointUrl(p)) /\ \E then : Dial(Unsecured, then, o)
  <2>1. EndpointUrl(p).scheme = "opc.tcp"
      BY <1>6 DEF ParseOpcTcpUrl
  <2> QED
      BY <1>1, <1>3, <1>6, <2>1, DialTells
<1> QED
    BY <1>2, <1>4, <1>5, <1>6 DEF BuildStack, SendDiscoveryRequest

\* Connect over a session asks for no servers.
LEMMA AgainTells ==
    ASSUME ConnectInv, FindInv, NEW p \in Parameters, NEW size \in Sizes,
           NEW worked \in BOOLEAN,
           ConnectAgain(p, size, worked) \/ RefusedAgain(p, worked)
    PROVE  FindInv'
<1> DEFINE u == [Started("connect", p, size, worked) EXCEPT
                    !.offered = Offered(p), !.expected = ChosenAgain(p).server_certificate]
<1>1. /\ op.pc = "idle" /\ server' = server
      /\ \/ \E status, refused : ReturnOverSession(status, refused)
         \/ /\ ParseOpcTcpUrl(EndpointUrl(p))
            /\ \E security, n : /\ n = Started("connect", p, size, worked) \/ n = u
                                /\ Dial(security, "create", n)
    BY DEF ConnectAgain, RefusedAgain, BeginAgain, BuildStack
<1>2. DOMAIN op = DOMAIN Idle
    BY DEF ConnectInv, Shape
<1>3. CASE \E status, refused : ReturnOverSession(status, refused)
  <2>1. PICK status, told :
            op' = [op EXCEPT !.kind = "again", !.result = status, !.refused = told]
      BY <1>3 DEF ReturnOverSession
  <2>2. op'.pc = "idle" /\ op'.kind = "again"
      BY <1>1, <1>2, <2>1 DEF Idle
  <2> QED
      BY <1>1, <2>2, NothingTold DEF Before, After, Opening
<1>4. ASSUME ParseOpcTcpUrl(EndpointUrl(p)), NEW security, NEW n,
             n = Started("connect", p, size, worked) \/ n = u,
             Dial(security, "create", n)
      PROVE  FindInv'
  <2>1. EndpointUrl(p).scheme = "opc.tcp"
      BY <1>4 DEF ParseOpcTcpUrl
  <2>2. DOMAIN n = DOMAIN Idle /\ n.params = p
      BY <1>4 DEF Started, Idle
  <2> QED
      BY <1>1, <1>4, <2>1, <2>2, DialTells
<1> QED
    BY <1>1, <1>3, <1>4

\* The connection breaks, with or without the server.
LEMMA BreakTells ==
    ASSUME ConnectInv, FindInv, LoseConnection \/ (\E s \in Servers : Restart(s))
    PROVE  FindInv'
<1>1. wire' = Interrupted /\ op' = Disturbed
    BY DEF LoseConnection, Restart
<1>2. server'.config \in Servers /\ RegistrantsListed(server'.registered)
  <2>1. CASE LoseConnection
      BY <2>1 DEF LoseConnection, FindInv
  <2>2. CASE \E s \in Servers : Restart(s)
      BY <2>2 DEF Restart, RegistrantsListed
  <2> QED
      BY <2>1, <2>2
<1>3. /\ op'.pc = op.pc /\ op'.kind = op.kind /\ op'.params = op.params
      /\ op'.security = op.security /\ op'.result = op.result /\ op'.found = op.found
      /\ op'.disturbed = TRUE
    BY <1>1 DEF ConnectInv, Shape, Disturbed, Idle
<1>4. wire'.kind = "failed" \/ (wire' = wire /\ wire.kind # "request")
    BY <1>1 DEF Interrupted, Failed
<1>5. DialledInv' /\ AskInv'
    BY <1>3, <1>4 DEF FindInv, DialledInv, AskInv
<1>6. ToldInv'
    BY <1>3, <1>4 DEF FindInv, ToldInv, Told, BodyOf
<1> QED
    BY <1>2, <1>5, <1>6 DEF FindInv

\* Every step keeps what FindServers asks, answers and returns in step.
THEOREM FindInductive == Spec => []FindInv
<1>1. Init => FindInv
  <2> SUFFICES ASSUME Init
               PROVE  FindInv
      OBVIOUS
  <2>1. /\ op.pc = "idle" /\ op.kind = "none"
        /\ server.config \in Servers /\ server.registered = <<>>
      BY DEF Init, Idle
  <2> QED
      BY <2>1 DEF FindInv, RegistrantsListed, DialledInv, AskInv, ToldInv, Before, After,
         Opening
<1>2. ConnectInv /\ FindInv /\ [Next]_vars => FindInv'
  <2> SUFFICES ASSUME ConnectInv, FindInv, [Next]_vars
               PROVE  FindInv'
      OBVIOUS
  <2>1. CASE ClientStep
      BY <2>1, AcknowledgeTells, OpenedTells, EndpointsTell, ServiceTells, SessionTells
         DEF ClientStep
  <2>2. ASSUME NEW p \in Parameters, NEW size \in Sizes, NEW created \in BOOLEAN,
               \/ ConnectAsync(p, size, created)
               \/ ConnectAgain(p, size, created)
               \/ \E kind \in {"find", "register", "register2"} :
                     Discover(kind, p, size, created)
        PROVE  FindInv'
      BY <2>2, StartTells, AgainTells
  <2>3. CASE \/ \E size \in Sizes : Call(size)
             \/ CallUnconnected \/ DisconnectAsync
      BY <2>3, SessionTells
  <2>4. CASE LoseConnection \/ (\E s \in Servers : Restart(s))
      BY <2>4, BreakTells
  <2>5. CASE \E c \in files.rejected : TrustRejected(c)
    <3>1. op'.pc = "idle" /\ op'.kind = "none" /\ server' = server
        BY <2>5 DEF TrustRejected, Idle
    <3> QED
        BY <3>1, NothingTold DEF Before, After, Opening
  <2>6. CASE Resting \/ UNCHANGED vars
    <3>1. UNCHANGED <<server, op, wire>>
        BY <2>6 DEF Resting, vars
    <3>2. DialledInv' /\ AskInv' /\ ToldInv'
        BY <3>1 DEF FindInv, DialledInv, AskInv, ToldInv, Told, BodyOf
    <3> QED
        BY <3>1, <3>2 DEF FindInv
  <2>7. ASSUME NEW p \in Parameters, NEW reached \in BOOLEAN, RefusedAgain(p, reached)
        PROVE  FindInv'
    <3>1. PICK size : size \in Sizes
        BY ConnectAssumption DEF ConnectAssumption
    <3> QED
        BY <2>7, <3>1, AgainTells
  <2> QED
      BY <2>1, <2>2, <2>3, <2>4, <2>5, <2>6, <2>7, ServerTells DEF Next
<1> QED
    BY <1>1, <1>2, ConnectInductive, PTL DEF Spec

\* What FindServers returned can be dialled: no server twice, no wildcard host,
\* and the server itself under the URL it was reached by.
THEOREM FoundCanBeDialled == Spec => []FoundIsDialable
<1>1. FindInv => FoundIsDialable
    BY DEF FindInv, ToldInv, Told, NoServerTwice, AllDialable, UrlsDialable, OwnLeads,
       FoundIsDialable
<1> QED
    BY <1>1, FindInductive, PTL
=============================================================================
