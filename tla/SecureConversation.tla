-------------------------- MODULE SecureConversation --------------------------
(***************************************************************************)
(* One binary connection, from the Hello to the last service frame: the    *)
(* client's secure channel and transport (opcua/transport/binary/          *)
(* client_secure_channel, client_transport, client_connection), the        *)
(* server's connection and secure channel (tcp_connection, secure_channel) *)
(* and the bytes on their way between the two.                             *)
(*                                                                         *)
(* Each coroutine is atomic between two suspensions.  A write is its place *)
(* in the write queue: frames are read in the order they were built.       *)
(*                                                                         *)
(* Abstractions.  A frame is its type, the token it names, the pair of     *)
(* nonces its keys were derived from, and its request.  Decryption and     *)
(* signature check succeed when both ends derived their keys from the same *)
(* nonces; a nonce is the number of nonces its side drew before (0: none). *)
(* Under SecurityPolicy None there are no keys and every nonce is 0.       *)
(* Messages have one chunk, as both ends write them.  Whether a token is   *)
(* due for renewal is left open, at most MaxRenewals times.  Certificates  *)
(* are accepted or not.  ClientChannel is reduced to its discipline: one   *)
(* sender at a time, which renews a due token only while no response is    *)
(* pending, and one read loop, which reads while a response is pending.    *)
(***************************************************************************)
EXTENDS Naturals, Sequences

CONSTANTS Requests,     \* service requests
          Splitters,    \* the ones received some time after they are sent
          Nobody,       \* no request
          MaxRenewals   \* bound on the renewals

ASSUME ConversationAssumption == /\ Splitters \subseteq Requests
                                 /\ Nobody \notin Requests
                                 /\ MaxRenewals \in Nat

VARIABLES policy,         \* security_policy_uri of the client
          allowed,        \* policies the server's configuration allows
          client,         \* where the client stands
          sender,         \* the request a renewal goes ahead of
          unsent,         \* requests not sent yet
          outstanding,    \* requests sent whose response was not read
          pending,        \* pending_responses_ of the client channel
          c_token, c_keys, c_nonce,
          renewals,
          server,         \* where TcpConnection::Run stands
          s_opened, s_token, s_previous, s_keys, s_nonce,
          serving,        \* pending_service_frames_
          up, down,       \* frames on their way, in order
          loud,           \* a renewal began with a response on its way
          stolen,         \* a reader has taken a frame meant for the other one
          rejected,       \* a response did not pass the client's checks
          dropped         \* types of the frames the server closed for

config_vars == <<policy, allowed>>
caller_vars == <<sender, unsent, outstanding, pending>>
token_vars == <<c_token, c_keys, c_nonce>>
client_vars == <<client, caller_vars, token_vars, renewals, loud, stolen,
                 rejected>>
channel_vars == <<s_opened, s_token, s_previous, s_keys, s_nonce>>
server_vars == <<server, channel_vars, serving, dropped>>
vars == <<config_vars, client_vars, server_vars, up, down>>

Policies == {"None", "Basic256Sha256"}
NoKeys == <<0, 0>>

Frame(type, token, keys, id) ==
    [type |-> type, token |-> token, keys |-> keys, id |-> id]

\* An OpenSecureChannel frame names the token it issues (0: the request) and
\* the nonces its sender knows of.
Hello == Frame("HEL", 0, NoKeys, Nobody)
Acknowledge == Frame("ACK", 0, NoKeys, Nobody)
OpenIssue == "OPN"
OpenRenew == "REN"
IsOpen(f) == f.type \in {OpenIssue, OpenRenew}

(***************************************************************************)
(* The client.                                                             *)
(***************************************************************************)
\* ClientTransport::Connect writes the Hello.
Connect ==
    /\ client = "idle"
    /\ client' = "connecting"
    /\ up' = Append(up, Hello)
    /\ UNCHANGED <<config_vars, caller_vars, token_vars, renewals, loud,
                   stolen, rejected, server_vars, down>>

\* GenerateClientNonce: a fresh one for every request of the secure policy.
NextNonce(nonce) == IF policy = "None" THEN nonce ELSE nonce + 1

\* OpenSecureChannel up to the read of its answer.
WriteOpen(type) ==
    /\ c_nonce' = NextNonce(c_nonce)
    /\ up' = Append(up, Frame(type, 0, <<c_nonce', 0>>, Nobody))

\* The Acknowledge; ClientConnection::Open goes on to open the channel.
Acknowledged ==
    /\ client = "connecting"
    /\ down # <<>>
    /\ Head(down).type = "ACK"
    /\ client' = "opening"
    /\ WriteOpen(OpenIssue)
    /\ down' = Tail(down)
    /\ UNCHANGED <<config_vars, caller_vars, c_token, c_keys, renewals, loud,
                   stolen, rejected, server_vars>>

\* SendServiceRequest with the given token and keys.  A request of Call is
\* pending from its write on, the others once Receive is called.
Write(r, token, keys) ==
    /\ up' = Append(up, Frame("MSG", token, keys, r))
    /\ outstanding' = outstanding \cup {r}
    /\ pending' = pending \cup ({r} \ Splitters)

\* ClientChannel::Send of a request whose token is not due, or whose renewal
\* has to wait because a response is pending.
Send(r) ==
    /\ client = "open"
    /\ r \in unsent
    /\ unsent' = unsent \ {r}
    /\ Write(r, c_token, c_keys)
    /\ UNCHANGED <<config_vars, client, sender, token_vars, renewals, loud,
                   stolen, rejected, server_vars, down>>

\* Defect: the token is renewed while responses are pending.
RenewBusy(r) ==
    /\ client = "open"
    /\ r \in unsent
    /\ renewals < MaxRenewals
    /\ client' = "renewing"
    /\ sender' = r
    /\ unsent' = unsent \ {r}
    /\ renewals' = renewals + 1
    /\ WriteOpen(OpenRenew)
    /\ loud' = (loud \/ outstanding \ pending # {})
    /\ UNCHANGED <<config_vars, outstanding, pending, c_token, c_keys, stolen,
                   rejected, server_vars, down>>

\* ClientChannel::Send renews first: RenewIfNeeded and OpenSecureChannel.
Renew(r) ==
    /\ pending = {}
    /\ client = "open"
    /\ r \in unsent
    /\ renewals < MaxRenewals
    /\ client' = "renewing"
    /\ sender' = r
    /\ unsent' = unsent \ {r}
    /\ renewals' = renewals + 1
    /\ WriteOpen(OpenRenew)
    /\ loud' = (loud \/ outstanding \ pending # {})
    /\ UNCHANGED <<config_vars, outstanding, pending, c_token, c_keys, stolen,
                   rejected, server_vars, down>>

\* What OpenSecureChannel takes from its answer, whatever request it answers.
AdoptToken(f) ==
    /\ c_token' = f.token
    /\ c_keys' = <<c_nonce, f.keys[2]>>

Opened ==
    /\ client = "opening"
    /\ down # <<>>
    /\ IsOpen(Head(down))
    /\ client' = "open"
    /\ AdoptToken(Head(down))
    /\ down' = Tail(down)
    /\ UNCHANGED <<config_vars, caller_vars, c_nonce, renewals, loud, stolen,
                   rejected, server_vars, up>>

\* The renewal reads its answer and the waiting request is sent, or it reads
\* another frame, which it cannot decode, and the request fails.
RenewalReads ==
    /\ client = "renewing"
    /\ down # <<>>
    /\ client' = "open"
    /\ sender' = Nobody
    /\ down' = Tail(down)
    /\ \/ /\ IsOpen(Head(down))
          /\ AdoptToken(Head(down))
          /\ Write(sender, c_token', c_keys')
          /\ UNCHANGED stolen
       \/ /\ ~IsOpen(Head(down))
          /\ stolen' = TRUE
          /\ UNCHANGED <<outstanding, pending, c_token, c_keys, up>>
    /\ UNCHANGED <<config_vars, unsent, c_nonce, renewals, loud, rejected,
                   server_vars>>

\* ClientChannel::Receive of a request sent before, not yet
\* answered: a response the read loop has met is handed over at once.
Receive(r) ==
    /\ client \in {"open", "renewing"}
    /\ r \in outstanding \ pending
    /\ pending' = pending \cup {r}
    /\ UNCHANGED <<config_vars, client, sender, unsent, outstanding,
                   token_vars, renewals, loud, stolen, rejected, server_vars,
                   up, down>>

\* DecodeServiceMessageChunk: the channel's current token, and keys that fit.
Decodes(f) == f.type = "MSG" /\ f.token = c_token /\ f.keys = c_keys

\* The read loop: ReadServiceResponse.  A frame that does not decode fails
\* every pending response.
ReadResponse ==
    /\ client \in {"open", "renewing"}
    /\ pending # {}
    /\ down # <<>>
    /\ down' = Tail(down)
    /\ \/ /\ Decodes(Head(down))
          /\ outstanding' = outstanding \ {Head(down).id}
          /\ pending' = pending \ {Head(down).id}
          /\ UNCHANGED <<stolen, rejected>>
       \/ /\ ~Decodes(Head(down))
          /\ pending' = {}
          /\ stolen' = (stolen \/ IsOpen(Head(down)))
          /\ rejected' = (rejected \/ ~IsOpen(Head(down)))
          /\ UNCHANGED outstanding
    /\ UNCHANGED <<config_vars, client, sender, unsent, token_vars, renewals,
                   loud, server_vars, up>>

\* ClientConnection::Close: CloseSecureChannel if the channel is open, and the
\* transport is closed.  It waits neither for the send turn nor for a renewal.
Close ==
    /\ client \in {"open", "renewing"}
    /\ client' = "closed"
    /\ up' = Append(up, Frame("CLO", c_token, c_keys, Nobody))
    /\ sender' = Nobody
    /\ pending' = {}
    /\ down' = <<>>
    /\ UNCHANGED <<config_vars, unsent, outstanding, token_vars, renewals,
                   loud, stolen, rejected, server_vars>>

\* The connection is lost: the server gets what the network still delivers.
Disconnect ==
    /\ client \notin {"idle", "closed"}
    /\ client' = "closed"
    /\ \E n \in 0 .. Len(up) : up' = SubSeq(up, 1, n)
    /\ sender' = Nobody
    /\ pending' = {}
    /\ down' = <<>>
    /\ UNCHANGED <<config_vars, unsent, outstanding, token_vars, renewals,
                   loud, stolen, rejected, server_vars>>

\* The server has closed and everything it wrote is read.
EndOfStream ==
    /\ client \notin {"idle", "closed"}
    /\ server = "closed"
    /\ down = <<>>
    /\ client' = "closed"
    /\ sender' = Nobody
    /\ pending' = {}
    /\ UNCHANGED <<config_vars, unsent, outstanding, token_vars, renewals,
                   loud, stolen, rejected, server_vars, up, down>>

(***************************************************************************)
(* The server.                                                             *)
(***************************************************************************)
\* TcpConnection::ProcessFrame of the next frame of the given types.  A client
\* that is gone does not get what is written.
Process(types) ==
    /\ server = "reading"
    /\ up # <<>>
    /\ Head(up).type \in types
    /\ up' = Tail(up)

Written(f) == down' = IF client = "closed" THEN down ELSE Append(down, f)

HandleHello ==
    /\ Process({"HEL"})
    /\ Written(Acknowledge)
    /\ UNCHANGED <<config_vars, client_vars, server, channel_vars, serving,
                   dropped>>

\* The answer of BuildOpenResponse and BuildSecureOpenResponse.
OpenResponse(request, token, nonce) ==
    Frame(request.type, token, <<request.keys[1], nonce>>, Nobody)

\* Defect: the response is built before the token is rotated.
HandleOpenNoneRotatesLast ==
    /\ Process({OpenIssue, OpenRenew})
    /\ policy = "None"
    /\ policy \in allowed
    /\ IF Head(up).type = OpenRenew
       THEN s_previous' = s_token /\ s_token' = s_token + 1
       ELSE UNCHANGED <<s_previous, s_token>>
    /\ s_opened' = TRUE
    /\ Written(OpenResponse(Head(up), s_token, 0))
    /\ UNCHANGED <<config_vars, client_vars, server, s_keys, s_nonce, serving,
                   dropped>>

\* HandleOpenNone: a renewal rotates the token before the response is built.
HandleOpenNone ==
    /\ Process({OpenIssue, OpenRenew})
    /\ policy = "None"
    /\ policy \in allowed
    /\ IF Head(up).type = OpenRenew
       THEN s_previous' = s_token /\ s_token' = s_token + 1
       ELSE UNCHANGED <<s_previous, s_token>>
    /\ s_opened' = TRUE
    /\ Written(OpenResponse(Head(up), s_token', 0))
    /\ UNCHANGED <<config_vars, client_vars, server, s_keys, s_nonce, serving,
                   dropped>>

\* HandleOpenSecure of a request that passes its checks: a fresh server nonce,
\* new keys in both directions, and no way back to the previous ones.
HandleOpenSecure ==
    /\ Process({OpenIssue, OpenRenew})
    /\ policy = "Basic256Sha256"
    /\ policy \in allowed
    /\ s_token' = IF Head(up).type = OpenRenew THEN s_token + 1 ELSE s_token
    /\ s_nonce' = s_nonce + 1
    /\ s_keys' = <<Head(up).keys[1], s_nonce'>>
    /\ s_opened' = TRUE
    /\ Written(OpenResponse(Head(up), s_token', s_nonce'))
    /\ UNCHANGED <<config_vars, client_vars, server, s_previous, serving,
                   dropped>>

\* A policy that is not allowed, or a certificate that is not accepted: the
\* connection is closed without an answer.
RefuseOpen ==
    /\ Process({OpenIssue, OpenRenew})
    /\ policy \notin allowed \/ policy = "Basic256Sha256"
    /\ server' = "draining"
    /\ UNCHANGED <<config_vars, client_vars, channel_vars, serving, dropped,
                   down>>

\* HandleSecureMessage: its checks of a frame, of a message or a close.
Accepts(f) ==
    /\ s_opened
    /\ \/ /\ policy = "None"
          /\ \/ f.token = s_token
             \/ s_previous # 0 /\ f.token = s_previous
       \/ /\ policy = "Basic256Sha256"
          /\ f.token = s_token
          /\ f.keys = s_keys

\* A service message: StartServiceFrame.
HandleMessage ==
    /\ Process({"MSG"})
    /\ Accepts(Head(up))
    /\ serving' = serving \cup {Head(up).id}
    /\ UNCHANGED <<config_vars, client_vars, server, channel_vars, dropped,
                   down>>

\* CloseSecureChannel: no response, and Run leaves its loop.
HandleClose ==
    /\ Process({"CLO"})
    /\ Accepts(Head(up))
    /\ s_opened' = FALSE
    /\ server' = "draining"
    /\ UNCHANGED <<config_vars, client_vars, s_token, s_previous, s_keys,
                   s_nonce, serving, dropped, down>>

\* A frame that does not pass: the connection is closed without an answer.
DropFrame ==
    /\ Process({"MSG", "CLO"})
    /\ ~Accepts(Head(up))
    /\ server' = "draining"
    /\ dropped' = dropped \cup {Head(up).type}
    /\ UNCHANGED <<config_vars, client_vars, channel_vars, serving, down>>

\* Defect: a read of no bytes does not end the loop.
ClientGoneUnnoticed ==
    /\ server = "reading"
    /\ client = "closed"
    /\ up = <<>>
    /\ UNCHANGED vars

\* The read of Run fails: the client is gone and nothing of it is left.
ClientGone ==
    /\ server = "reading"
    /\ client = "closed"
    /\ up = <<>>
    /\ server' = "draining"
    /\ UNCHANGED <<config_vars, client_vars, channel_vars, serving, dropped,
                   up, down>>

\* A service frame is over without an answer (it threw, or answered nothing).
ServiceFailed(r) ==
    /\ r \in serving
    /\ serving' = serving \ {r}
    /\ UNCHANGED <<config_vars, client_vars, server, channel_vars, dropped,
                   up, down>>

\* The service answers: BuildServiceResponse under the token of that moment.
Answer(r) ==
    /\ r \in serving
    /\ serving' = serving \ {r}
    /\ Written(Frame("MSG", s_token, s_keys, r))
    /\ UNCHANGED <<config_vars, client_vars, server, channel_vars, dropped,
                   up>>

\* WaitForServiceFrames is over and the transport is closed.
Drained ==
    /\ server = "draining"
    /\ serving = {}
    /\ server' = "closed"
    /\ UNCHANGED <<config_vars, client_vars, channel_vars, serving, dropped,
                   up, down>>

(***************************************************************************)
(* The specification.                                                      *)
(***************************************************************************)
Init ==
    /\ policy \in Policies
    /\ allowed \in SUBSET Policies
    /\ client = "idle"
    /\ sender = Nobody
    /\ unsent = Requests
    /\ outstanding = {}
    /\ pending = {}
    /\ c_token = 0 /\ c_keys = NoKeys /\ c_nonce = 0
    /\ renewals = 0
    /\ server = "reading"
    /\ s_opened = FALSE
    /\ s_token = 1 /\ s_previous = 0 /\ s_keys = NoKeys /\ s_nonce = 0
    /\ serving = {}
    /\ up = <<>> /\ down = <<>>
    /\ loud = FALSE /\ stolen = FALSE /\ rejected = FALSE
    /\ dropped = {}

ClientStep ==
    \/ Connect \/ Acknowledged \/ Opened \/ RenewalReads \/ ReadResponse
    \/ Close \/ Disconnect \/ EndOfStream
    \/ \E r \in Requests : Send(r) \/ Renew(r) \/ Receive(r)

ProcessFrame ==
    \/ HandleHello \/ HandleOpenNone \/ HandleOpenSecure \/ RefuseOpen
    \/ HandleMessage \/ HandleClose \/ DropFrame

Service(r) == Answer(r) \/ ServiceFailed(r)

Next ==
    \/ ClientStep
    \/ ProcessFrame \/ ClientGone \/ Drained
    \/ \E r \in Requests : Service(r)

Spec == Init /\ [][Next]_vars

\* The server's executor processes what has arrived, notices the end of the
\* stream, and every service it started ends.  Nothing is asked of the client.
FairSpec == /\ Spec
            /\ WF_vars(ProcessFrame \/ ClientGone)
            /\ WF_vars(Drained)
            /\ \A r \in Requests : WF_vars(Service(r))

(***************************************************************************)
(* Properties.                                                             *)
(***************************************************************************)
KeyPairs == Nat \X Nat
Frames == [type : {"HEL", "ACK", OpenIssue, OpenRenew, "MSG", "CLO"},
           token : Nat, keys : KeyPairs, id : Requests \cup {Nobody}]

\* Tokens, keys, requests and frames keep their shape.
TypeOK ==
    /\ policy \in Policies
    /\ allowed \subseteq Policies
    /\ client \in {"idle", "connecting", "opening", "open", "renewing",
                   "closed"}
    /\ sender \in Requests \cup {Nobody}
    /\ client = "renewing" <=> sender # Nobody
    /\ unsent \subseteq Requests
    /\ outstanding \subseteq Requests
    /\ pending \subseteq outstanding
    /\ c_token \in Nat /\ c_keys \in KeyPairs /\ c_nonce \in Nat
    /\ renewals \in 0 .. MaxRenewals
    /\ server \in {"reading", "draining", "closed"}
    /\ s_opened \in BOOLEAN
    /\ s_token \in Nat \ {0} /\ s_previous \in Nat
    /\ s_keys \in KeyPairs /\ s_nonce \in Nat
    /\ serving \subseteq Requests
    /\ up \in Seq(Frames) /\ down \in Seq(Frames)
    /\ loud \in BOOLEAN /\ stolen \in BOOLEAN /\ rejected \in BOOLEAN
    /\ dropped \subseteq {"MSG", "CLO"}

\* The guard of the renewal in ClientChannel::Send: the renewal and the read
\* loop take each other's frames only if a renewal began while a request was
\* sent and nobody waited for its response yet; pending ones never lead there.
QuietRenewalsAreSafe == stolen => loud

\* HandleSecureMessage closes the connection for a token or keys it does not
\* know.  As long as each reader of the client gets the frames meant for it,
\* no request meets that fate, however renewals, requests and answers
\* interleave.  A CloseSecureChannel written while a renewal is under way names
\* the token the server has just superseded; under SecurityPolicy None it is
\* accepted all the same (previous_token_id_).
RequestsUnderstood ==
    ~stolen => /\ "MSG" \notin dropped
               /\ policy = "None" => dropped = {}

\* DecodeServiceMessageChunk takes the current token only, and the server
\* answers under the token of the moment it answers.  As long as each reader
\* gets the frames meant for it, the client can decode every response,
\* including those built on the other side of a renewal.
ResponsesUnderstood == ~stolen => ~rejected

\* The tokens and keys of the two ends agree for every frame under way, in both
\* directions.
MessagesUnderstood == RequestsUnderstood /\ ResponsesUnderstood

\* TcpConnection::Run: when the client is gone, what it sent is processed, the
\* services it started end, and the connection is closed.
ConnectionDrains == client = "closed" ~> server = "closed"

(***************************************************************************)
(* The inductive invariant behind them.                                    *)
(***************************************************************************)
Messages(q) == {i \in DOMAIN q : q[i].type = "MSG"}
Opens(q) == {i \in DOMAIN q : IsOpen(q[i])}

\* A request is in one place only: not sent, waiting for its renewal, on its
\* way to the server, served, or on its way back.
OnePlace ==
    /\ sender \notin unsent \cup outstanding
    /\ unsent \cap outstanding = {}
    /\ serving \subseteq outstanding
    /\ \A i \in Messages(up) : up[i].id \in outstanding \ serving
    /\ \A i \in Messages(down) : down[i].id \in outstanding \ serving
    /\ \A i, j \in Messages(up) : up[i].id = up[j].id => i = j
    /\ \A i, j \in Messages(down) : down[i].id = down[j].id => i = j
    /\ \A i \in Messages(up), j \in Messages(down) : up[i].id # down[j].id

\* What may be on its way while the client is where it is.
Traffic ==
    /\ \A i \in DOMAIN up : up[i].type # "ACK"
    /\ \A i \in DOMAIN up : up[i].type = "HEL" =>
           Len(up) = 1 /\ down = <<>> /\ client \in {"connecting", "closed"}
    /\ \A i \in DOMAIN up : up[i].type = "CLO" =>
           i = Len(up) /\ client = "closed"
    /\ \A i \in DOMAIN down : down[i].type \notin {"HEL", "CLO"}
    /\ \A i \in DOMAIN down : down[i].type = "ACK" =>
           Len(down) = 1 /\ up = <<>> /\ client = "connecting"
    /\ client = "idle" => up = <<>> /\ down = <<>>
    /\ client = "connecting" => Opens(up) = {} /\ Opens(down) = {}
    /\ client = "closed" => down = <<>>
    /\ client \in {"idle", "connecting", "opening"} => outstanding = {}
    /\ client = "renewing" /\ ~loud => outstanding = {}

\* A handshake under way: one request or its answer, and what it leads to.
Handshake ==
    /\ \A i \in Opens(up) :
          /\ client \in {"opening", "renewing", "closed"}
          /\ up[i].type = OpenIssue => client # "renewing"
          /\ up[i].keys[1] = c_nonce
          /\ Opens(down) = {}
          /\ \A j \in DOMAIN up : j > i => up[j].type = "CLO"
    /\ \A i \in Opens(down) :
          /\ client \in {"opening", "renewing"}
          /\ up = <<>>
          /\ down[i].token = s_token
          /\ s_keys = <<c_nonce, down[i].keys[2]>>
          /\ s_opened
          /\ policy = "None" /\ client = "renewing" => s_previous = c_token
          /\ \A j \in Opens(down) : j = i

\* Where the two ends agree, and under which token each message travels.
InStep ==
    /\ client \in {"open", "renewing"} => s_opened /\ c_token # 0
    /\ client \in {"open", "renewing"} /\ Opens(down) = {} =>
          c_token = s_token /\ c_keys = s_keys
    /\ policy = "None" => c_nonce = 0 /\ s_keys = NoKeys
    /\ \A i \in Messages(down) :
          IF \E j \in Opens(down) : j < i
          THEN down[i].token = s_token /\ down[i].keys = s_keys
          ELSE down[i].token = c_token /\ down[i].keys = c_keys
    /\ \A i \in Messages(up) :
          s_opened /\ up[i].token = s_token /\ up[i].keys = s_keys
    /\ \A i \in DOMAIN up : up[i].type = "CLO" /\ policy = "None" =>
          /\ s_opened
          /\ \/ up[i].token = s_token
             \/ s_previous # 0 /\ up[i].token = s_previous /\ Opens(up) = {}

ConversationInvariant ==
    /\ TypeOK
    /\ OnePlace
    /\ Traffic
    /\ ~stolen => Handshake
    /\ ~stolen => InStep
    /\ QuietRenewalsAreSafe
    /\ RequestsUnderstood
    /\ ResponsesUnderstood
=============================================================================
