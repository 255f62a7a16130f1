---------------------------- MODULE ServerRuntime ----------------------------
(***************************************************************************)
(* ServerRuntime (opcua/session/server_runtime.{h,cpp}) composed with the  *)
(* session manager, and with the way the two transports end a connection   *)
(* (opcua/transport/binary/{server,tcp_connection}.cpp and                 *)
(* opcua/transport/websocket/server.cpp).                                  *)
(*                                                                         *)
(* The manager owns the identity and lifetime of sessions, the runtime what *)
(* hangs off a session: the ServerSession with its subscriptions and the   *)
(* subscription-owner index used by TransferSubscriptions.  The manager    *)
(* reports every session it drops through on_session_removed, inside the   *)
(* handler that drops it.                                                  *)
(*                                                                         *)
(* A request runs on a connection; several may be in flight on one.  The   *)
(* binary transport waits for its service frames before the connection is  *)
(* detached; the WebSocket transport detaches at once and lets the         *)
(* handlers in flight finish on the dead connection.                       *)
(***************************************************************************)
EXTENDS SessionManager

CONSTANTS WebSockets,       \* the connections served by the WebSocket server
          SecureChannels,   \* the connections with a secured channel
          MaxSubscriptions  \* bound on the subscriptions ever created

ASSUME ServerRuntimeAssumption ==
    /\ WebSockets \subseteq Peers
    /\ SecureChannels \subseteq Peers
    /\ MaxSubscriptions \in Nat

VARIABLES phase,               \* connection -> where its transport is
          connection_token,    \* connection -> authentication_token or NoToken
          runtime_sessions,    \* the tokens with a ServerSession
          subscriptions,       \* token -> ids its ServerSession holds
          subscription_owners, \* id -> token or NoToken
          next_subscription_id

runtime_vars == <<phase, connection_token, runtime_sessions, subscriptions,
                  subscription_owners, next_subscription_id>>
vars == <<manager_vars, runtime_vars>>

NoToken == 0
SubscriptionIds == 1..MaxSubscriptions

\* "closed" also stands for a connection that does not exist yet.
Phases == {"closed", "open", "draining"}

(***************************************************************************)
(* Helpers.                                                                *)
(***************************************************************************)
\* FindAttachedSession: looks only at the token of the connection.
HasSession(c) == connection_token[c] \in runtime_sessions

\* Handlers of c suspended in Authenticate.
InFlight(c) == {k \in DOMAIN calls : calls[k].peer = c}

\* ForgetSession for every token of `removed`, then the ServerSession map as
\* the handler leaves it: the sessions of `created` are new and empty.
ForgetSessions(removed, created) ==
    /\ runtime_sessions' = (runtime_sessions \ removed) \cup created
    /\ subscriptions' = [t \in Tokens |-> IF t \in removed \cup created
                                          THEN {} ELSE subscriptions[t]]
    /\ subscription_owners' =
          [s \in SubscriptionIds |-> IF subscription_owners[s] \in removed
                                     THEN NoToken ELSE subscription_owners[s]]
    /\ UNCHANGED next_subscription_id

BindConnection(c, token) ==
    connection_token' = [connection_token EXCEPT ![c] = token]

(***************************************************************************)
(* Session services: the manager's step and what the runtime does with it. *)
(***************************************************************************)
HandleCreateSession(c, certificate, requested) ==
    /\ phase[c] = "open"
    /\ \/ CreateSessionRejected(c \in SecureChannels, certificate)
       \/ CreateSession(c \in SecureChannels, certificate, requested)
    /\ ForgetSessions(ExpiredTokens, {})
    /\ UNCHANGED <<phase, connection_token>>

\* The user token of a request, and the channel it comes over.
IdentityOver(c, secret) == [channel_secure |-> c \in SecureChannels, secret |-> secret]

HandleActivateRejected(c, token, signature_ok, anonymous, secret) ==
    /\ phase[c] = "open"
    /\ ActivateSessionRejected(token, signature_ok, anonymous, IdentityOver(c, secret))
    /\ ForgetSessions(ExpiredTokens, {})
    /\ UNCHANGED <<phase, connection_token>>

\* resumed: the ServerSession is looked up, and a missing one is an error.
HandleResume(c, token, signature_ok) ==
    /\ phase[c] = "open"
    /\ ResumeSession(token, signature_ok)
    /\ ForgetSessions(ExpiredTokens, {})
    /\ IF token \in runtime_sessions
       THEN BindConnection(c, token) ELSE UNCHANGED connection_token
    /\ UNCHANGED phase

HandleActivateAnonymous(c, token, signature_ok) ==
    /\ phase[c] = "open"
    /\ ActivateAnonymous(token, signature_ok)
    /\ ForgetSessions(ExpiredTokens, {token})
    /\ BindConnection(c, token)
    /\ UNCHANGED phase

HandleActivateUser(k, c, token, signature_ok, secret, user, delete_existing) ==
    /\ phase[c] = "open"
    /\ StartAuthentication(k, c, token, signature_ok, IdentityOver(c, secret), user,
                           delete_existing)
    /\ ForgetSessions(ExpiredTokens, {})
    /\ UNCHANGED <<phase, connection_token>>

\* The authenticator answers and the activation returns an error.
HandleActivateFailed(k) ==
    /\ \/ AuthenticationFailed(k) /\ ForgetSessions({}, {})
       \/ ActivationRefused(k) /\ ForgetSessions({}, {})
       \/ ActivationLost(k) /\ ForgetSessions(Evicted(k), {})
    /\ UNCHANGED <<phase, connection_token>>

\* The authenticator answers and the session is activated: a new ServerSession
\* is installed under the token and bound to the connection that asked.
HandleActivateDone(k) ==
    /\ FinishActivation(k)
    /\ ForgetSessions(Evicted(k), {calls[k].token})
    /\ BindConnection(calls[k].peer, calls[k].token)
    /\ UNCHANGED phase

HandleCloseSession(c, token) ==
    /\ phase[c] = "open"
    /\ IF token \in Live
       THEN CloseSession(token) /\ ForgetSessions({token}, {})
       ELSE UNCHANGED manager_vars /\ ForgetSessions({}, {})
    /\ IF connection_token[c] = token
       THEN BindConnection(c, NoToken) ELSE UNCHANGED connection_token
    /\ UNCHANGED phase

(***************************************************************************)
(* Subscription services that touch the owner index.                       *)
(***************************************************************************)
HandleCreateSubscription(c) ==
    LET id == next_subscription_id
        owner == connection_token[c]
    IN  /\ phase[c] = "open"
        /\ HasSession(c)
        /\ id <= MaxSubscriptions
        /\ subscriptions' = [subscriptions EXCEPT ![owner] = @ \cup {id}]
        /\ subscription_owners' = [subscription_owners EXCEPT ![id] = owner]
        /\ next_subscription_id' = id + 1
        /\ UNCHANGED <<manager_vars, phase, connection_token, runtime_sessions>>

\* Only the ids the session holds are deleted, and leave the index.
HandleDeleteSubscriptions(c, ids) ==
    LET owner == connection_token[c]
        deleted == ids \cap subscriptions[owner]
    IN  /\ phase[c] = "open"
        /\ HasSession(c)
        /\ subscriptions' = [subscriptions EXCEPT ![owner] = @ \ deleted]
        /\ subscription_owners' = [s \in SubscriptionIds |->
              IF s \in deleted THEN NoToken ELSE subscription_owners[s]]
        /\ UNCHANGED <<manager_vars, phase, connection_token, runtime_sessions,
                       next_subscription_id>>

\* The ids TransferSubscriptionsFrom really moves to the session `target`:
\* indexed under another session that exists and holds them.
Transferable(target, ids) ==
    {s \in ids : /\ subscription_owners[s] \in runtime_sessions \ {target}
                 /\ s \in subscriptions[subscription_owners[s]]
                 /\ s \notin subscriptions[target]}

\* Defect: the source session keeps what was transferred.
HandleTransferSubscriptionsShared(c, ids) ==
    LET target == connection_token[c]
        moved == Transferable(target, ids)
    IN  /\ phase[c] = "open"
        /\ HasSession(c)
        /\ subscriptions' = [subscriptions EXCEPT ![target] = @ \cup moved]
        /\ subscription_owners' = [s \in SubscriptionIds |->
              IF s \in moved THEN target ELSE subscription_owners[s]]
        /\ UNCHANGED <<manager_vars, phase, connection_token, runtime_sessions,
                       next_subscription_id>>

HandleTransferSubscriptions(c, ids) ==
    LET target == connection_token[c]
        moved == Transferable(target, ids)
    IN  /\ phase[c] = "open"
        /\ HasSession(c)
        /\ subscriptions' = [t \in Tokens |-> IF t = target
                                              THEN subscriptions[t] \cup moved
                                              ELSE subscriptions[t] \ moved]
        /\ subscription_owners' = [s \in SubscriptionIds |->
              IF s \in moved THEN target ELSE subscription_owners[s]]
        /\ UNCHANGED <<manager_vars, phase, connection_token, runtime_sessions,
                       next_subscription_id>>

(***************************************************************************)
(* Connections.                                                            *)
(***************************************************************************)
Accept(c) ==
    /\ phase[c] = "closed"
    /\ InFlight(c) = {}
    /\ phase' = [phase EXCEPT ![c] = "open"]
    /\ BindConnection(c, NoToken)
    /\ UNCHANGED <<manager_vars, runtime_sessions, subscriptions,
                   subscription_owners, next_subscription_id>>

\* ServerRuntime::Detach on the connection's own token, if it has one.
Detach(c) ==
    /\ IF connection_token[c] = NoToken
       THEN UNCHANGED manager_vars ELSE DetachSession(connection_token[c])
    /\ BindConnection(c, NoToken)
    /\ phase' = [phase EXCEPT ![c] = "closed"]
    /\ UNCHANGED <<runtime_sessions, subscriptions, subscription_owners,
                   next_subscription_id>>

\* WebSocket: the read loop ends and the connection is detached at once.
WebSocketLost(c) == c \in WebSockets /\ phase[c] = "open" /\ Detach(c)

\* Binary: the read loop ends; no more requests are read.
BinaryLost(c) ==
    /\ c \notin WebSockets
    /\ phase[c] = "open"
    /\ phase' = [phase EXCEPT ![c] = "draining"]
    /\ UNCHANGED <<manager_vars, connection_token, runtime_sessions,
                   subscriptions, subscription_owners, next_subscription_id>>

\* Binary: WaitForServiceFrames is over.
BinaryDrained(c) == phase[c] = "draining" /\ InFlight(c) = {} /\ Detach(c)

TimePasses == Tick /\ UNCHANGED runtime_vars

(***************************************************************************)
(* The specification.                                                      *)
(***************************************************************************)
Init ==
    /\ ManagerInit
    /\ phase = [c \in Peers |-> "closed"]
    /\ connection_token = [c \in Peers |-> NoToken]
    /\ runtime_sessions = {}
    /\ subscriptions = [t \in Tokens |-> {}]
    /\ subscription_owners = [s \in SubscriptionIds |-> NoToken]
    /\ next_subscription_id = 1

SessionRequest(c) ==
    \/ \E certificate \in Certificates, requested \in RequestedTimeouts :
          HandleCreateSession(c, certificate, requested)
    \/ \E token \in Tokens, signature_ok \in BOOLEAN :
          \/ \E anonymous \in BOOLEAN, secret \in Secrets :
                HandleActivateRejected(c, token, signature_ok, anonymous,
                                       secret)
          \/ HandleResume(c, token, signature_ok)
          \/ HandleActivateAnonymous(c, token, signature_ok)
          \/ \E k \in Calls, secret \in Secrets, user \in Users,
                delete_existing \in BOOLEAN :
                HandleActivateUser(k, c, token, signature_ok, secret, user,
                                   delete_existing)
    \/ \E token \in Tokens : HandleCloseSession(c, token)

\* ModifySubscription, SetPublishingMode, Publish and Republish find the session
\* of the connection and leave the registries alone.
SubscriptionRequest(c) ==
    \/ HandleCreateSubscription(c)
    \/ \E ids \in SUBSET SubscriptionIds : \/ HandleDeleteSubscriptions(c, ids)
                                           \/ HandleTransferSubscriptions(c, ids)

Transport(c) ==
    Accept(c) \/ WebSocketLost(c) \/ BinaryLost(c) \/ BinaryDrained(c)

Next ==
    \/ \E c \in Peers : SessionRequest(c) \/ SubscriptionRequest(c) \/ Transport(c)
    \/ \E k \in Calls : HandleActivateFailed(k) \/ HandleActivateDone(k)
    \/ TimePasses

Spec == Init /\ [][Next]_vars

(***************************************************************************)
(* Properties.                                                             *)
(***************************************************************************)
\* Connections, the ServerSession map and the owner index keep their shape;
\* only an existing ServerSession holds subscriptions, and ids come from the
\* counter.
TypeOK ==
    /\ ManagerTypeOK
    /\ phase \in [Peers -> Phases]
    /\ connection_token \in [Peers -> Tokens \cup {NoToken}]
    /\ runtime_sessions \subseteq Tokens
    /\ subscriptions \in [Tokens -> SUBSET SubscriptionIds]
    /\ subscription_owners \in [SubscriptionIds -> Tokens \cup {NoToken}]
    /\ next_subscription_id \in 1..(MaxSubscriptions + 1)

\* ServerRuntime constructor: "Those two must die together".  The runtime has a
\* ServerSession for exactly the sessions the manager holds as activated,
\* whichever of CloseSession, expiry or eviction removes one.  It is what makes
\* the Bad_SessionIdInvalid branch of a resumption unreachable.
RuntimeMirrorsManager ==
    runtime_sessions = {t \in Live : sessions[t].activated}

\* The owner index never names a session that is gone, so a
\* TransferSubscriptions request never meets an owner without a ServerSession.
OwnersAreLive ==
    \A s \in SubscriptionIds :
        subscription_owners[s] # NoToken
            => subscription_owners[s] \in runtime_sessions

\* A subscription held by a ServerSession is indexed under that session, so it
\* is held by one session only and can be deleted and transferred, whatever
\* order of transfers, deletions, evictions and reconnects led here.
HeldIsIndexed ==
    \A t \in Tokens : \A s \in subscriptions[t] :
        t \in runtime_sessions /\ subscription_owners[s] = t

\* The three registries of the server, the manager's sessions, the runtime's and
\* the index of subscriptions, agree after every step of any of them.
RegistriesAgree == RuntimeMirrorsManager /\ HeldIsIndexed

\* A connection is only ever bound to a token that was activated: while the
\* session exists, requests on the connection reach an activated session, and
\* never one still waiting for its authenticator.
BoundIsActivated ==
    \A c \in Peers : connection_token[c] \in Live
                         => sessions[connection_token[c]].activated

\* The strengthening under which the four invariants above are inductive.
RuntimeInvariant ==
    /\ TypeOK
    /\ RuntimeMirrorsManager
    /\ OwnersAreLive
    /\ HeldIsIndexed
    /\ BoundIsActivated
    /\ \A s \in next_subscription_id..MaxSubscriptions :
          subscription_owners[s] = NoToken
    /\ \A c \in Peers : connection_token[c] < next_token_id
=============================================================================
