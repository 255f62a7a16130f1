--------------------------- MODULE SessionManager ---------------------------
(***************************************************************************)
(* ServerSessionManager (opcua/session/server_session_manager.{h,cpp}):    *)
(* the table of sessions keyed by authentication token, their activation,  *)
(* resumption, eviction, detachment and expiry.                            *)
(*                                                                         *)
(* Everything runs on one executor, so a handler is one atomic step up to  *)
(* the point where it suspends.  The only suspension is                    *)
(* `co_await authenticator->Authenticate` inside ActivateSession: `calls`  *)
(* holds the activations parked there, and any other handler may run       *)
(* before the answer arrives.                                              *)
(*                                                                         *)
(* Abstractions.  A session is identified by its token alone (session_id   *)
(* is drawn from a twin counter).  Nonces, certificates and signatures are *)
(* reduced to the outcome of their checks.  expires_at is kept relative to *)
(* now() as expires_in, the ticks left; 0 stands for expires_at <= now().  *)
(* The peer is kept only in a suspended request, where it names the        *)
(* connection that will be answered; in a session it only feeds logs.      *)
(*                                                                         *)
(* A definition marked "Defect" is a plausible slip in the code modelled   *)
(* by the definition that follows it; put in its place, it breaks one of   *)
(* the properties, which shows that the property depends on that code.     *)
(***************************************************************************)
EXTENDS Naturals

CONSTANTS MaxSessions,        \* bound on the sessions ever created
          Users,              \* user ids the authenticator can resolve
          MultiSessionUsers,  \* users whose result says multi_sessions
          Anonymous,          \* stands for an absent authentication_result
          Peers,              \* connections, as identified by `peer`
          Calls,              \* activations that may await the authenticator
          RequestedTimeouts,  \* values a CreateSession may ask for
          RequireEncryption,  \* require_encryption_for_password
          DefaultTimeout, MinTimeout, MaxTimeout

ASSUME SessionManagerAssumption ==
    /\ MaxSessions \in Nat
    /\ MultiSessionUsers \subseteq Users
    /\ Anonymous \notin Users
    /\ RequireEncryption \in BOOLEAN
    /\ RequestedTimeouts \subseteq Nat
    /\ DefaultTimeout \in Nat /\ MinTimeout \in Nat /\ MaxTimeout \in Nat
    /\ 0 < MinTimeout /\ MinTimeout <= MaxTimeout
    /\ DefaultTimeout \in MinTimeout..MaxTimeout

VARIABLES sessions,       \* token -> SessionState, a partial function
          next_token_id,
          calls           \* call -> request suspended in Authenticate

manager_vars == <<sessions, next_token_id, calls>>

Tokens == 1..MaxSessions

SessionState == [secured : BOOLEAN, revised_timeout : MinTimeout..MaxTimeout,
                 expires_in : 0..MaxTimeout, user : Users \cup {Anonymous},
                 activated : BOOLEAN, attached : BOOLEAN]

Activation == [token : Tokens, user : Users, delete_existing : BOOLEAN,
               peer : Peers]

(***************************************************************************)
(* Helpers over the table.                                                 *)
(***************************************************************************)
Live == DOMAIN sessions

ReviseTimeout(requested) ==
    IF requested = 0 THEN DefaultTimeout
    ELSE IF requested < MinTimeout THEN MinTimeout
    ELSE IF requested > MaxTimeout THEN MaxTimeout
    ELSE requested

\* What PruneExpiredSessions collects and then reports to on_session_removed.
ExpiredTokens == {t \in Live : sessions[t].expires_in = 0}

\* What RemoveSessionsByUser collects and then reports.
TokensOfUser(u) == {t \in Live : sessions[t].user = u}

HasAttachedSessionForUser(u) == \E t \in TokensOfUser(u) : sessions[t].attached

\* The table once the tokens of `removed` are erased.
Without(removed) == [t \in Live \ removed |-> sessions[t]]

\* The table with one entry inserted or assigned.
With(table, token, state) ==
    [t \in DOMAIN table \cup {token} |-> IF t = token THEN state ELSE table[t]]

EndCall(k) == calls' = [c \in DOMAIN calls \ {k} |-> calls[c]]

(***************************************************************************)
(* CreateSession.  certificate is the client certificate of the request:   *)
(* absent, the one the SecureChannel validated, or another one.            *)
(***************************************************************************)
Certificates == {"none", "channel", "other"}

CreateSessionRejected(channel_secure, certificate) ==
    /\ channel_secure /\ certificate # "channel"
    /\ sessions' = Without(ExpiredTokens)
    /\ UNCHANGED <<next_token_id, calls>>

CreateSession(channel_secure, certificate, requested) ==
    LET timeout == ReviseTimeout(requested)
    IN  /\ channel_secure => certificate = "channel"
        /\ next_token_id <= MaxSessions
        /\ sessions' = With(Without(ExpiredTokens), next_token_id,
                            [secured |-> certificate # "none",
                             revised_timeout |-> timeout,
                             expires_in |-> timeout, user |-> Anonymous,
                             activated |-> FALSE, attached |-> FALSE])
        /\ next_token_id' = next_token_id + 1
        /\ UNCHANGED calls

(***************************************************************************)
(* ActivateSession, up to its first return or suspension.  signature_ok is *)
(* the outcome of VerifyApplicationSignature; identity is the user token   *)
(* and whether the channel protects it.                                    *)
(***************************************************************************)
\* A password that is not sent, is sent clear, is sealed together with the nonce
\* of the session, or is sealed in another way: for another key, shorter than
\* its length says, or with another nonce.
Secrets == {"missing", "clear", "sealed", "spoiled"}
Identities == [channel_secure : BOOLEAN, secret : Secrets]

IsEncrypted(secret) == secret \in {"sealed", "spoiled"}
RecoverEncryptedPassword(secret) == secret = "sealed"

UserTokenAccepted(identity) ==
    /\ RequireEncryption => identity.channel_secure \/ IsEncrypted(identity.secret)
    /\ IsEncrypted(identity.secret) => RecoverEncryptedPassword(identity.secret)
    /\ identity.secret # "missing"

\* The table entry is there and the request passes the signature check.
Admitted(token, signature_ok) ==
    /\ token \in Live \ ExpiredTokens
    /\ sessions[token].secured => signature_ok

ActivateSessionRejected(token, signature_ok, anonymous, identity) ==
    /\ \/ ~Admitted(token, signature_ok)
       \/ /\ Admitted(token, signature_ok)
          /\ ~sessions[token].activated /\ ~anonymous
          /\ ~UserTokenAccepted(identity)
    /\ sessions' = Without(ExpiredTokens)
    /\ UNCHANGED <<next_token_id, calls>>

ResumeSession(token, signature_ok) ==
    /\ Admitted(token, signature_ok)
    /\ sessions[token].activated
    /\ sessions' = With(Without(ExpiredTokens), token,
                        [sessions[token] EXCEPT !.attached = TRUE,
                            !.expires_in = sessions[token].revised_timeout])
    /\ UNCHANGED <<next_token_id, calls>>

\* The entry of a session that ActivateSession has just activated.
Activated(state, user) ==
    [state EXCEPT !.user = IF user = Anonymous THEN state.user ELSE user,
                  !.activated = TRUE, !.attached = TRUE,
                  !.expires_in = state.revised_timeout]

ActivateAnonymous(token, signature_ok) ==
    /\ Admitted(token, signature_ok)
    /\ ~sessions[token].activated
    /\ sessions' = With(Without(ExpiredTokens), token,
                        Activated(sessions[token], Anonymous))
    /\ UNCHANGED <<next_token_id, calls>>

StartAuthentication(k, peer, token, signature_ok, identity, user, delete_existing) ==
    /\ k \notin DOMAIN calls
    /\ Admitted(token, signature_ok)
    /\ ~sessions[token].activated
    /\ UserTokenAccepted(identity)
    /\ sessions' = Without(ExpiredTokens)
    /\ calls' = With(calls, k, [token |-> token, user |-> user, peer |-> peer,
                                delete_existing |-> delete_existing])
    /\ UNCHANGED next_token_id

(***************************************************************************)
(* ActivateSession, from the authenticator's answer to its return.         *)
(***************************************************************************)
AuthenticationFailed(k) ==
    /\ k \in DOMAIN calls
    /\ EndCall(k)
    /\ UNCHANGED <<sessions, next_token_id>>

\* Defect: the gate is applied to the users it should let through.
AlreadyLoggedOnInverted(k) ==
    /\ k \in DOMAIN calls
    /\ calls[k].user \in MultiSessionUsers
    /\ HasAttachedSessionForUser(calls[k].user)
    /\ ~calls[k].delete_existing

\* The single-session gate refuses the activation.
AlreadyLoggedOn(k) ==
    /\ k \in DOMAIN calls
    /\ calls[k].user \notin MultiSessionUsers
    /\ HasAttachedSessionForUser(calls[k].user)
    /\ ~calls[k].delete_existing

\* Defect: only the detached leftovers are evicted, deleteExisting or not.
EvictedLeftovers(k) ==
    IF calls[k].user \in MultiSessionUsers THEN {}
    ELSE {t \in TokensOfUser(calls[k].user) : ~sessions[t].attached}

\* What the gate evicts once it lets the activation through.
Evicted(k) == IF calls[k].user \in MultiSessionUsers
              THEN {} ELSE TokensOfUser(calls[k].user)

ActivationRefused(k) ==
    /\ AlreadyLoggedOn(k)
    /\ EndCall(k)
    /\ UNCHANGED <<sessions, next_token_id>>

\* The session is gone when it is looked up again after the suspension.
ActivationLost(k) ==
    /\ k \in DOMAIN calls
    /\ ~AlreadyLoggedOn(k)
    /\ calls[k].token \notin Live \ Evicted(k)
    /\ sessions' = Without(Evicted(k))
    /\ EndCall(k)
    /\ UNCHANGED next_token_id

FinishActivation(k) ==
    /\ k \in DOMAIN calls
    /\ ~AlreadyLoggedOn(k)
    /\ calls[k].token \in Live \ Evicted(k)
    /\ sessions' = With(Without(Evicted(k)), calls[k].token,
                        Activated(sessions[calls[k].token], calls[k].user))
    /\ EndCall(k)
    /\ UNCHANGED next_token_id

(***************************************************************************)
(* The remaining operations, and the passing of time.                      *)
(***************************************************************************)
CloseSession(token) ==
    /\ token \in Live
    /\ sessions' = Without({token})
    /\ UNCHANGED <<next_token_id, calls>>

DetachSession(token) ==
    /\ sessions' = [t \in Live |-> IF t = token
                                   THEN [sessions[t] EXCEPT !.attached = FALSE]
                                   ELSE sessions[t]]
    /\ UNCHANGED <<next_token_id, calls>>

Tick ==
    /\ sessions' = [t \in Live |->
                      [sessions[t] EXCEPT !.expires_in =
                          IF sessions[t].expires_in = 0 THEN 0
                          ELSE sessions[t].expires_in - 1]]
    /\ UNCHANGED <<next_token_id, calls>>

ManagerInit ==
    /\ sessions = [t \in {} |-> {}]
    /\ next_token_id = 1
    /\ calls = [k \in {} |-> {}]

ManagerNext ==
    \/ \E channel_secure \in BOOLEAN, certificate \in Certificates,
          requested \in RequestedTimeouts :
          \/ CreateSessionRejected(channel_secure, certificate)
          \/ CreateSession(channel_secure, certificate, requested)
    \/ \E token \in Tokens, signature_ok \in BOOLEAN :
          \/ \E anonymous \in BOOLEAN, identity \in Identities :
                ActivateSessionRejected(token, signature_ok, anonymous,
                                        identity)
          \/ ResumeSession(token, signature_ok)
          \/ ActivateAnonymous(token, signature_ok)
          \/ \E k \in Calls, peer \in Peers, identity \in Identities,
                user \in Users, delete_existing \in BOOLEAN :
                StartAuthentication(k, peer, token, signature_ok, identity,
                                    user, delete_existing)
    \/ \E k \in Calls : \/ AuthenticationFailed(k)
                        \/ ActivationRefused(k)
                        \/ ActivationLost(k)
                        \/ FinishActivation(k)
    \/ \E token \in Tokens : CloseSession(token) \/ DetachSession(token)
    \/ Tick

ManagerSpec == ManagerInit /\ [][ManagerNext]_manager_vars

(***************************************************************************)
(* Properties.                                                             *)
(***************************************************************************)
\* The table and the parked activations keep their shape: every timeout is
\* within the revised limits and tokens come from the counter.
ManagerTypeOK ==
    /\ next_token_id \in 1..(MaxSessions + 1)
    /\ Live \subseteq 1..(next_token_id - 1)
    /\ sessions \in [Live -> SessionState]
    /\ DOMAIN calls \subseteq Calls
    /\ calls \in [DOMAIN calls -> Activation]

\* ActivateSession: "The user is allowed exactly one session, and this
\* activation is about to become it - so nothing else may survive under that
\* identity."  However activations, resumptions and disconnects interleave
\* around Authenticate, a single-session user never has two sessions.
OneSessionPerUser ==
    \A t1, t2 \in Live :
        /\ sessions[t1].user = sessions[t2].user
        /\ sessions[t1].user \in Users \ MultiSessionUsers
        => t1 = t2

\* An unexpired session attached under a single-session user.
Protected(t) == /\ sessions[t].attached
                /\ sessions[t].expires_in > 0
                /\ sessions[t].user \in Users \ MultiSessionUsers

\* The step is a CloseSession naming t, or answers an activation of t's user
\* that asked for deleteExisting.
Requested(t) == \/ CloseSession(t)
                \/ \E k \in DOMAIN calls \ DOMAIN calls' :
                     /\ calls[k].delete_existing
                     /\ calls[k].user = sessions[t].user

\* The single-session gate of ActivateSession, checked only after the
\* authenticator has answered: an unexpired session that is attached under a
\* single-session user goes away only through a CloseSession naming its token
\* or through an activation of that user that asked for deleteExisting.
DisplacedOnlyOnRequest ==
    [][\A t \in Live \ DOMAIN sessions' : Protected(t) => Requested(t)
      ]_manager_vars
=============================================================================
