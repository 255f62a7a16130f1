---------------------------- MODULE ServerProofs ----------------------------
(***************************************************************************)
(* Proofs about the server.  Type correctness of SessionManager and the    *)
(* single-session guarantee; ServerRuntime implements SessionManager, and  *)
(* the sessions, the subscriptions and the owner index of the runtime stay *)
(* consistent with the manager's table, for any number of connections,     *)
(* sessions, users, calls and subscriptions and any timeouts.  The         *)
(* listening servers in front of it, for any number of connections and     *)
(* reopenings: their tasks are counted, and Close leaves them quiet.       *)
(***************************************************************************)
EXTENDS ServerRuntime, ListeningServer, FiniteSetTheorems, TLAPS

(***************************************************************************)
(* SessionManager on its own.                                              *)
(***************************************************************************)
\* A requested timeout is always revised into the configured limits.
LEMMA ReviseTimeoutInRange ==
    ASSUME NEW requested \in Nat
    PROVE  ReviseTimeout(requested) \in MinTimeout..MaxTimeout
  BY SessionManagerAssumption DEF ReviseTimeout

\* Erasing entries keeps a table a table.
LEMMA WithoutType ==
    ASSUME ManagerTypeOK, NEW removed
    PROVE  /\ DOMAIN Without(removed) = Live \ removed
           /\ Without(removed) \in [Live \ removed -> SessionState]
           /\ \A t \in Live \ removed : Without(removed)[t] = sessions[t]
  BY DEF ManagerTypeOK, Without, Live

\* Erasing entries and assigning one keeps the session table a table.
LEMMA AssignType ==
    ASSUME ManagerTypeOK, NEW removed, NEW token, NEW state \in SessionState
    PROVE  LET table == With(Without(removed), token, state)
           IN  /\ DOMAIN table = (Live \ removed) \cup {token}
               /\ table \in [(Live \ removed) \cup {token} -> SessionState]
               /\ table[token] = state
               /\ \A t \in Live \ removed : t # token => table[t] = sessions[t]
  BY DEF ManagerTypeOK, With, Without, Live

\* Parking a request keeps the other suspended activations as they are.
LEMMA ParkType ==
    ASSUME ManagerTypeOK, NEW k, NEW request \in Activation
    PROVE  LET table == With(calls, k, request)
           IN  /\ DOMAIN table = DOMAIN calls \cup {k}
               /\ table \in [DOMAIN calls \cup {k} -> Activation]
               /\ table[k] = request
               /\ \A c \in DOMAIN calls : c # k => table[c] = calls[c]
  BY DEF ManagerTypeOK, With

\* Ending a call leaves the other suspended activations as they are.
LEMMA EndCallType ==
    ASSUME ManagerTypeOK, NEW k, EndCall(k)
    PROVE  /\ DOMAIN calls' = DOMAIN calls \ {k}
           /\ calls' \in [DOMAIN calls' -> Activation]
           /\ DOMAIN calls' \subseteq Calls
  BY DEF ManagerTypeOK, EndCall

\* An activated entry is a session entry again, under the given user.
LEMMA ActivatedType ==
    ASSUME NEW state \in SessionState, NEW user \in Users \cup {Anonymous}
    PROVE  /\ Activated(state, user) \in SessionState
           /\ Activated(state, user).activated
           /\ Activated(state, user).user =
                 IF user = Anonymous THEN state.user ELSE user
<1> DEFINE who == IF user = Anonymous THEN state.user ELSE user
           s1 == [state EXCEPT !.user = who]
           s2 == [s1 EXCEPT !.activated = TRUE]
           s3 == [s2 EXCEPT !.attached = TRUE]
           s4 == [s3 EXCEPT !.expires_in = state.revised_timeout]
<1>0. /\ who \in Users \cup {Anonymous}
      /\ state.revised_timeout \in 0..MaxTimeout
    BY SessionManagerAssumption DEF SessionState
<1> HIDE DEF who
<1>1. s1 \in SessionState /\ s1.user = who
    BY <1>0 DEF SessionState
<1> HIDE DEF s1
<1>2. s2 \in SessionState /\ s2.user = who /\ s2.activated
    BY <1>1 DEF SessionState
<1> HIDE DEF s2
<1>3. s3 \in SessionState /\ s3.user = who /\ s3.activated
    BY <1>2 DEF SessionState
<1> HIDE DEF s3
<1>4. s4 \in SessionState /\ s4.user = who /\ s4.activated
    BY <1>0, <1>3 DEF SessionState
<1> QED
    BY <1>4 DEF s1, s2, s3, who, Activated

\* So is a resumed one, still under its own user.
LEMMA ResumedType ==
    ASSUME NEW state \in SessionState
    PROVE  LET resumed == [state EXCEPT !.attached = TRUE,
                                        !.expires_in = state.revised_timeout]
           IN  /\ resumed \in SessionState
               /\ resumed.user = state.user
               /\ resumed.activated = state.activated
<1> DEFINE s1 == [state EXCEPT !.attached = TRUE]
<1>0. state.revised_timeout \in 0..MaxTimeout
    BY SessionManagerAssumption DEF SessionState
<1>1. s1 \in SessionState /\ s1.user = state.user
      /\ s1.activated = state.activated
    BY DEF SessionState
<1> HIDE DEF s1
<1>2. LET resumed == [s1 EXCEPT !.expires_in = state.revised_timeout]
      IN  /\ resumed \in SessionState
          /\ resumed.user = state.user
          /\ resumed.activated = state.activated
    BY <1>0, <1>1 DEF SessionState
<1> QED
    BY <1>2 DEF s1

(***************************************************************************)
(* Type correctness.                                                       *)
(***************************************************************************)
\* Every step of the manager keeps the table well formed.
LEMMA ManagerTypeStep ==
    ManagerTypeOK /\ [ManagerNext]_manager_vars => ManagerTypeOK'
<1> SUFFICES ASSUME ManagerTypeOK, [ManagerNext]_manager_vars
             PROVE  ManagerTypeOK'
    OBVIOUS
<1> USE SessionManagerAssumption
<1>p. \A removed : /\ Without(removed) \in [Live \ removed -> SessionState]
                   /\ DOMAIN Without(removed) = Live \ removed
    BY WithoutType
<1>t. /\ next_token_id \in 1..(MaxSessions + 1)
      /\ Live \subseteq 1..(next_token_id - 1)
      /\ sessions \in [Live -> SessionState]
      /\ Live = DOMAIN sessions
      /\ DOMAIN calls \subseteq Calls
      /\ calls \in [DOMAIN calls -> Activation]
    BY DEF ManagerTypeOK, Live
<1>1. ASSUME NEW channel_secure, NEW certificate,
             CreateSessionRejected(channel_secure, certificate)
      PROVE  ManagerTypeOK'
    BY <1>1, <1>p, <1>t DEF CreateSessionRejected, ManagerTypeOK, Live
<1>2. ASSUME NEW channel_secure, NEW certificate \in Certificates,
             NEW requested \in RequestedTimeouts,
             CreateSession(channel_secure, certificate, requested)
      PROVE  ManagerTypeOK'
  <2> DEFINE timeout == ReviseTimeout(requested)
             state == [secured |-> certificate # "none",
                       revised_timeout |-> timeout,
                       expires_in |-> timeout, user |-> Anonymous,
                       activated |-> FALSE, attached |-> FALSE]
             rest == Live \ ExpiredTokens
  <2>1. timeout \in MinTimeout..MaxTimeout
      BY ReviseTimeoutInRange
  <2>2. state \in SessionState
      BY <2>1 DEF SessionState
  <2>3. sessions' = With(Without(ExpiredTokens), next_token_id, state)
      BY <1>2 DEF CreateSession
  <2>4. /\ DOMAIN sessions' = rest \cup {next_token_id}
        /\ sessions' \in [rest \cup {next_token_id} -> SessionState]
      BY <2>2, <2>3, AssignType
  <2>5. next_token_id' = next_token_id + 1 /\ next_token_id <= MaxSessions
        /\ UNCHANGED calls
      BY <1>2 DEF CreateSession
  <2> QED
      BY <2>4, <2>5, <1>t DEF ManagerTypeOK, Live
<1>3. ASSUME NEW token, NEW signature_ok, NEW anonymous, NEW identity,
             ActivateSessionRejected(token, signature_ok, anonymous,
                                     identity)
      PROVE  ManagerTypeOK'
    BY <1>3, <1>p, <1>t DEF ActivateSessionRejected, ManagerTypeOK, Live
<1>4. ASSUME NEW token, NEW signature_ok, ResumeSession(token, signature_ok)
      PROVE  ManagerTypeOK'
  <2> DEFINE state == [sessions[token] EXCEPT !.attached = TRUE,
                          !.expires_in = sessions[token].revised_timeout]
             rest == Live \ ExpiredTokens
  <2>1. token \in rest /\ sessions' = With(Without(ExpiredTokens), token, state)
        /\ UNCHANGED <<next_token_id, calls>>
      BY <1>4 DEF ResumeSession, Admitted
  <2>2. state \in SessionState
      BY <2>1, <1>t, ResumedType
  <2>3. /\ DOMAIN sessions' = rest \cup {token}
        /\ sessions' \in [rest \cup {token} -> SessionState]
      BY <2>1, <2>2, AssignType
  <2> QED
      BY <2>1, <2>3, <1>t DEF ManagerTypeOK, Live
<1>5. ASSUME NEW token, NEW signature_ok, ActivateAnonymous(token, signature_ok)
      PROVE  ManagerTypeOK'
  <2> DEFINE state == Activated(sessions[token], Anonymous)
             rest == Live \ ExpiredTokens
  <2>1. token \in rest /\ sessions' = With(Without(ExpiredTokens), token, state)
        /\ UNCHANGED <<next_token_id, calls>>
      BY <1>5 DEF ActivateAnonymous, Admitted
  <2>2. state \in SessionState
      BY <2>1, <1>t, ActivatedType
  <2>3. /\ DOMAIN sessions' = rest \cup {token}
        /\ sessions' \in [rest \cup {token} -> SessionState]
      BY <2>1, <2>2, AssignType
  <2> QED
      BY <2>1, <2>3, <1>t DEF ManagerTypeOK, Live
<1>6. ASSUME NEW k \in Calls, NEW peer \in Peers, NEW token \in Tokens,
             NEW signature_ok, NEW identity, NEW user \in Users,
             NEW delete_existing \in BOOLEAN,
             StartAuthentication(k, peer, token, signature_ok, identity, user,
                                 delete_existing)
      PROVE  ManagerTypeOK'
  <2> DEFINE request == [token |-> token, user |-> user, peer |-> peer,
                         delete_existing |-> delete_existing]
  <2>1. request \in Activation
      BY DEF Activation
  <2>2. /\ sessions' = Without(ExpiredTokens)
        /\ calls' = With(calls, k, request)
        /\ UNCHANGED next_token_id
      BY <1>6 DEF StartAuthentication
  <2>3. /\ DOMAIN calls' = DOMAIN calls \cup {k}
        /\ calls' \in [DOMAIN calls \cup {k} -> Activation]
      BY <2>1, <2>2, ParkType
  <2> QED
      BY <2>2, <2>3, <1>p, <1>t DEF ManagerTypeOK, Live
<1>7. ASSUME NEW k, AuthenticationFailed(k) \/ ActivationRefused(k)
      PROVE  ManagerTypeOK'
    BY <1>7, <1>t, EndCallType
    DEF AuthenticationFailed, ActivationRefused, ManagerTypeOK, Live
<1>8. ASSUME NEW k, ActivationLost(k)
      PROVE  ManagerTypeOK'
    BY <1>8, <1>p, <1>t, EndCallType DEF ActivationLost, ManagerTypeOK, Live
<1>9. ASSUME NEW k, FinishActivation(k)
      PROVE  ManagerTypeOK'
  <2> DEFINE token == calls[k].token
             state == Activated(sessions[token], calls[k].user)
             rest == Live \ Evicted(k)
  <2>1. /\ k \in DOMAIN calls /\ token \in rest
        /\ sessions' = With(Without(Evicted(k)), token, state)
        /\ EndCall(k) /\ UNCHANGED next_token_id
      BY <1>9 DEF FinishActivation
  <2>a. calls[k].user \in Users \cup {Anonymous} /\ sessions[token] \in SessionState
      BY <2>1, <1>t DEF Activation
  <2>2. state \in SessionState
      BY <2>a, ActivatedType
  <2> HIDE DEF state, token
  <2>3. /\ DOMAIN sessions' = rest \cup {token}
        /\ sessions' \in [rest \cup {token} -> SessionState]
      BY <2>1, <2>2, AssignType
  <2> QED
      BY <2>1, <2>3, <1>t, EndCallType DEF ManagerTypeOK, Live
<1>10. ASSUME NEW token, CloseSession(token)
       PROVE  ManagerTypeOK'
    BY <1>10, <1>p, <1>t DEF CloseSession, ManagerTypeOK, Live
<1>11. ASSUME NEW token, DetachSession(token)
       PROVE  ManagerTypeOK'
    BY <1>11, <1>t DEF DetachSession, ManagerTypeOK, Live, SessionState
<1>12. CASE Tick
  <2> DEFINE left(t) == IF sessions[t].expires_in = 0 THEN 0
                        ELSE sessions[t].expires_in - 1
  <2>1. \A t \in Live : /\ left(t) \in 0..MaxTimeout
                        /\ [sessions[t] EXCEPT !.expires_in = left(t)] \in SessionState
      BY <1>t DEF SessionState
  <2>2. /\ sessions' = [t \in Live |-> [sessions[t] EXCEPT !.expires_in = left(t)]]
        /\ UNCHANGED <<next_token_id, calls>>
      BY <1>12 DEF Tick
  <2> HIDE DEF left
  <2> QED
      BY <2>1, <2>2, <1>t DEF ManagerTypeOK, Live
<1>13. CASE UNCHANGED manager_vars
    BY <1>13, <1>t DEF manager_vars, ManagerTypeOK, Live
<1> QED
    BY <1>1, <1>2, <1>3, <1>4, <1>5, <1>6, <1>7, <1>8, <1>9, <1>10, <1>11,
       <1>12, <1>13 DEF ManagerNext

\* server_session_manager.cpp: the session table and the parked activations
\* are well formed in every reachable state.
THEOREM ManagerTypeCorrect == ManagerSpec => []ManagerTypeOK
<1>1. ManagerInit => ManagerTypeOK
    BY SessionManagerAssumption DEF ManagerInit, ManagerTypeOK, Live
<1> QED
    BY <1>1, ManagerTypeStep, PTL DEF ManagerSpec

(***************************************************************************)
(* One session per single-session user.                                    *)
(***************************************************************************)
\* Erasing sessions cannot create a second one for a user.
LEMMA EraseKeepsOne ==
    ASSUME ManagerTypeOK, OneSessionPerUser, NEW removed,
           sessions' = Without(removed)
    PROVE  OneSessionPerUser'
<1>1. /\ Live' = Live \ removed
      /\ \A t \in Live' : sessions'[t] = sessions[t]
    BY WithoutType DEF Live
<1> QED
    BY <1>1 DEF OneSessionPerUser, Live

\* Neither can a step that keeps the table's domain and every user in it.
LEMMA UpdateKeepsOne ==
    ASSUME OneSessionPerUser, Live' = Live,
           \A t \in Live : sessions'[t].user = sessions[t].user
    PROVE  OneSessionPerUser'
  BY DEF OneSessionPerUser, Live

\* Assigning an entry is safe when its user is not restricted, is the one the
\* entry already had, or has no other session left.
LEMMA AssignKeepsOne ==
    ASSUME ManagerTypeOK, OneSessionPerUser, NEW removed, NEW token,
           NEW state \in SessionState,
           sessions' = With(Without(removed), token, state),
           \/ state.user \notin Users \ MultiSessionUsers
           \/ token \in Live /\ sessions[token].user = state.user
           \/ \A t \in Live \ removed : sessions[t].user # state.user
    PROVE  OneSessionPerUser'
<1> DEFINE table == With(Without(removed), token, state)
<1>0. /\ DOMAIN table = (Live \ removed) \cup {token}
      /\ table[token] = state
      /\ \A t \in Live \ removed : t # token => table[t] = sessions[t]
    BY DEF With, Without, Live, ManagerTypeOK
<1>a. sessions' = table
    OBVIOUS
<1> HIDE DEF table
<1>1. /\ Live' = (Live \ removed) \cup {token}
      /\ sessions'[token] = state
      /\ \A t \in Live \ removed : t # token => sessions'[t] = sessions[t]
    BY <1>0, <1>a DEF Live
<1> SUFFICES ASSUME NEW t1 \in Live', NEW t2 \in Live',
                    sessions'[t1].user = sessions'[t2].user,
                    sessions'[t1].user \in Users \ MultiSessionUsers
             PROVE  t1 = t2
    BY DEF OneSessionPerUser
<1>2. CASE t1 # token /\ t2 # token
    BY <1>1, <1>2 DEF OneSessionPerUser
<1>3. CASE t1 = token /\ t2 # token
    BY <1>1, <1>3 DEF OneSessionPerUser
<1>4. CASE t1 # token /\ t2 = token
    BY <1>1, <1>4 DEF OneSessionPerUser
<1> QED
    BY <1>2, <1>3, <1>4

\* Every step of the manager keeps single-session users single.
LEMMA OneSessionStep ==
    ManagerTypeOK /\ OneSessionPerUser /\ [ManagerNext]_manager_vars
        => OneSessionPerUser'
<1> SUFFICES ASSUME ManagerTypeOK, OneSessionPerUser,
                    [ManagerNext]_manager_vars
             PROVE  OneSessionPerUser'
    OBVIOUS
<1> USE SessionManagerAssumption
<1>t. /\ sessions \in [Live -> SessionState]
      /\ calls \in [DOMAIN calls -> Activation]
    BY DEF ManagerTypeOK
<1>1. ASSUME NEW channel_secure, NEW certificate,
             CreateSessionRejected(channel_secure, certificate)
      PROVE  OneSessionPerUser'
    BY <1>1, EraseKeepsOne DEF CreateSessionRejected
<1>2. ASSUME NEW channel_secure, NEW certificate \in Certificates,
             NEW requested \in RequestedTimeouts,
             CreateSession(channel_secure, certificate, requested)
      PROVE  OneSessionPerUser'
  <2> DEFINE state == [secured |-> certificate # "none",
                       revised_timeout |-> ReviseTimeout(requested),
                       expires_in |-> ReviseTimeout(requested),
                       user |-> Anonymous,
                       activated |-> FALSE, attached |-> FALSE]
  <2>1. ReviseTimeout(requested) \in MinTimeout..MaxTimeout
      BY ReviseTimeoutInRange
  <2>2. state \in SessionState /\ state.user \notin Users \ MultiSessionUsers
      BY <2>1 DEF SessionState
  <2>3. sessions' = With(Without(ExpiredTokens), next_token_id, state)
      BY <1>2 DEF CreateSession
  <2> HIDE DEF state
  <2> QED
      BY <2>2, <2>3, AssignKeepsOne
<1>3. ASSUME NEW token, NEW signature_ok, NEW anonymous, NEW identity,
             ActivateSessionRejected(token, signature_ok, anonymous,
                                     identity)
      PROVE  OneSessionPerUser'
    BY <1>3, EraseKeepsOne DEF ActivateSessionRejected
<1>4. ASSUME NEW token, NEW signature_ok, ResumeSession(token, signature_ok)
      PROVE  OneSessionPerUser'
  <2> DEFINE state == [sessions[token] EXCEPT !.attached = TRUE,
                          !.expires_in = sessions[token].revised_timeout]
  <2>1. token \in Live /\ sessions' = With(Without(ExpiredTokens), token, state)
      BY <1>4 DEF ResumeSession, Admitted
  <2>2. state \in SessionState /\ state.user = sessions[token].user
      BY <2>1, <1>t, ResumedType
  <2> HIDE DEF state
  <2> QED
      BY <2>1, <2>2, AssignKeepsOne
<1>5. ASSUME NEW token, NEW signature_ok, ActivateAnonymous(token, signature_ok)
      PROVE  OneSessionPerUser'
  <2> DEFINE state == Activated(sessions[token], Anonymous)
  <2>1. token \in Live /\ sessions' = With(Without(ExpiredTokens), token, state)
      BY <1>5 DEF ActivateAnonymous, Admitted
  <2>2. state \in SessionState /\ state.user = sessions[token].user
      BY <2>1, <1>t, ActivatedType
  <2> HIDE DEF state
  <2> QED
      BY <2>1, <2>2, AssignKeepsOne
<1>6. ASSUME NEW k, NEW peer, NEW token, NEW signature_ok, NEW identity, NEW user,
             NEW delete_existing,
             StartAuthentication(k, peer, token, signature_ok, identity, user,
                                 delete_existing)
      PROVE  OneSessionPerUser'
    BY <1>6, EraseKeepsOne DEF StartAuthentication
<1>7. ASSUME NEW k, AuthenticationFailed(k) \/ ActivationRefused(k)
      PROVE  OneSessionPerUser'
    BY <1>7, UpdateKeepsOne DEF AuthenticationFailed, ActivationRefused, Live
<1>8. ASSUME NEW k, ActivationLost(k)
      PROVE  OneSessionPerUser'
    BY <1>8, EraseKeepsOne DEF ActivationLost
<1>9. ASSUME NEW k, FinishActivation(k)
      PROVE  OneSessionPerUser'
  <2> DEFINE token == calls[k].token
             user == calls[k].user
             state == Activated(sessions[token], user)
  <2>1. /\ k \in DOMAIN calls /\ token \in Live
        /\ sessions' = With(Without(Evicted(k)), token, state)
      BY <1>9 DEF FinishActivation
  <2>2. user \in Users /\ user # Anonymous /\ sessions[token] \in SessionState
      BY <2>1, <1>t DEF Activation
  <2>3. Evicted(k) = IF user \in MultiSessionUsers THEN {}
                     ELSE {t \in Live : sessions[t].user = user}
      BY DEF Evicted, TokensOfUser
  <2> HIDE DEF user, token
  <2>4. state \in SessionState /\ state.user = user
      BY <2>2, ActivatedType
  <2>5. \/ state.user \notin Users \ MultiSessionUsers
        \/ \A t \in Live \ Evicted(k) : sessions[t].user # state.user
      BY <2>2, <2>3, <2>4
  <2> HIDE DEF state
  <2> QED
      BY <2>1, <2>4, <2>5, AssignKeepsOne
<1>10. ASSUME NEW token, CloseSession(token)
       PROVE  OneSessionPerUser'
    BY <1>10, EraseKeepsOne DEF CloseSession
<1>11. ASSUME NEW token, DetachSession(token)
       PROVE  OneSessionPerUser'
  <2>1. Live' = Live /\ \A t \in Live : sessions'[t].user = sessions[t].user
      BY <1>11, <1>t DEF DetachSession, Live, SessionState
  <2> QED
      BY <2>1, UpdateKeepsOne
<1>12. ASSUME Tick
       PROVE  OneSessionPerUser'
  <2>1. Live' = Live /\ \A t \in Live : sessions'[t].user = sessions[t].user
      BY <1>12, <1>t DEF Tick, Live, SessionState
  <2> QED
      BY <2>1, UpdateKeepsOne
<1>13. ASSUME UNCHANGED manager_vars
       PROVE  OneSessionPerUser'
    BY <1>13 DEF manager_vars, OneSessionPerUser, Live
<1> QED
    BY <1>1, <1>2, <1>3, <1>4, <1>5, <1>6, <1>7, <1>8, <1>9, <1>10, <1>11,
       <1>12, <1>13 DEF ManagerNext

\* ServerSessionManager::ActivateSession: whatever runs while an activation
\* waits for the authenticator, a single-session user has at most one session.
THEOREM SingleSession == ManagerSpec => []OneSessionPerUser
<1>1. ManagerInit => ManagerTypeOK /\ OneSessionPerUser
    BY SessionManagerAssumption
    DEF ManagerInit, ManagerTypeOK, OneSessionPerUser, Live
<1> QED
    BY <1>1, ManagerTypeStep, OneSessionStep, PTL DEF ManagerSpec

(***************************************************************************)
(* The single-session gate.                                                *)
(***************************************************************************)
\* Answering an activation erases a protected session only if it was asked to.
LEMMA EvictionIsRequested ==
    ASSUME ManagerTypeOK, NEW k, ActivationLost(k) \/ FinishActivation(k),
           NEW t \in Live \ DOMAIN sessions', Protected(t)
    PROVE  Requested(t)
<1>1. k \in DOMAIN calls /\ ~AlreadyLoggedOn(k) /\ EndCall(k)
    BY DEF ActivationLost, FinishActivation
<1>2. t \in Evicted(k)
  <2>1. CASE ActivationLost(k)
      BY <2>1 DEF ActivationLost, Without, Live
  <2>2. CASE FinishActivation(k)
      BY <2>2 DEF FinishActivation, With, Without, Live
  <2> QED
      BY <2>1, <2>2
<1>3. sessions[t].user = calls[k].user /\ calls[k].user \notin MultiSessionUsers
    BY <1>2 DEF Evicted, TokensOfUser, Protected
<1>4. HasAttachedSessionForUser(calls[k].user)
    BY <1>3 DEF HasAttachedSessionForUser, TokensOfUser, Protected
<1>5. calls[k].delete_existing
    BY <1>1, <1>3, <1>4 DEF AlreadyLoggedOn
<1>6. k \notin DOMAIN calls'
    BY <1>1 DEF EndCall
<1> QED
    BY <1>1, <1>3, <1>5, <1>6 DEF Requested

\* ServerSessionManager::ActivateSession: a session that a single-session user
\* holds attached disappears before its expiry only by request.
THEOREM GateProtectsAttached == ManagerSpec => DisplacedOnlyOnRequest
<1>1. ASSUME ManagerTypeOK, [ManagerNext]_manager_vars
      PROVE  [\A t \in Live \ DOMAIN sessions' : Protected(t) => Requested(t)
             ]_manager_vars
  <2> SUFFICES ASSUME ManagerNext, NEW t \in Live \ DOMAIN sessions',
                      Protected(t)
               PROVE  Requested(t)
      BY <1>1
  <2>a. t \notin ExpiredTokens
      BY DEF ExpiredTokens, Protected
  <2>b. sessions' # Without(ExpiredTokens)
      BY <2>a DEF Without, Live
  <2>c. ASSUME NEW token, NEW state,
               sessions' = With(Without(ExpiredTokens), token, state)
        PROVE  FALSE
      BY <2>a, <2>c DEF With, Without, Live
  <2>d. DOMAIN sessions' # Live
      OBVIOUS
  <2>1. ASSUME NEW channel_secure, NEW certificate, NEW requested,
               CreateSession(channel_secure, certificate, requested)
        PROVE  FALSE
      BY <2>1, <2>c DEF CreateSession
  <2>2. ASSUME NEW token, NEW signature_ok,
               \/ ResumeSession(token, signature_ok)
               \/ ActivateAnonymous(token, signature_ok)
        PROVE  FALSE
      BY <2>2, <2>c DEF ResumeSession, ActivateAnonymous
  <2>3. ASSUME NEW k \in Calls,
               \/ AuthenticationFailed(k)
               \/ ActivationRefused(k)
        PROVE  FALSE
      BY <2>3, <2>d DEF AuthenticationFailed, ActivationRefused, Live
  <2>4. ASSUME NEW token, CloseSession(token)
        PROVE  Requested(t)
    <3>1. token = t
        BY <2>4 DEF CloseSession, Without, Live
    <3> QED
        BY <3>1, <2>4 DEF Requested
  <2>5. ASSUME NEW token, DetachSession(token)
        PROVE  FALSE
      BY <2>5, <2>d DEF DetachSession
  <2>6. ~Tick
      BY <2>d DEF Tick
  <2>7. ASSUME NEW k, ActivationLost(k) \/ FinishActivation(k)
        PROVE  Requested(t)
      BY <1>1, <2>7, EvictionIsRequested
  <2>8. ASSUME NEW channel_secure, NEW certificate,
               CreateSessionRejected(channel_secure, certificate)
        PROVE  FALSE
      BY <2>8, <2>b DEF CreateSessionRejected
  <2>9. ASSUME NEW token, NEW signature_ok, NEW anonymous, NEW identity,
               ActivateSessionRejected(token, signature_ok, anonymous,
                                       identity)
        PROVE  FALSE
      BY <2>9, <2>b DEF ActivateSessionRejected
  <2>10. ASSUME NEW k, NEW peer, NEW token, NEW signature_ok, NEW identity, NEW user,
                NEW delete_existing,
                StartAuthentication(k, peer, token, signature_ok, identity, user,
                                    delete_existing)
         PROVE  FALSE
      BY <2>10, <2>b DEF StartAuthentication
  <2> QED
      BY <2>1, <2>2, <2>3, <2>4, <2>5, <2>6, <2>7, <2>8, <2>9, <2>10
      DEF ManagerNext
<1> QED
    BY <1>1, ManagerTypeCorrect, PTL DEF ManagerSpec, DisplacedOnlyOnRequest

(***************************************************************************)
(* The runtime drives the manager through its own operations only.         *)
(***************************************************************************)
LEMMA RuntimeStepIsManagerStep ==
    ASSUME TypeOK, [Next]_vars
    PROVE  [ManagerNext]_manager_vars
<1>1. ASSUME NEW c \in Peers, SessionRequest(c)
      PROVE  [ManagerNext]_manager_vars
  <2>1. ASSUME NEW certificate \in Certificates,
               NEW requested \in RequestedTimeouts,
               HandleCreateSession(c, certificate, requested)
        PROVE  ManagerNext
    <3>1. (c \in SecureChannels) \in BOOLEAN
        OBVIOUS
    <3> QED
        BY <2>1, <3>1 DEF HandleCreateSession, ManagerNext
  <2>2. ASSUME NEW token \in Tokens, NEW signature_ok \in BOOLEAN,
               NEW anonymous \in BOOLEAN, NEW secret \in Secrets,
               HandleActivateRejected(c, token, signature_ok, anonymous,
                                      secret)
        PROVE  ManagerNext
    <3>1. IdentityOver(c, secret) \in Identities
        BY DEF IdentityOver, Identities
    <3> QED
        BY <2>2, <3>1 DEF HandleActivateRejected, ManagerNext
  <2>3. ASSUME NEW token \in Tokens, NEW signature_ok \in BOOLEAN,
               \/ HandleResume(c, token, signature_ok)
               \/ HandleActivateAnonymous(c, token, signature_ok)
        PROVE  ManagerNext
      BY <2>3 DEF HandleResume, HandleActivateAnonymous, ManagerNext
  <2>4. ASSUME NEW token \in Tokens, NEW signature_ok \in BOOLEAN,
               NEW k \in Calls, NEW secret \in Secrets, NEW user \in Users,
               NEW delete_existing \in BOOLEAN,
               HandleActivateUser(k, c, token, signature_ok, secret, user,
                                  delete_existing)
        PROVE  ManagerNext
    <3>1. IdentityOver(c, secret) \in Identities
        BY DEF IdentityOver, Identities
    <3> QED
        BY <2>4, <3>1 DEF HandleActivateUser, ManagerNext
  <2>5. ASSUME NEW token \in Tokens, HandleCloseSession(c, token)
        PROVE  [ManagerNext]_manager_vars
      BY <2>5 DEF HandleCloseSession, ManagerNext
  <2> QED
      BY <1>1, <2>1, <2>2, <2>3, <2>4, <2>5 DEF SessionRequest
<1>2. ASSUME NEW c \in Peers, SubscriptionRequest(c)
      PROVE  UNCHANGED manager_vars
    BY <1>2 DEF SubscriptionRequest, HandleCreateSubscription,
                HandleDeleteSubscriptions, HandleTransferSubscriptions
<1>3. ASSUME NEW c \in Peers, Detach(c)
      PROVE  [ManagerNext]_manager_vars
    BY <1>3 DEF Detach, TypeOK, ManagerNext
<1>4. ASSUME NEW c \in Peers, Transport(c)
      PROVE  [ManagerNext]_manager_vars
    BY <1>3, <1>4 DEF Transport, Accept, WebSocketLost, BinaryLost,
                      BinaryDrained
<1>5. ASSUME NEW k \in Calls, HandleActivateFailed(k) \/ HandleActivateDone(k)
      PROVE  ManagerNext
    BY <1>5 DEF HandleActivateFailed, HandleActivateDone, ManagerNext
<1>6. ASSUME TimePasses
      PROVE  ManagerNext
    BY <1>6 DEF TimePasses, ManagerNext
<1>7. ASSUME UNCHANGED vars
      PROVE  UNCHANGED manager_vars
    BY <1>7 DEF vars, manager_vars
<1> QED
    BY <1>1, <1>2, <1>4, <1>5, <1>6, <1>7 DEF Next

(***************************************************************************)
(* The effect of ForgetSessions on the runtime's own tables.               *)
(***************************************************************************)
LEMMA ForgetKeepsTables ==
    ASSUME TypeOK, OwnersAreLive, HeldIsIndexed,
           NEW removed, NEW created \in SUBSET Tokens,
           created \cap removed = {}, ForgetSessions(removed, created)
    PROVE  /\ runtime_sessions' \subseteq Tokens
           /\ subscriptions' \in [Tokens -> SUBSET SubscriptionIds]
           /\ subscription_owners' \in [SubscriptionIds -> Tokens \cup {NoToken}]
           /\ next_subscription_id' = next_subscription_id
           /\ OwnersAreLive'
           /\ HeldIsIndexed'
           /\ \A s \in SubscriptionIds : subscription_owners[s] = NoToken
                                           => subscription_owners'[s] = NoToken
<1>1. /\ runtime_sessions' = (runtime_sessions \ removed) \cup created
      /\ \A t \in Tokens : subscriptions'[t] =
            IF t \in removed \cup created THEN {} ELSE subscriptions[t]
      /\ \A s \in SubscriptionIds : subscription_owners'[s] =
            IF subscription_owners[s] \in removed
            THEN NoToken ELSE subscription_owners[s]
      /\ next_subscription_id' = next_subscription_id
    BY DEF ForgetSessions
<1>2. /\ subscriptions' \in [Tokens -> SUBSET SubscriptionIds]
      /\ subscription_owners' \in [SubscriptionIds -> Tokens \cup {NoToken}]
      /\ runtime_sessions' \subseteq Tokens
    BY DEF ForgetSessions, TypeOK
<1>3. OwnersAreLive'
    BY <1>1 DEF OwnersAreLive
<1>4. HeldIsIndexed'
    BY <1>1 DEF HeldIsIndexed, TypeOK
<1>5. \A s \in SubscriptionIds : subscription_owners[s] = NoToken
                                   => subscription_owners'[s] = NoToken
    BY <1>1
<1> QED
    BY <1>1, <1>2, <1>3, <1>4, <1>5

(***************************************************************************)
(* What each manager step does to the set of activated sessions.           *)
(***************************************************************************)
ActivatedTokens == {t \in Live : sessions[t].activated}

\* Erasing sessions removes them from the activated ones.
LEMMA EraseActivated ==
    ASSUME ManagerTypeOK, NEW removed, sessions' = Without(removed)
    PROVE  ActivatedTokens' = ActivatedTokens \ removed
  BY DEF ActivatedTokens, Without, Live, ManagerTypeOK

\* One entry is assigned after the erasure: the shape of the new table.
LEMMA AssignTable ==
    ASSUME ManagerTypeOK, NEW removed, NEW token, NEW state,
           sessions' = With(Without(removed), token, state)
    PROVE  /\ DOMAIN sessions' = (Live \ removed) \cup {token}
           /\ sessions'[token] = state
           /\ \A t \in Live \ removed : t # token => sessions'[t] = sessions[t]
  BY DEF With, Without, Live, ManagerTypeOK

\* A step that keeps the domain and every activated flag.
LEMMA UpdateActivated ==
    ASSUME DOMAIN sessions' = DOMAIN sessions,
           \A t \in Live : sessions'[t].activated = sessions[t].activated
    PROVE  ActivatedTokens' = ActivatedTokens
  BY DEF ActivatedTokens, Live

(***************************************************************************)
(* The inductive invariant, one lemma per shape of step.                   *)
(***************************************************************************)
\* Connections may be unbound, or bound to a session that is activated.
Rebinds(token) ==
    /\ connection_token' \in [Peers -> Tokens \cup {NoToken}]
    /\ \A c \in Peers : connection_token'[c] \in {connection_token[c], NoToken, token}

\* Sessions are removed and reported, and nothing else changes in the table.
LEMMA EraseStep ==
    ASSUME RuntimeInvariant, ManagerTypeOK', NEW removed,
           sessions' = Without(removed), next_token_id' = next_token_id,
           ForgetSessions(removed, {}), phase' \in [Peers -> Phases],
           Rebinds(NoToken)
    PROVE  RuntimeInvariant'
<1>1. /\ runtime_sessions' \subseteq Tokens
      /\ subscriptions' \in [Tokens -> SUBSET SubscriptionIds]
      /\ subscription_owners' \in [SubscriptionIds -> Tokens \cup {NoToken}]
      /\ next_subscription_id' = next_subscription_id
      /\ OwnersAreLive'
      /\ HeldIsIndexed'
      /\ \A s \in SubscriptionIds : subscription_owners[s] = NoToken
                                      => subscription_owners'[s] = NoToken
    BY ForgetKeepsTables DEF RuntimeInvariant
<1>2. RuntimeMirrorsManager'
  <2>1. ActivatedTokens' = ActivatedTokens \ removed
      BY EraseActivated DEF RuntimeInvariant, TypeOK
  <2>2. runtime_sessions' = runtime_sessions \ removed
      BY DEF ForgetSessions
  <2> QED
      BY <2>1, <2>2 DEF RuntimeInvariant, RuntimeMirrorsManager, ActivatedTokens
<1>3. BoundIsActivated'
  <2>1. Live' = Live \ removed /\ \A t \in Live' : sessions'[t] = sessions[t]
      BY DEF Without, Live
  <2>2. NoToken \notin Live
      BY DEF RuntimeInvariant, TypeOK, ManagerTypeOK, NoToken
  <2> QED
      BY <2>1, <2>2 DEF RuntimeInvariant, BoundIsActivated, Rebinds
<1>4. \A c \in Peers : connection_token'[c] < next_token_id'
    BY SessionManagerAssumption
    DEF RuntimeInvariant, Rebinds, NoToken, TypeOK, ManagerTypeOK
<1>5. \A s \in next_subscription_id'..MaxSubscriptions :
         subscription_owners'[s] = NoToken
    BY <1>1, ServerRuntimeAssumption
    DEF RuntimeInvariant, SubscriptionIds, TypeOK
<1> QED
    BY <1>1, <1>2, <1>3, <1>4, <1>5 DEF RuntimeInvariant, TypeOK, Rebinds

\* A session is (re)activated: its entry is assigned, and either its
\* ServerSession is created or it has one.
LEMMA ActivateStep ==
    ASSUME RuntimeInvariant, ManagerTypeOK', NEW removed,
           NEW token \in Live \ removed, NEW state, state.activated = TRUE,
           NEW created \in SUBSET {token},
           created = {token} \/ token \in runtime_sessions,
           sessions' = With(Without(removed), token, state),
           next_token_id' = next_token_id,
           ForgetSessions(removed, created), phase' \in [Peers -> Phases],
           Rebinds(token)
    PROVE  RuntimeInvariant'
<1>0. token \in Tokens /\ token < next_token_id
    BY SessionManagerAssumption
    DEF RuntimeInvariant, TypeOK, ManagerTypeOK, Tokens
<1>1. /\ runtime_sessions' \subseteq Tokens
      /\ subscriptions' \in [Tokens -> SUBSET SubscriptionIds]
      /\ subscription_owners' \in [SubscriptionIds -> Tokens \cup {NoToken}]
      /\ next_subscription_id' = next_subscription_id
      /\ OwnersAreLive'
      /\ HeldIsIndexed'
      /\ \A s \in SubscriptionIds : subscription_owners[s] = NoToken
                                      => subscription_owners'[s] = NoToken
  <2>1. created \in SUBSET Tokens /\ created \cap removed = {}
      BY <1>0
  <2> QED
      BY <2>1, ForgetKeepsTables DEF RuntimeInvariant
<1>2. RuntimeMirrorsManager'
  <2>1. ActivatedTokens' = (ActivatedTokens \ removed) \cup {token}
    <3>1. /\ DOMAIN sessions' = (Live \ removed) \cup {token}
          /\ sessions'[token] = state
          /\ \A t \in Live \ removed : t # token => sessions'[t] = sessions[t]
        BY AssignTable DEF RuntimeInvariant, TypeOK
    <3> QED
        BY <3>1 DEF ActivatedTokens, Live
  <2>2. runtime_sessions' = (runtime_sessions \ removed) \cup {token}
      BY DEF ForgetSessions
  <2> QED
      BY <2>1, <2>2 DEF RuntimeInvariant, RuntimeMirrorsManager, ActivatedTokens
<1>3. BoundIsActivated'
  <2>1. /\ Live' = Live \ removed
        /\ \A t \in Live' : t # token => sessions'[t] = sessions[t]
        /\ sessions'[token].activated
      BY DEF Without, With, Live
  <2>2. NoToken \notin Live
      BY DEF RuntimeInvariant, TypeOK, ManagerTypeOK, NoToken
  <2> QED
      BY <2>1, <2>2 DEF RuntimeInvariant, BoundIsActivated, Rebinds
<1>4. \A c \in Peers : connection_token'[c] < next_token_id'
    BY <1>0, SessionManagerAssumption
    DEF RuntimeInvariant, Rebinds, NoToken, TypeOK, ManagerTypeOK
<1>5. \A s \in next_subscription_id'..MaxSubscriptions :
         subscription_owners'[s] = NoToken
    BY <1>1, ServerRuntimeAssumption
    DEF RuntimeInvariant, SubscriptionIds, TypeOK
<1> QED
    BY <1>1, <1>2, <1>3, <1>4, <1>5 DEF RuntimeInvariant, TypeOK, Rebinds

\* A session is created: its token is fresh, so nothing is bound to it yet.
LEMMA CreateStep ==
    ASSUME RuntimeInvariant, ManagerTypeOK', NEW removed,
           NEW state, state.activated = FALSE,
           sessions' = With(Without(removed), next_token_id, state),
           next_token_id' = next_token_id + 1,
           ForgetSessions(removed, {}), UNCHANGED <<phase, connection_token>>
    PROVE  RuntimeInvariant'
<1>0. next_token_id \notin Live /\ next_token_id \in Nat
    BY SessionManagerAssumption DEF RuntimeInvariant, TypeOK, ManagerTypeOK
<1>1. /\ runtime_sessions' \subseteq Tokens
      /\ subscriptions' \in [Tokens -> SUBSET SubscriptionIds]
      /\ subscription_owners' \in [SubscriptionIds -> Tokens \cup {NoToken}]
      /\ next_subscription_id' = next_subscription_id
      /\ OwnersAreLive'
      /\ HeldIsIndexed'
      /\ \A s \in SubscriptionIds : subscription_owners[s] = NoToken
                                      => subscription_owners'[s] = NoToken
    BY ForgetKeepsTables DEF RuntimeInvariant
<1>2. RuntimeMirrorsManager'
  <2>1. ActivatedTokens' = ActivatedTokens \ removed
    <3>1. /\ DOMAIN sessions' = (Live \ removed) \cup {next_token_id}
          /\ sessions'[next_token_id] = state
          /\ \A t \in Live \ removed :
                t # next_token_id => sessions'[t] = sessions[t]
        BY AssignTable DEF RuntimeInvariant, TypeOK
    <3> QED
        BY <3>1, <1>0 DEF ActivatedTokens, Live
  <2>2. runtime_sessions' = runtime_sessions \ removed
      BY DEF ForgetSessions
  <2> QED
      BY <2>1, <2>2 DEF RuntimeInvariant, RuntimeMirrorsManager, ActivatedTokens
<1>3. BoundIsActivated'
  <2>1. /\ Live' = (Live \ removed) \cup {next_token_id}
        /\ \A t \in Live \ removed : sessions'[t] = sessions[t]
      BY <1>0 DEF Without, With, Live
  <2>2. \A c \in Peers : connection_token[c] # next_token_id
      BY <1>0, SessionManagerAssumption DEF RuntimeInvariant, TypeOK, NoToken, Tokens
  <2> QED
      BY <2>1, <2>2 DEF RuntimeInvariant, BoundIsActivated
<1>4. \A c \in Peers : connection_token'[c] < next_token_id'
    BY <1>0, SessionManagerAssumption
    DEF RuntimeInvariant, NoToken, TypeOK, Tokens
<1>5. \A s \in next_subscription_id'..MaxSubscriptions :
         subscription_owners'[s] = NoToken
    BY <1>1, ServerRuntimeAssumption
    DEF RuntimeInvariant, SubscriptionIds, TypeOK
<1> QED
    BY <1>1, <1>2, <1>3, <1>4, <1>5 DEF RuntimeInvariant, TypeOK

\* A step that touches neither the runtime's tables nor what is activated.
LEMMA UpdateStep ==
    ASSUME RuntimeInvariant, ManagerTypeOK',
           DOMAIN sessions' = DOMAIN sessions,
           \A t \in Live : sessions'[t].activated = sessions[t].activated,
           next_token_id' = next_token_id, phase' \in [Peers -> Phases],
           Rebinds(NoToken),
           UNCHANGED <<runtime_sessions, subscriptions, subscription_owners,
                       next_subscription_id>>
    PROVE  RuntimeInvariant'
<1>1. OwnersAreLive' /\ HeldIsIndexed'
    BY DEF RuntimeInvariant, OwnersAreLive, HeldIsIndexed
<1>2. RuntimeMirrorsManager'
  <2>1. ActivatedTokens' = ActivatedTokens
      BY UpdateActivated
  <2> QED
      BY <2>1 DEF RuntimeInvariant, RuntimeMirrorsManager, ActivatedTokens
<1>3. BoundIsActivated'
  <2>1. Live' = Live
      BY DEF Live
  <2>2. NoToken \notin Live
      BY DEF RuntimeInvariant, TypeOK, ManagerTypeOK, NoToken
  <2> QED
      BY <2>1, <2>2 DEF RuntimeInvariant, BoundIsActivated, Rebinds
<1>4. \A c \in Peers : connection_token'[c] < next_token_id'
    BY SessionManagerAssumption
    DEF RuntimeInvariant, Rebinds, NoToken, TypeOK, ManagerTypeOK
<1> QED
    BY <1>1, <1>2, <1>3, <1>4 DEF RuntimeInvariant, TypeOK, Rebinds

\* Activated marks the entry activated.
LEMMA ActivatedFlag ==
    ASSUME NEW state \in SessionState, NEW user
    PROVE  Activated(state, user).activated = TRUE
<1> DEFINE s1 == [state EXCEPT !.user = IF user = Anonymous
                                        THEN state.user ELSE user]
           s2 == [s1 EXCEPT !.activated = TRUE]
           s3 == [s2 EXCEPT !.attached = TRUE]
           s4 == [s3 EXCEPT !.expires_in = state.revised_timeout]
<1>1. DOMAIN s1 = DOMAIN state /\ "activated" \in DOMAIN state
    BY DEF SessionState
<1>2. DOMAIN s2 = DOMAIN s1 /\ s2.activated = TRUE
    BY <1>1
<1>3. DOMAIN s3 = DOMAIN s2 /\ s3.activated = s2.activated
    BY <1>1, <1>2
<1>4. s4.activated = s3.activated
    BY <1>1, <1>2, <1>3
<1>5. Activated(state, user) = s4
    BY DEF Activated
<1> QED
    BY <1>2, <1>3, <1>4, <1>5

\* Nothing removed: the table is the one ForgetSessions({}, {}) goes with.
LEMMA EraseNothing ==
    ASSUME ManagerTypeOK, sessions' = sessions
    PROVE  sessions' = Without({})
  BY DEF ManagerTypeOK, Without, Live

(***************************************************************************)
(* The session services.                                                   *)
(***************************************************************************)
\* Every session request preserves the invariant.
LEMMA SessionRequestStep ==
    ASSUME RuntimeInvariant, ManagerTypeOK', NEW c \in Peers, SessionRequest(c)
    PROVE  RuntimeInvariant'
<1>t. /\ TypeOK /\ ManagerTypeOK /\ phase \in [Peers -> Phases]
      /\ connection_token \in [Peers -> Tokens \cup {NoToken}]
      /\ sessions \in [Live -> SessionState]
    BY DEF RuntimeInvariant, TypeOK, ManagerTypeOK
<1>u. ASSUME UNCHANGED connection_token, NEW token
      PROVE  Rebinds(token)
    BY <1>t, <1>u DEF Rebinds
<1>b. ASSUME NEW token \in Tokens \cup {NoToken}, BindConnection(c, token)
      PROVE  Rebinds(token)
    BY <1>t, <1>b DEF Rebinds, BindConnection
<1>1. ASSUME NEW certificate \in Certificates, NEW requested \in RequestedTimeouts,
             HandleCreateSession(c, certificate, requested)
      PROVE  RuntimeInvariant'
  <2>1. /\ ForgetSessions(ExpiredTokens, {})
        /\ UNCHANGED <<phase, connection_token>>
      BY <1>1 DEF HandleCreateSession
  <2>2. CASE CreateSessionRejected(c \in SecureChannels, certificate)
      BY <2>1, <2>2, <1>t, <1>u, EraseStep DEF CreateSessionRejected
  <2>3. CASE CreateSession(c \in SecureChannels, certificate, requested)
    <3> DEFINE state == [secured |-> certificate # "none",
                         revised_timeout |-> ReviseTimeout(requested),
                         expires_in |-> ReviseTimeout(requested),
                         user |-> Anonymous,
                         activated |-> FALSE, attached |-> FALSE]
    <3>1. /\ sessions' = With(Without(ExpiredTokens), next_token_id, state)
          /\ next_token_id' = next_token_id + 1
        BY <2>3 DEF CreateSession
    <3>2. state.activated = FALSE
        OBVIOUS
    <3> HIDE DEF state
    <3> QED
        BY <2>1, <3>1, <3>2, CreateStep
  <2> QED
      BY <1>1, <2>2, <2>3 DEF HandleCreateSession
<1>2. ASSUME NEW token, NEW signature_ok, NEW anonymous, NEW secret,
             HandleActivateRejected(c, token, signature_ok, anonymous,
                                    secret)
      PROVE  RuntimeInvariant'
    BY <1>2, <1>t, <1>u, EraseStep
    DEF HandleActivateRejected, ActivateSessionRejected
<1>3. ASSUME NEW token \in Tokens, NEW signature_ok,
             HandleResume(c, token, signature_ok)
      PROVE  RuntimeInvariant'
  <2> DEFINE state == [sessions[token] EXCEPT !.attached = TRUE,
                          !.expires_in = sessions[token].revised_timeout]
  <2>1. /\ token \in Live \ ExpiredTokens
        /\ sessions[token].activated
        /\ sessions' = With(Without(ExpiredTokens), token, state)
        /\ next_token_id' = next_token_id
        /\ ForgetSessions(ExpiredTokens, {})
        /\ phase' = phase
      BY <1>3 DEF HandleResume, ResumeSession, Admitted
  <2>2. state.activated = TRUE
      BY <2>1, <1>t DEF SessionState
  <2>3. token \in runtime_sessions
      BY <2>1 DEF RuntimeInvariant, RuntimeMirrorsManager
  <2>4. Rebinds(token)
      BY <1>3, <1>b, <2>3 DEF HandleResume
  <2> HIDE DEF state
  <2> QED
      BY <2>1, <2>2, <2>3, <2>4, <1>t, ActivateStep
<1>4. ASSUME NEW token \in Tokens, NEW signature_ok,
             HandleActivateAnonymous(c, token, signature_ok)
      PROVE  RuntimeInvariant'
  <2> DEFINE state == Activated(sessions[token], Anonymous)
  <2>1. /\ token \in Live \ ExpiredTokens
        /\ sessions' = With(Without(ExpiredTokens), token, state)
        /\ next_token_id' = next_token_id
        /\ ForgetSessions(ExpiredTokens, {token})
        /\ phase' = phase
      BY <1>4 DEF HandleActivateAnonymous, ActivateAnonymous, Admitted
  <2>2. state.activated = TRUE
      BY <2>1, <1>t, ActivatedFlag
  <2>4. Rebinds(token)
      BY <1>4, <1>b DEF HandleActivateAnonymous
  <2> HIDE DEF state
  <2> QED
      BY <2>1, <2>2, <2>4, <1>t, ActivateStep
<1>5. ASSUME NEW k, NEW token, NEW signature_ok, NEW secret, NEW user,
             NEW delete_existing,
             HandleActivateUser(k, c, token, signature_ok, secret, user,
                                delete_existing)
      PROVE  RuntimeInvariant'
    BY <1>5, <1>t, <1>u, EraseStep DEF HandleActivateUser, StartAuthentication
<1>6. ASSUME NEW token \in Tokens, HandleCloseSession(c, token)
      PROVE  RuntimeInvariant'
  <2>1. Rebinds(NoToken) /\ phase' = phase
      BY <1>6, <1>b, <1>u DEF HandleCloseSession
  <2>2. CASE token \in Live
      BY <1>6, <2>1, <2>2, <1>t, EraseStep DEF HandleCloseSession, CloseSession
  <2>3. CASE token \notin Live
    <3>1. sessions' = Without({}) /\ next_token_id' = next_token_id
        BY <1>6, <2>3, <1>t, EraseNothing DEF HandleCloseSession, manager_vars
    <3>2. ForgetSessions({}, {})
        BY <1>6, <2>3 DEF HandleCloseSession
    <3> QED
        BY <2>1, <3>1, <3>2, <1>t, EraseStep
  <2> QED
      BY <2>2, <2>3
<1> QED
    BY <1>1, <1>2, <1>3, <1>4, <1>5, <1>6 DEF SessionRequest

\* The rest of an activation, once the authenticator has answered, preserves
\* the invariant.
LEMMA AnswerStep ==
    ASSUME RuntimeInvariant, ManagerTypeOK', NEW k,
           HandleActivateFailed(k) \/ HandleActivateDone(k)
    PROVE  RuntimeInvariant'
<1>t. /\ ManagerTypeOK /\ phase \in [Peers -> Phases]
      /\ connection_token \in [Peers -> Tokens \cup {NoToken}]
      /\ sessions \in [Live -> SessionState]
      /\ calls \in [DOMAIN calls -> Activation]
    BY DEF RuntimeInvariant, TypeOK, ManagerTypeOK
<1>1. ASSUME HandleActivateFailed(k)
      PROVE  RuntimeInvariant'
  <2>1. Rebinds(NoToken) /\ phase' = phase
      BY <1>1, <1>t DEF HandleActivateFailed, Rebinds
  <2>2. CASE /\ AuthenticationFailed(k) \/ ActivationRefused(k)
             /\ ForgetSessions({}, {})
    <3>1. sessions' = Without({}) /\ next_token_id' = next_token_id
        BY <2>2, <1>t, EraseNothing DEF AuthenticationFailed, ActivationRefused
    <3> QED
        BY <2>1, <2>2, <3>1, <1>t, EraseStep
  <2>3. CASE ActivationLost(k) /\ ForgetSessions(Evicted(k), {})
      BY <2>1, <2>3, <1>t, EraseStep DEF ActivationLost
  <2> QED
      BY <1>1, <2>2, <2>3 DEF HandleActivateFailed
<1>2. ASSUME HandleActivateDone(k)
      PROVE  RuntimeInvariant'
  <2> DEFINE token == calls[k].token
             state == Activated(sessions[token], calls[k].user)
             removed == Evicted(k)
  <2>1. /\ k \in DOMAIN calls
        /\ token \in Live \ removed
        /\ sessions' = With(Without(removed), token, state)
        /\ next_token_id' = next_token_id
        /\ ForgetSessions(removed, {token})
        /\ phase' = phase
        /\ connection_token' = [connection_token EXCEPT ![calls[k].peer] = token]
      BY <1>2 DEF HandleActivateDone, FinishActivation, BindConnection
  <2>2. token \in Tokens
      BY <2>1, <1>t DEF Activation
  <2>3. state.activated = TRUE
      BY <2>1, <1>t, ActivatedFlag
  <2> HIDE DEF token, state, removed
  <2>4. Rebinds(token)
      BY <2>1, <2>2, <1>t DEF Rebinds
  <2> QED
      BY <2>1, <2>3, <2>4, <1>t, ActivateStep
<1> QED
    BY <1>1, <1>2

(***************************************************************************)
(* The subscription services: the manager is not involved.                 *)
(***************************************************************************)
\* Create, delete and transfer preserve the invariant.
LEMMA SubscriptionRequestStep ==
    ASSUME RuntimeInvariant, ManagerTypeOK', NEW c \in Peers,
           SubscriptionRequest(c)
    PROVE  RuntimeInvariant'
<1> DEFINE owner == connection_token[c]
<1>t. /\ ManagerTypeOK /\ phase \in [Peers -> Phases]
      /\ connection_token \in [Peers -> Tokens \cup {NoToken}]
      /\ runtime_sessions \subseteq Tokens
      /\ subscriptions \in [Tokens -> SUBSET SubscriptionIds]
      /\ subscription_owners \in [SubscriptionIds -> Tokens \cup {NoToken}]
      /\ next_subscription_id \in 1..(MaxSubscriptions + 1)
    BY DEF RuntimeInvariant, TypeOK
<1>m. /\ UNCHANGED <<sessions, next_token_id, phase, connection_token,
                     runtime_sessions>>
      /\ owner \in runtime_sessions
    BY DEF SubscriptionRequest, HandleCreateSubscription, manager_vars,
           HandleDeleteSubscriptions, HandleTransferSubscriptions, HasSession
<1>o. owner \in Tokens
    BY <1>t, <1>m
<1>k. /\ RuntimeMirrorsManager' /\ BoundIsActivated'
      /\ \A d \in Peers : connection_token'[d] < next_token_id'
    BY <1>m DEF RuntimeInvariant, RuntimeMirrorsManager, BoundIsActivated, Live
<1>q. ASSUME /\ subscriptions' \in [Tokens -> SUBSET SubscriptionIds]
             /\ subscription_owners' \in
                   [SubscriptionIds -> Tokens \cup {NoToken}]
             /\ next_subscription_id' \in 1..(MaxSubscriptions + 1)
             /\ OwnersAreLive' /\ HeldIsIndexed'
             /\ \A s \in next_subscription_id'..MaxSubscriptions :
                   subscription_owners'[s] = NoToken
      PROVE  RuntimeInvariant'
    BY <1>q, <1>k, <1>t, <1>m DEF RuntimeInvariant, TypeOK
<1>1. ASSUME HandleCreateSubscription(c)
      PROVE  RuntimeInvariant'
  <2> DEFINE id == next_subscription_id
  <2>1. /\ id \in SubscriptionIds
        /\ subscriptions' = [subscriptions EXCEPT ![owner] = @ \cup {id}]
        /\ subscription_owners' = [subscription_owners EXCEPT ![id] = owner]
        /\ next_subscription_id' = id + 1
      BY <1>1, <1>t, ServerRuntimeAssumption
      DEF HandleCreateSubscription, SubscriptionIds
  <2>2. subscription_owners[id] = NoToken
      BY <2>1 DEF RuntimeInvariant, SubscriptionIds
  <2>3. /\ subscriptions' \in [Tokens -> SUBSET SubscriptionIds]
        /\ subscription_owners' \in [SubscriptionIds -> Tokens \cup {NoToken}]
      BY <2>1, <1>t, <1>o
  <2>4. next_subscription_id' \in 1..(MaxSubscriptions + 1)
      BY <2>1, <1>t, ServerRuntimeAssumption DEF SubscriptionIds
  <2>5. OwnersAreLive'
      BY <2>1, <1>m, <1>t DEF RuntimeInvariant, OwnersAreLive
  <2>6. HeldIsIndexed'
    <3> SUFFICES ASSUME NEW t \in Tokens, NEW s \in subscriptions'[t]
                 PROVE  t \in runtime_sessions /\ subscription_owners'[s] = t
        BY <1>m DEF HeldIsIndexed
    <3>1. CASE s \in subscriptions[t]
      <4>1. t \in runtime_sessions /\ subscription_owners[s] = t
          BY <3>1 DEF RuntimeInvariant, HeldIsIndexed
      <4>2. t # NoToken /\ s \in SubscriptionIds
          BY <3>1, <1>t DEF Tokens, NoToken
      <4> QED
          BY <4>1, <4>2, <2>1, <2>2, <1>t
    <3>2. CASE s \notin subscriptions[t]
      <4>1. t = owner /\ s = id
          BY <3>2, <2>1, <1>t, <1>o
      <4> QED
          BY <4>1, <2>1, <1>t, <1>m
    <3> QED
        BY <3>1, <3>2
  <2>7. \A s \in next_subscription_id'..MaxSubscriptions :
           subscription_owners'[s] = NoToken
    <3> SUFFICES ASSUME NEW s \in (id + 1)..MaxSubscriptions
                 PROVE  subscription_owners'[s] = NoToken
        BY <2>1
    <3>1. s \in id..MaxSubscriptions /\ s # id /\ s \in SubscriptionIds
        BY <1>t, ServerRuntimeAssumption DEF SubscriptionIds
    <3> QED
        BY <3>1, <2>1, <1>t DEF RuntimeInvariant
  <2> QED
      BY <1>q, <2>3, <2>4, <2>5, <2>6, <2>7
<1>2. ASSUME NEW ids \in SUBSET SubscriptionIds,
             HandleDeleteSubscriptions(c, ids)
      PROVE  RuntimeInvariant'
  <2> DEFINE deleted == ids \cap subscriptions[owner]
  <2>1. /\ subscriptions' = [subscriptions EXCEPT ![owner] = @ \ deleted]
        /\ subscription_owners' = [s \in SubscriptionIds |->
              IF s \in deleted THEN NoToken ELSE subscription_owners[s]]
        /\ next_subscription_id' = next_subscription_id
      BY <1>2 DEF HandleDeleteSubscriptions
  <2>2. \A s \in deleted : subscription_owners[s] = owner
      BY <1>o DEF RuntimeInvariant, HeldIsIndexed
  <2> HIDE DEF deleted
  <2>3. /\ subscriptions' \in [Tokens -> SUBSET SubscriptionIds]
        /\ subscription_owners' \in [SubscriptionIds -> Tokens \cup {NoToken}]
      BY <2>1, <1>t, <1>o
  <2>4. OwnersAreLive'
      BY <2>1, <1>m, <1>t DEF RuntimeInvariant, OwnersAreLive
  <2>5. HeldIsIndexed'
    <3> SUFFICES ASSUME NEW t \in Tokens, NEW s \in subscriptions'[t]
                 PROVE  t \in runtime_sessions /\ subscription_owners'[s] = t
        BY <1>m DEF HeldIsIndexed
    <3>1. s \in subscriptions[t] /\ (t = owner => s \notin deleted)
        BY <2>1, <1>t, <1>o
    <3>2. t \in runtime_sessions /\ subscription_owners[s] = t
        BY <3>1 DEF RuntimeInvariant, HeldIsIndexed
    <3>3. s \notin deleted /\ s \in SubscriptionIds
        BY <3>1, <3>2, <2>2, <1>t
    <3> QED
        BY <3>2, <3>3, <2>1
  <2>6. \A s \in next_subscription_id'..MaxSubscriptions :
           subscription_owners'[s] = NoToken
      BY <2>1, <1>t, ServerRuntimeAssumption
      DEF RuntimeInvariant, SubscriptionIds
  <2> QED
      BY <1>q, <1>t, <2>1, <2>3, <2>4, <2>5, <2>6
<1>3. ASSUME NEW ids \in SUBSET SubscriptionIds,
             HandleTransferSubscriptions(c, ids)
      PROVE  RuntimeInvariant'
  <2> DEFINE moved == Transferable(owner, ids)
  <2>1. /\ subscriptions' = [t \in Tokens |-> IF t = owner
                                              THEN subscriptions[t] \cup moved
                                              ELSE subscriptions[t] \ moved]
        /\ subscription_owners' = [s \in SubscriptionIds |->
              IF s \in moved THEN owner ELSE subscription_owners[s]]
        /\ next_subscription_id' = next_subscription_id
      BY <1>3 DEF HandleTransferSubscriptions
  <2>2. /\ moved \subseteq SubscriptionIds
        /\ \A s \in moved : subscription_owners[s] \in runtime_sessions
      BY DEF Transferable
  <2> HIDE DEF moved
  <2>3. /\ subscriptions' \in [Tokens -> SUBSET SubscriptionIds]
        /\ subscription_owners' \in [SubscriptionIds -> Tokens \cup {NoToken}]
      BY <2>1, <2>2, <1>t, <1>o
  <2>4. OwnersAreLive'
      BY <2>1, <1>m, <1>t DEF RuntimeInvariant, OwnersAreLive
  <2>5. HeldIsIndexed'
    <3> SUFFICES ASSUME NEW t \in Tokens, NEW s \in subscriptions'[t]
                 PROVE  t \in runtime_sessions /\ subscription_owners'[s] = t
        BY <1>m DEF HeldIsIndexed
    <3>1. CASE s \in moved
      <4>1. t = owner
          BY <3>1, <2>1
      <4> QED
          BY <3>1, <4>1, <2>1, <2>2, <1>m
    <3>2. CASE s \notin moved
      <4>1. s \in subscriptions[t]
          BY <3>2, <2>1
      <4>2. t \in runtime_sessions /\ subscription_owners[s] = t
          BY <4>1 DEF RuntimeInvariant, HeldIsIndexed
      <4> QED
          BY <4>1, <4>2, <3>2, <2>1, <1>t
    <3> QED
        BY <3>1, <3>2
  <2>6. \A s \in next_subscription_id'..MaxSubscriptions :
           subscription_owners'[s] = NoToken
    <3> SUFFICES ASSUME NEW s \in next_subscription_id..MaxSubscriptions
                 PROVE  subscription_owners'[s] = NoToken
        BY <2>1
    <3>1. subscription_owners[s] = NoToken /\ s \in SubscriptionIds
        BY <1>t, ServerRuntimeAssumption DEF RuntimeInvariant, SubscriptionIds
    <3>2. s \notin moved
        BY <3>1, <2>2, <1>t DEF Tokens, NoToken
    <3> QED
        BY <3>1, <3>2, <2>1
  <2> QED
      BY <1>q, <1>t, <2>1, <2>3, <2>4, <2>5, <2>6
<1> QED
    BY <1>1, <1>2, <1>3 DEF SubscriptionRequest

(***************************************************************************)
(* Connections and time.                                                   *)
(***************************************************************************)
\* Accepting, losing and detaching a connection, and time passing.
LEMMA TransportStep ==
    ASSUME RuntimeInvariant, ManagerTypeOK',
           (\E c \in Peers : Transport(c)) \/ TimePasses
    PROVE  RuntimeInvariant'
<1>t. /\ ManagerTypeOK /\ phase \in [Peers -> Phases]
      /\ connection_token \in [Peers -> Tokens \cup {NoToken}]
      /\ sessions \in [Live -> SessionState]
    BY DEF RuntimeInvariant, TypeOK, ManagerTypeOK
<1>b. ASSUME NEW c \in Peers, BindConnection(c, NoToken)
      PROVE  Rebinds(NoToken)
    BY <1>t, <1>b DEF Rebinds, BindConnection
<1>u. ASSUME UNCHANGED connection_token
      PROVE  Rebinds(NoToken)
    BY <1>t, <1>u DEF Rebinds
<1>1. ASSUME NEW c \in Peers, Accept(c)
      PROVE  RuntimeInvariant'
  <2>1. /\ UNCHANGED <<sessions, next_token_id>>
        /\ phase' \in [Peers -> Phases] /\ Rebinds(NoToken)
      BY <1>1, <1>t, <1>b DEF Accept, manager_vars, Phases
  <2>2. UNCHANGED <<runtime_sessions, subscriptions, subscription_owners,
                    next_subscription_id>>
      BY <1>1 DEF Accept
  <2> QED
      BY <2>1, <2>2, UpdateStep
<1>2. ASSUME NEW c \in Peers, BinaryLost(c)
      PROVE  RuntimeInvariant'
  <2>1. /\ UNCHANGED <<sessions, next_token_id>>
        /\ phase' \in [Peers -> Phases] /\ Rebinds(NoToken)
      BY <1>2, <1>t, <1>u DEF BinaryLost, manager_vars, Phases
  <2>2. UNCHANGED <<runtime_sessions, subscriptions, subscription_owners,
                    next_subscription_id>>
      BY <1>2 DEF BinaryLost
  <2> QED
      BY <2>1, <2>2, UpdateStep
<1>3. ASSUME NEW c \in Peers, Detach(c)
      PROVE  RuntimeInvariant'
  <2>1. /\ DOMAIN sessions' = DOMAIN sessions
        /\ \A t \in Live : sessions'[t].activated = sessions[t].activated
        /\ next_token_id' = next_token_id
    <3>1. CASE UNCHANGED manager_vars
        BY <3>1 DEF manager_vars
    <3>2. CASE DetachSession(connection_token[c])
        BY <3>2, <1>t DEF DetachSession, Live, SessionState
    <3> QED
        BY <1>3, <3>1, <3>2 DEF Detach
  <2>2. phase' \in [Peers -> Phases] /\ Rebinds(NoToken)
      BY <1>3, <1>t, <1>b DEF Detach, Phases
  <2>3. UNCHANGED <<runtime_sessions, subscriptions, subscription_owners,
                    next_subscription_id>>
      BY <1>3 DEF Detach
  <2> QED
      BY <2>1, <2>2, <2>3, UpdateStep
<1>4. ASSUME TimePasses
      PROVE  RuntimeInvariant'
  <2>1. /\ DOMAIN sessions' = DOMAIN sessions
        /\ \A t \in Live : sessions'[t].activated = sessions[t].activated
        /\ next_token_id' = next_token_id
      BY <1>4, <1>t DEF TimePasses, Tick, Live, SessionState
  <2>2. phase' \in [Peers -> Phases] /\ Rebinds(NoToken)
      BY <1>4, <1>t, <1>u DEF TimePasses, runtime_vars
  <2>3. UNCHANGED <<runtime_sessions, subscriptions, subscription_owners,
                    next_subscription_id>>
      BY <1>4 DEF TimePasses, runtime_vars
  <2> QED
      BY <2>1, <2>2, <2>3, UpdateStep
<1> QED
    BY <1>1, <1>2, <1>3, <1>4 DEF Transport, WebSocketLost, BinaryDrained

(***************************************************************************)
(* The theorems.                                                           *)
(***************************************************************************)
\* Every step of the composed server preserves the inductive invariant.
LEMMA RuntimeStep ==
    RuntimeInvariant /\ [Next]_vars => RuntimeInvariant'
<1> SUFFICES ASSUME RuntimeInvariant, [Next]_vars
             PROVE  RuntimeInvariant'
    OBVIOUS
<1>1. ManagerTypeOK'
  <2>1. ManagerTypeOK /\ TypeOK
      BY DEF RuntimeInvariant, TypeOK
  <2> QED
      BY <2>1, RuntimeStepIsManagerStep, ManagerTypeStep
<1>2. CASE UNCHANGED vars
    BY <1>2 DEF vars, manager_vars, runtime_vars, RuntimeInvariant, TypeOK,
       ManagerTypeOK, RuntimeMirrorsManager, OwnersAreLive, HeldIsIndexed,
       BoundIsActivated, Live
<1>3. CASE Next
    BY <1>1, <1>3, SessionRequestStep, SubscriptionRequestStep, TransportStep,
       AnswerStep DEF Next
<1> QED
    BY <1>2, <1>3

\* It holds initially.
LEMMA RuntimeStart == Init => RuntimeInvariant
<1> SUFFICES ASSUME Init
             PROVE  RuntimeInvariant
    OBVIOUS
<1> USE SessionManagerAssumption, ServerRuntimeAssumption
<1>1. ManagerTypeOK
    BY DEF Init, ManagerInit, ManagerTypeOK, Live
<1>2. TypeOK
    BY <1>1 DEF Init, TypeOK, Phases
<1>3. RuntimeMirrorsManager /\ BoundIsActivated
    BY DEF Init, ManagerInit, RuntimeMirrorsManager, BoundIsActivated, Live
<1>4. OwnersAreLive /\ HeldIsIndexed
    BY DEF Init, OwnersAreLive, HeldIsIndexed
<1>5. /\ \A s \in next_subscription_id..MaxSubscriptions :
            subscription_owners[s] = NoToken
      /\ \A c \in Peers : connection_token[c] < next_token_id
    BY DEF Init, ManagerInit, SubscriptionIds, NoToken
<1> QED
    BY <1>1, <1>2, <1>3, <1>4, <1>5 DEF RuntimeInvariant

\* The strengthened invariant of the server runtime holds in every reachable
\* state.
THEOREM RuntimeInductive == Spec => []RuntimeInvariant
  BY RuntimeStart, RuntimeStep, PTL DEF Spec

\* server_runtime.cpp: connections, ServerSessions and the owner index are
\* well formed in every reachable state.
THEOREM TypeCorrect == Spec => []TypeOK
<1>1. RuntimeInvariant => TypeOK
    BY DEF RuntimeInvariant
<1> QED
    BY <1>1, RuntimeInductive, PTL

\* ServerRuntime::ForgetSession: the ServerSessions of the runtime are those of
\* the sessions the manager holds as activated.
THEOREM MirrorsManager == Spec => []RuntimeMirrorsManager
<1>1. RuntimeInvariant => RuntimeMirrorsManager
    BY DEF RuntimeInvariant
<1> QED
    BY <1>1, RuntimeInductive, PTL

\* RemoveSessionSubscriptions: the owner index only names ServerSessions that
\* exist.
THEOREM NoDanglingOwner == Spec => []OwnersAreLive
<1>1. RuntimeInvariant => OwnersAreLive
    BY DEF RuntimeInvariant
<1> QED
    BY <1>1, RuntimeInductive, PTL

\* TransferSubscriptions: a subscription is held by one session, under which
\* it is indexed.
THEOREM OneHolder == Spec => []HeldIsIndexed
<1>1. RuntimeInvariant => HeldIsIndexed
    BY DEF RuntimeInvariant
<1> QED
    BY <1>1, RuntimeInductive, PTL

\* The registries of the server agree, whatever order of activations, closes,
\* evictions, transfers and reconnects led here.
THEOREM RegistriesStayInStep == Spec => []RegistriesAgree
  BY MirrorsManager, OneHolder, PTL DEF RegistriesAgree

\* HandleActivateSession: a connection is never bound to a session that was
\* not activated.
THEOREM OnlyActivatedBound == Spec => []BoundIsActivated
<1>1. RuntimeInvariant => BoundIsActivated
    BY DEF RuntimeInvariant
<1> QED
    BY <1>1, RuntimeInductive, PTL

\* The composed server implements the session manager's specification: the
\* runtime and the transports drive it through its own operations only.
THEOREM RuntimeImplementsManager == Spec => ManagerSpec
<1>1. Init => ManagerInit
    BY DEF Init
<1>2. RuntimeInvariant /\ [Next]_vars => [ManagerNext]_manager_vars
    BY RuntimeStepIsManagerStep DEF RuntimeInvariant
<1> QED
    BY <1>1, <1>2, RuntimeInductive, PTL DEF Spec, ManagerSpec

\* ServerSessionManager::ActivateSession behind the runtime and its
\* transports: a single-session user has at most one session.
THEOREM ServerSingleSession == Spec => []OneSessionPerUser
  BY RuntimeImplementsManager, SingleSession, PTL

(***************************************************************************)
(* The listening servers.                                                  *)
(***************************************************************************)
\* The tasks are finitely many, and fewer than the counter can count.
LEMMA TasksAreFinite ==
    ASSUME ListenerTypeOK
    PROVE  /\ IsFiniteSet(LiveLoops) /\ IsFiniteSet(Counted)
           /\ Cardinality(LiveLoops) \in Nat
           /\ Cardinality(Counted) \in Nat
           /\ Cardinality(Counted) < MaxSize
<1>1. IsFiniteSet(Opens)
  BY ListeningServerAssumption, FS_Interval DEF Opens
<1>2. LiveLoops \subseteq Opens /\ Counted \subseteq Connections
  BY DEF LiveLoops, Counted, Running, Lost
<1>3. IsFiniteSet(LiveLoops) /\ IsFiniteSet(Counted)
  BY <1>1, <1>2, FS_Subset, ListeningServerAssumption
<1>4. Cardinality(Counted) <= Cardinality(Connections)
  BY <1>2, FS_Subset, ListeningServerAssumption
<1>. QED
  BY <1>3, <1>4, FS_CardinalityType, ListeningServerAssumption

\* With the loops of earlier Opens finished, one loop is counted or none.
LEMMA LoopsAreCounted ==
    ASSUME ListenerTypeOK, LoopInvariant
    PROVE  /\ tasks_closed \in LiveLoops =>
                  LiveLoops = {tasks_closed} /\ Cardinality(LiveLoops) = 1
           /\ tasks_closed \notin LiveLoops =>
                  LiveLoops = {} /\ Cardinality(LiveLoops) = 0
           /\ \A g \in LiveLoops : g = tasks_closed
<1>1. \A g \in LiveLoops : g = tasks_closed
  BY ListeningServerAssumption
     DEF LiveLoops, LoopInvariant, ListenerTypeOK, Opens
<1>2. tasks_closed \in LiveLoops => LiveLoops = {tasks_closed}
  BY <1>1
<1>3. tasks_closed \notin LiveLoops => LiveLoops = {}
  BY <1>1
<1>. QED
  BY <1>1, <1>2, <1>3, FS_Singleton, FS_EmptySet

\* The counter is at zero only when the server is quiet.
LEMMA ZeroIsQuiet ==
    ListenerTypeOK /\ CountIsExact /\ LoopInvariant /\ active_tasks = 0 => Quiet
<1>. SUFFICES ASSUME ListenerTypeOK, CountIsExact, LoopInvariant, active_tasks = 0
              PROVE  Quiet
  OBVIOUS
<1>1. Cardinality(LiveLoops) = 0 /\ Cardinality(Counted) = 0
  BY TasksAreFinite DEF CountIsExact
<1>2. LiveLoops = {} /\ Counted = {}
  BY <1>1, TasksAreFinite, FS_EmptySet
<1>3. tasks_closed # 0 => tasks_closed \in Opens
  BY ListeningServerAssumption DEF ListenerTypeOK, Opens
<1>4. \A c \in Connections : stage[c] # "arrived"
  BY <1>2, <1>3 DEF LoopInvariant, LiveLoops
<1>. QED
  BY <1>2, <1>4 DEF Quiet, Counted, Running, Lost, ListenerTypeOK, Stages

\* A server that nobody has opened.
LEMMA ListenerInitEstablishes ==
    ASSUME ListenerInit PROVE ListenerInvariant
<1>1. LiveLoops = {} /\ Counted = {}
  BY DEF ListenerInit, LiveLoops, Counted, Running, Lost
<1>2. CountIsExact
  BY <1>1, FS_EmptySet DEF ListenerInit, CountIsExact
<1>3. ListenerTypeOK
  <2>1. MaxOpens \in Nat /\ MaxHandlers \in Nat /\ MaxSize \in Nat
    BY ListeningServerAssumption
  <2>2. 0 \in 0..MaxOpens /\ 0 \in 0..MaxSize /\ 0 \in 0..MaxHandlers
    BY <2>1
  <2>. QED
    BY <2>2 DEF ListenerInit, ListenerTypeOK, LoopStages, Stages
<1>5. LoopInvariant
  BY ListeningServerAssumption DEF ListenerInit, LoopInvariant, Opens
<1>4. OwnerInvariant /\ RequestInvariant
  BY <1>1 DEF ListenerInit, OwnerInvariant, RequestInvariant, Quiet
<1>. QED
  BY <1>2, <1>3, <1>4, <1>5 DEF ListenerInvariant

\* A step that ends one task counts it down, and completes the gate when it
\* was the last one of a server that closes.
LEMMA TaskFinishedCounts ==
    ASSUME ListenerTypeOK, NEW n \in 1..MaxSize, TaskFinished(n)
    PROVE  /\ active_tasks' = n - 1
           /\ active_tasks' \in 0..MaxSize
           /\ closing /\ n = 1 /\ tasks_closed # 0 => completed' = completed \cup {tasks_closed}
           /\ ~(closing /\ n = 1 /\ tasks_closed # 0) => completed' = completed
  BY ListeningServerAssumption DEF TaskFinished, Finish, OneLess, ListenerTypeOK

\* Open and Close change no task, apart from the accept loop that Open starts.
LEMMA CallsKeepInvariant ==
    ASSUME ListenerInvariant, OneOwner, NEW o \in Owners,
           \/ CallOpen(o) \/ OpenFails(o) \/ CallClose(o)
           \/ CloseResumes(o) \/ WaitReturns(o)
    PROVE  ListenerInvariant'
<1>. USE DEF Idle, Goes, gate_vars, server_state, connection_vars
<1>1. /\ UNCHANGED <<kind, active_tasks, completed, tasks_closed, loop, stage,
                     accepted_by, handlers>>
  BY DEF CallOpen, OpenFails, CallClose, CloseResumes, WaitReturns
<1>2. ListenerTypeOK'
  BY <1>1 DEF ListenerInvariant, ListenerTypeOK, CallOpen, OpenFails, CallClose,
              CloseResumes, WaitReturns
<1>3. CountIsExact' /\ LoopInvariant' /\ RequestInvariant' /\ (Quiet <=> Quiet')
  BY <1>1 DEF ListenerInvariant, CountIsExact, LoopInvariant, RequestInvariant,
              LiveLoops, Counted, Running, Lost, Quiet
<1>4. \A p \in Owners : p = o
  BY DEF OneOwner
<1>5. active_tasks = 0 => Quiet
  BY ZeroIsQuiet DEF ListenerInvariant
<1>6. OwnerInvariant'
  <2>1. CASE CallOpen(o) \/ OpenFails(o)
    BY <1>1, <1>3, <1>4, <2>1
       DEF CallOpen, OpenFails, ListenerInvariant, OwnerInvariant, ListenerTypeOK
  <2>2. CASE CallClose(o)
    BY <1>1, <1>3, <1>4, <2>2
       DEF CallClose, ListenerInvariant, OwnerInvariant, ListenerTypeOK
  <2>3. CASE CloseResumes(o)
    BY <1>1, <1>3, <1>4, <1>5, <2>3
       DEF CloseResumes, ListenerInvariant, OwnerInvariant, ListenerTypeOK
  <2>4. CASE WaitReturns(o)
    BY <1>1, <1>3, <1>4, <2>4
       DEF WaitReturns, ListenerInvariant, OwnerInvariant, ListenerTypeOK
  <2>. QED
    BY <2>1, <2>2, <2>3, <2>4
<1>. QED
  BY <1>2, <1>3, <1>6 DEF ListenerInvariant

\* Open finds a quiet server, so that resetting the counter loses no task.
LEMMA OpenKeepsInvariant ==
    ASSUME ListenerInvariant, OneOwner, NEW o \in Owners, OpenDone(o)
    PROVE  ListenerInvariant'
<1>1. Quiet /\ ~opened
  BY DEF OpenDone, ListenerInvariant, OwnerInvariant
<1>2. /\ MaxOpens \in Nat /\ MaxSize \in Nat /\ MaxSize # 0
      /\ tasks_closed \in Nat /\ tasks_closed + 1 \in Opens
  BY ListeningServerAssumption, FS_CardinalityType
     DEF OpenDone, ListenerInvariant, ListenerTypeOK, Opens
<1>3. active_tasks' = 1
  BY <1>2 DEF OpenDone, TaskStarted
<1>4. ListenerTypeOK'
  <2>1. tasks_closed' \in 0..MaxOpens /\ active_tasks' \in 0..MaxSize
    BY <1>2, <1>3 DEF OpenDone, Opens
  <2>2. loop' \in [Opens -> LoopStages]
    BY DEF OpenDone, ListenerInvariant, ListenerTypeOK, LoopStages
  <2>3. call' \in [Owners -> {"away", "opening", "closing", "waiting", "closed"}]
    BY DEF OpenDone, Goes, ListenerInvariant, ListenerTypeOK
  <2>. QED
    BY <2>1, <2>2, <2>3
       DEF OpenDone, ListenerInvariant, ListenerTypeOK, connection_vars
<1>5. LiveLoops' = {tasks_closed + 1}
  BY <1>1, <1>2 DEF OpenDone, ListenerInvariant, ListenerTypeOK, LiveLoops, Quiet
<1>6. Counted' = {}
  BY <1>1 DEF OpenDone, Counted, Running, Lost, Quiet, connection_vars
<1>7. CountIsExact'
  <2>1. Cardinality(LiveLoops') = 1 /\ Cardinality(Counted') = 0
    BY <1>5, <1>6, FS_Singleton, FS_EmptySet
  <2>. QED
    BY <1>3, <2>1 DEF CountIsExact
<1>8. LoopInvariant'
  <2>1. \A g \in Opens : g # tasks_closed + 1 => loop'[g] = loop[g]
    BY <1>2 DEF OpenDone, ListenerInvariant, ListenerTypeOK
  <2>2. \A g \in Opens : g <= tasks_closed => loop[g] = "finished"
    BY <1>1, <1>2
       DEF Quiet, LiveLoops, ListenerInvariant, ListenerTypeOK, LoopInvariant,
           LoopStages, Opens
  <2>3. \A c \in Connections : stage'[c] # "arrived"
    BY <1>1 DEF OpenDone, Quiet, connection_vars
  <2>4. loop'[tasks_closed + 1] = "spawned" /\ tasks_closed' = tasks_closed + 1
    BY <1>2 DEF OpenDone, ListenerInvariant, ListenerTypeOK
  <2>. QED
    BY <1>2, <2>1, <2>2, <2>3, <2>4 DEF ListenerInvariant, LoopInvariant, Opens
<1>9. OwnerInvariant'
  <2>1. \A p \in Owners : call'[p] = "away"
    BY DEF OpenDone, Goes, OneOwner, ListenerInvariant, ListenerTypeOK
  <2>2. /\ tasks_closed' = tasks_closed + 1 /\ completed' = completed
        /\ opened' = TRUE /\ closing' = FALSE
    BY DEF OpenDone
  <2>3. \A g \in completed : g \in Nat /\ g <= tasks_closed
    BY ListeningServerAssumption
       DEF ListenerInvariant, ListenerTypeOK, OwnerInvariant, Opens
  <2>4. tasks_closed' \notin completed'
    BY <1>2, <2>2, <2>3
  <2>5. \A g \in completed' : g <= tasks_closed'
    BY <1>2, <2>2, <2>3
  <2>. QED
    BY <1>2, <2>1, <2>2, <2>4, <2>5 DEF OwnerInvariant
<1>10. RequestInvariant'
  BY DEF OpenDone, ListenerInvariant, RequestInvariant, connection_vars
<1>. QED
  BY <1>4, <1>7, <1>8, <1>9, <1>10 DEF ListenerInvariant


\* What a step of a task has to show: as long as there is a task, the server is
\* open or an owner closes it, and the gate is completed with the last task.
LEMMA TasksKeepOwners ==
    ASSUME ListenerInvariant, ~Quiet, UNCHANGED <<kind, server_state, owner_vars>>,
           (ListenerTypeOK /\ CountIsExact /\ LoopInvariant)',
           \/ completed' = completed
           \/ closing /\ active_tasks' = 0 /\ completed' = completed \cup {tasks_closed},
           closing /\ tasks_closed # 0 /\ active_tasks' = 0 => tasks_closed \in completed'
    PROVE  OwnerInvariant'
<1>. USE DEF server_state, owner_vars
<1>1. tasks_closed \notin completed
  BY DEF ListenerInvariant, OwnerInvariant
<1>2. \A o \in Owners : opened \/ call[o] \in {"closing", "waiting"}
  BY DEF ListenerInvariant, OwnerInvariant
<1>3. (ListenerTypeOK /\ CountIsExact /\ LoopInvariant /\ active_tasks = 0 => Quiet)'
  BY ZeroIsQuiet, PTL
<1>4. tasks_closed \in completed' => ~opened /\ Quiet'
  BY <1>1, <1>3 DEF ListenerInvariant, OwnerInvariant
<1>5. \A g \in completed' : g <= tasks_closed
  BY ListeningServerAssumption DEF ListenerInvariant, OwnerInvariant, ListenerTypeOK
<1>. QED
  BY <1>2, <1>4, <1>5 DEF ListenerInvariant, OwnerInvariant

\* A step that moves the accept loop along, or lets it take a connection,
\* counts nothing.
LEMMA AcceptingKeepsInvariant ==
    ASSUME ListenerInvariant, NEW g \in Opens,
           \/ LoopStarts(g) /\ opened
           \/ AcceptFails(g)
           \/ \E c \in Connections : AcceptSucceeds(g, c)
    PROVE  ListenerInvariant'
<1>. USE DEF LoopGoes, gate_vars, connection_vars
<1>1. /\ g \in LiveLoops
      /\ loop[g] # "accepted"
      /\ \/ loop' = [loop EXCEPT ![g] = "accepting"]
         \/ loop' = [loop EXCEPT ![g] = "failed"]
         \/ loop' = [loop EXCEPT ![g] = "accepted"]
  BY DEF LoopStarts, AcceptFails, AcceptSucceeds, LiveLoops
<1>2. UNCHANGED <<kind, active_tasks, completed, server_state, owner_vars, handlers>>
  BY DEF LoopStarts, AcceptFails, AcceptSucceeds
<1>3. g = tasks_closed
  BY <1>1, LoopsAreCounted DEF ListenerInvariant
<1>4. ListenerTypeOK'
  <2>1. loop' \in [Opens -> LoopStages]
    BY <1>1 DEF ListenerInvariant, ListenerTypeOK, LoopStages
  <2>2. g \in 0..MaxOpens
    BY ListeningServerAssumption DEF Opens
  <2>3. stage' \in [Connections -> Stages] /\ accepted_by' \in [Connections -> 0..MaxOpens]
    BY <2>2 DEF LoopStarts, AcceptFails, AcceptSucceeds, ListenerInvariant,
                ListenerTypeOK, Stages
  <2>. QED
    BY <1>2, <2>1, <2>3 DEF ListenerInvariant, ListenerTypeOK, server_state, owner_vars
<1>5. LiveLoops' = LiveLoops /\ ~Quiet
  BY <1>1 DEF LiveLoops, Quiet, ListenerInvariant, ListenerTypeOK
<1>6. Counted' = Counted
  BY DEF LoopStarts, AcceptFails, AcceptSucceeds, Counted, Running, Lost, ListenerInvariant,
         ListenerTypeOK
<1>7. CountIsExact'
  BY <1>2, <1>5, <1>6 DEF ListenerInvariant, CountIsExact
<1>8. \A c \in Connections : stage[c] # "arrived"
  BY <1>1, <1>3 DEF LoopStarts, AcceptFails, AcceptSucceeds, ListenerInvariant,
                    LoopInvariant
<1>9. LoopInvariant'
  <2>1. tasks_closed' = tasks_closed /\ tasks_closed # 0
    BY <1>2, <1>3 DEF server_state, Opens
  <2>2. \A h \in Opens : /\ h # g => loop'[h] = loop[h]
                         /\ loop[g] # "none" /\ loop'[g] # "none"
    BY <1>1 DEF ListenerInvariant, ListenerTypeOK, LiveLoops
  <2>3. \A c \in Connections : stage'[c] = "arrived" =>
            AcceptSucceeds(g, c) /\ accepted_by'[c] = g /\ loop'[g] = "accepted"
    BY <1>8 DEF LoopStarts, AcceptFails, AcceptSucceeds, ListenerInvariant,
                ListenerTypeOK
  <2>4. \A c, d \in Connections :
            stage'[c] = "arrived" /\ stage'[d] = "arrived" => c = d
    BY <1>8, <2>3 DEF AcceptSucceeds, ListenerInvariant, ListenerTypeOK
  <2>. QED
    BY <1>3, <2>1, <2>2, <2>3, <2>4 DEF ListenerInvariant, LoopInvariant, Opens
<1>10. active_tasks' # 0
  BY <1>2, <1>5, ZeroIsQuiet DEF ListenerInvariant
<1>11. OwnerInvariant'
  BY <1>2, <1>4, <1>5, <1>7, <1>9, <1>10, TasksKeepOwners
<1>12. RequestInvariant'
  BY <1>2 DEF LoopStarts, AcceptFails, AcceptSucceeds, ListenerInvariant,
              RequestInvariant, ListenerTypeOK
<1>. QED
  BY <1>4, <1>7, <1>9, <1>11, <1>12 DEF ListenerInvariant


\* The accept loop ends and is counted down.
LEMMA LoopEndKeepsInvariant ==
    ASSUME ListenerInvariant, NEW g \in Opens,
           (LoopStarts(g) /\ ~opened) \/ LoopEnds(g)
    PROVE  ListenerInvariant'
<1>. USE DEF LoopGoes, connection_vars
<1>1. /\ g \in LiveLoops
      /\ loop[g] # "accepted"
      /\ loop' = [loop EXCEPT ![g] = "finished"]
      /\ TaskFinished(active_tasks)
      /\ UNCHANGED <<kind, server_state, owner_vars, stage, accepted_by, handlers>>
  BY DEF LoopStarts, LoopEnds, LiveLoops
<1>2. g = tasks_closed /\ Cardinality(LiveLoops) = 1
  BY <1>1, LoopsAreCounted DEF ListenerInvariant
<1>3. active_tasks \in 1..MaxSize
  BY <1>2, TasksAreFinite DEF ListenerInvariant, CountIsExact, ListenerTypeOK
<1>4. /\ active_tasks' = active_tasks - 1 /\ active_tasks' \in 0..MaxSize
      /\ closing /\ active_tasks = 1 /\ tasks_closed # 0
            => completed' = completed \cup {tasks_closed}
      /\ ~(closing /\ active_tasks = 1 /\ tasks_closed # 0) => completed' = completed
  BY <1>1, <1>3, TaskFinishedCounts DEF ListenerInvariant
<1>5. ListenerTypeOK'
  <2>1. loop' \in [Opens -> LoopStages]
    BY <1>1 DEF ListenerInvariant, ListenerTypeOK, LoopStages
  <2>2. completed' \subseteq Opens
    BY <1>2, <1>4 DEF ListenerInvariant, ListenerTypeOK
  <2>. QED
    BY <1>1, <1>4, <2>1, <2>2
       DEF ListenerInvariant, ListenerTypeOK, server_state, owner_vars
<1>6. LiveLoops' = {} /\ Counted' = Counted
  BY <1>1, <1>2, LoopsAreCounted
     DEF LiveLoops, Counted, Running, Lost, ListenerInvariant, ListenerTypeOK
<1>7. CountIsExact'
  BY <1>2, <1>3, <1>4, <1>6, FS_EmptySet, TasksAreFinite
     DEF ListenerInvariant, CountIsExact
<1>8. LoopInvariant'
  <2>1. \A c \in Connections : stage'[c] # "arrived"
    BY <1>1, <1>2 DEF ListenerInvariant, LoopInvariant
  <2>2. \A h \in Opens : h # g => loop'[h] = loop[h]
    BY <1>1 DEF ListenerInvariant, ListenerTypeOK
  <2>3. loop'[g] = "finished" /\ loop[g] # "none" /\ tasks_closed' = tasks_closed
    BY <1>1 DEF ListenerInvariant, ListenerTypeOK, LiveLoops, server_state
  <2>. QED
    BY <1>2, <2>1, <2>2, <2>3 DEF ListenerInvariant, LoopInvariant, Opens
<1>9. OwnerInvariant'
  <2>1. ~Quiet
    BY <1>1 DEF Quiet
  <2>2. closing /\ tasks_closed # 0 /\ active_tasks' = 0 => tasks_closed \in completed'
    BY <1>3, <1>4
  <2>3. \/ completed' = completed
        \/ closing /\ active_tasks' = 0 /\ completed' = completed \cup {tasks_closed}
    BY <1>3, <1>4
  <2>. QED
    BY <1>1, <1>5, <1>7, <1>8, <2>1, <2>2, <2>3, TasksKeepOwners
<1>10. RequestInvariant'
  BY <1>1 DEF ListenerInvariant, RequestInvariant
<1>. QED
  BY <1>5, <1>7, <1>8, <1>9, <1>10 DEF ListenerInvariant

\* The accepted connection gets its task: one more is counted, and the loop
\* goes on or, with the server closed meanwhile, ends and is counted down.
LEMMA LoopServesKeepsInvariant ==
    ASSUME ListenerInvariant, NEW g \in Opens, NEW c \in Connections, LoopServes(g, c)
    PROVE  /\ ListenerInvariant'
           /\ ~opened => LiveLoops' = {}
<1>. USE DEF LoopGoes
<1>1. /\ g = tasks_closed /\ LiveLoops = {g} /\ Cardinality(LiveLoops) = 1
      /\ loop[g] = "accepted"
  <2>1. g \in LiveLoops /\ loop[g] = "accepted"
    BY DEF LoopServes, LiveLoops
  <2>. QED
    BY <2>1, LoopsAreCounted DEF ListenerInvariant
<1>2. /\ Counted' = Counted \cup {c} /\ c \notin Counted
      /\ \A d \in Connections : stage'[d] # "arrived"
  BY DEF LoopServes, Counted, Running, Lost, ListenerInvariant, ListenerTypeOK, LoopInvariant
<1>3. Cardinality(Counted') = Cardinality(Counted) + 1
  BY <1>2, TasksAreFinite, FS_AddElement DEF ListenerInvariant
<1>4. Cardinality(Counted') <= Cardinality(Connections)
  <2>1. Counted' \subseteq Connections
    BY <1>2 DEF Counted, Running, Lost
  <2>. QED
    BY <2>1, FS_Subset, ListeningServerAssumption
<1>5. /\ active_tasks = Cardinality(Counted) + 1 /\ active_tasks < MaxSize
      /\ active_tasks \in Nat /\ MaxSize \in Nat
      /\ TaskStarted(active_tasks) = active_tasks + 1
  BY <1>1, <1>3, <1>4, TasksAreFinite, FS_CardinalityType, ListeningServerAssumption
     DEF ListenerInvariant, CountIsExact, TaskStarted
<1>6. stage' \in [Connections -> Stages]
  BY DEF LoopServes, ListenerInvariant, ListenerTypeOK, Stages
<1>7. UNCHANGED <<kind, server_state, owner_vars, accepted_by, handlers>>
  BY DEF LoopServes
<1>8. \A h \in Opens : h # g => loop'[h] = loop[h]
  BY DEF LoopServes, ListenerInvariant, ListenerTypeOK
<1>9. loop'[g] \in {"accepting", "finished"} /\ loop' \in [Opens -> LoopStages]
  BY DEF LoopServes, ListenerInvariant, ListenerTypeOK, LoopStages
<1>10. LoopInvariant'
  BY <1>1, <1>2, <1>7, <1>8, <1>9
     DEF ListenerInvariant, LoopInvariant, server_state, Opens
<1>11. RequestInvariant'
  BY <1>7 DEF LoopServes, ListenerInvariant, RequestInvariant, ListenerTypeOK
<1>12. ~Quiet
  BY <1>1 DEF Quiet
<1>13. CASE opened
  <2>1. active_tasks' = active_tasks + 1 /\ completed' = completed /\ loop'[g] = "accepting"
    BY <1>5, <1>13 DEF LoopServes, ListenerInvariant, ListenerTypeOK
  <2>2. ListenerTypeOK'
    BY <1>5, <1>6, <1>7, <1>9, <2>1
       DEF ListenerInvariant, ListenerTypeOK, server_state, owner_vars
  <2>3. LiveLoops' = LiveLoops
    BY <1>1, <1>8, <2>1 DEF LiveLoops
  <2>4. CountIsExact'
    BY <1>1, <1>3, <1>5, <2>1, <2>3, TasksAreFinite DEF ListenerInvariant, CountIsExact
  <2>5. OwnerInvariant'
    BY <1>5, <1>7, <1>10, <1>12, <2>1, <2>2, <2>4, TasksKeepOwners
  <2>. QED
    BY <1>10, <1>11, <1>13, <2>2, <2>4, <2>5 DEF ListenerInvariant
<1>14. CASE ~opened
  <2>1. TaskFinished(active_tasks + 1) /\ loop'[g] = "finished"
    BY <1>5, <1>14 DEF LoopServes, ListenerInvariant, ListenerTypeOK
  <2>2. active_tasks + 1 \in 1..MaxSize /\ active_tasks + 1 # 1
    BY <1>5, TasksAreFinite DEF ListenerInvariant
  <2>3. active_tasks' = active_tasks /\ completed' = completed
    BY <1>5, <2>1, <2>2, TaskFinishedCounts DEF ListenerInvariant
  <2>4. ListenerTypeOK'
    BY <1>6, <1>7, <1>9, <2>3 DEF ListenerInvariant, ListenerTypeOK, server_state, owner_vars
  <2>5. LiveLoops' = {}
    BY <1>1, <1>8, <2>1 DEF LiveLoops
  <2>6. CountIsExact'
    BY <1>3, <1>5, <2>3, <2>5, FS_EmptySet, TasksAreFinite
       DEF ListenerInvariant, CountIsExact
  <2>7. OwnerInvariant'
    BY <1>5, <1>7, <1>10, <1>12, <2>3, <2>4, <2>6, TasksAreFinite, TasksKeepOwners
       DEF ListenerInvariant
  <2>. QED
    BY <1>10, <1>11, <2>4, <2>5, <2>6, <2>7 DEF ListenerInvariant
<1>. QED
  BY <1>13, <1>14


\* A connection that reads, writes a fault, drains or starts to leave stays
\* counted, as does one whose task threw, and its requests come and go
\* uncounted.
LEMMA ServingKeepsInvariant ==
    ASSUME ListenerInvariant, NEW c \in Connections,
           \/ ConnectionStarts(c) \/ StartRequest(c) \/ FinishRequest(c) \/ WriteFault(c)
           \/ FaultWritten(c) \/ WebSocketLeaves(c) \/ BinaryLeaves(c) \/ FramesDrained(c)
           \/ TaskThrows(c)
    PROVE  ListenerInvariant'
<1>. USE DEF ConnectionStarts, StartRequest, FinishRequest, WriteFault, FaultWritten,
             WebSocketLeaves, BinaryLeaves, FramesDrained, TaskThrows, StageGoes
<1>1. UNCHANGED <<kind, active_tasks, completed, server_state, owner_vars, loop, accepted_by>>
  BY DEF gate_vars
<1>2. ListenerTypeOK'
  <2>1. stage' \in [Connections -> Stages]
    BY DEF ListenerInvariant, ListenerTypeOK, Stages
  <2>2. handlers' \in [Connections -> 0..MaxHandlers]
    BY ListeningServerAssumption DEF ListenerInvariant, ListenerTypeOK
  <2>. QED
    BY <1>1, <2>1, <2>2 DEF ListenerInvariant, ListenerTypeOK, server_state, owner_vars
<1>3. Counted' = Counted /\ LiveLoops' = LiveLoops /\ (Quiet <=> Quiet')
  BY <1>1 DEF Counted, Running, Lost, LiveLoops, Quiet, ListenerInvariant, ListenerTypeOK
<1>4. CountIsExact'
  BY <1>1, <1>3 DEF ListenerInvariant, CountIsExact
<1>5. \A d \in Connections : stage'[d] = "arrived" <=> stage[d] = "arrived"
  BY DEF ListenerInvariant, ListenerTypeOK
<1>6. LoopInvariant'
  BY <1>1, <1>5 DEF ListenerInvariant, LoopInvariant, server_state
<1>7. OwnerInvariant'
  BY <1>1, <1>3 DEF ListenerInvariant, OwnerInvariant, server_state, owner_vars
<1>8. RequestInvariant'
  BY <1>1 DEF ListenerInvariant, RequestInvariant, ListenerTypeOK
<1>. QED
  BY <1>2, <1>4, <1>6, <1>7, <1>8 DEF ListenerInvariant

\* The task of a connection ends and is counted down.
LEMMA ConnectionEndKeepsInvariant ==
    ASSUME ListenerInvariant, NEW c \in Connections, ConnectionEnds(c) \/ RunThrows(c)
    PROVE  ListenerInvariant'
<1>. USE DEF ConnectionEnds, RunThrows, StageGoes
<1>1. /\ c \in Counted
      /\ TaskFinished(active_tasks)
      /\ UNCHANGED <<kind, server_state, owner_vars, loop, accepted_by, handlers>>
      /\ stage' \in [Connections -> Stages]
  BY DEF Counted, Running, Lost, ListenerInvariant, ListenerTypeOK, Stages
<1>2. Counted' = Counted \ {c}
  BY DEF Counted, Running, Lost, ListenerInvariant, ListenerTypeOK
<1>3. /\ Cardinality(Counted') = Cardinality(Counted) - 1 /\ Cardinality(Counted) >= 1
  <2>1. Cardinality(Counted') \in Nat
    BY <1>2, TasksAreFinite, FS_RemoveElement, FS_CardinalityType DEF ListenerInvariant
  <2>2. Cardinality(Counted') = Cardinality(Counted) - 1
    BY <1>1, <1>2, TasksAreFinite, FS_RemoveElement DEF ListenerInvariant
  <2>. QED
    BY <2>1, <2>2, TasksAreFinite DEF ListenerInvariant
<1>4. active_tasks \in 1..MaxSize
  BY <1>3, TasksAreFinite DEF ListenerInvariant, CountIsExact, ListenerTypeOK
<1>5. /\ active_tasks' = active_tasks - 1 /\ active_tasks' \in 0..MaxSize
      /\ closing /\ active_tasks = 1 /\ tasks_closed # 0
            => completed' = completed \cup {tasks_closed}
      /\ ~(closing /\ active_tasks = 1 /\ tasks_closed # 0) => completed' = completed
  BY <1>1, <1>4, TaskFinishedCounts DEF ListenerInvariant
<1>6. ListenerTypeOK'
  <2>1. tasks_closed # 0 => tasks_closed \in Opens
    BY ListeningServerAssumption DEF ListenerInvariant, ListenerTypeOK, Opens
  <2>2. completed' \subseteq Opens
    BY <1>5, <2>1 DEF ListenerInvariant, ListenerTypeOK
  <2>. QED
    BY <1>1, <1>5, <2>2 DEF ListenerInvariant, ListenerTypeOK, server_state, owner_vars
<1>7. LiveLoops' = LiveLoops
  BY <1>1 DEF LiveLoops
<1>8. CountIsExact'
  BY <1>3, <1>5, <1>7, TasksAreFinite DEF ListenerInvariant, CountIsExact
<1>9. LoopInvariant'
  <2>1. \A d \in Connections : stage'[d] = "arrived" <=> stage[d] = "arrived"
    BY DEF ListenerInvariant, ListenerTypeOK
  <2>. QED
    BY <1>1, <2>1 DEF ListenerInvariant, LoopInvariant, server_state
<1>10. OwnerInvariant'
  <2>1. ~Quiet
    BY <1>1 DEF Quiet, Counted, Running, Lost
  <2>2. closing /\ tasks_closed # 0 /\ active_tasks' = 0 => tasks_closed \in completed'
    BY <1>4, <1>5
  <2>3. \/ completed' = completed
        \/ closing /\ active_tasks' = 0 /\ completed' = completed \cup {tasks_closed}
    BY <1>4, <1>5
  <2>. QED
    BY <1>1, <1>6, <1>8, <1>9, <2>1, <2>2, <2>3, TasksKeepOwners
<1>11. RequestInvariant'
  BY <1>1 DEF ListenerInvariant, RequestInvariant, ListenerTypeOK
<1>. QED
  BY <1>6, <1>8, <1>9, <1>10, <1>11 DEF ListenerInvariant

\* Every step of the server keeps the invariant while one owner calls it.
LEMMA ListenerNextKeepsInvariant ==
    ASSUME ListenerInvariant, OneOwner, [ListenerNext]_listener_vars
    PROVE  ListenerInvariant'
<1>1. CASE \E o \in Owners : CallOpen(o) \/ CallClose(o) \/ Returns(o)
  BY <1>1, CallsKeepInvariant, OpenKeepsInvariant DEF Returns
<1>2. CASE \E g \in Opens : AcceptLoop(g)
  <2>1. PICK g \in Opens : AcceptLoop(g)
    BY <1>2
  <2>. QED
    BY <2>1, AcceptingKeepsInvariant, LoopEndKeepsInvariant, LoopServesKeepsInvariant
       DEF AcceptLoop
<1>3. CASE \E c \in Connections : \/ RunConnection(c) \/ WriteFault(c)
                                  \/ StartRequest(c) \/ FinishRequest(c)
  BY <1>3, ServingKeepsInvariant, ConnectionEndKeepsInvariant DEF RunConnection
<1>4. CASE UNCHANGED listener_vars
  BY <1>4 DEF listener_vars, gate_vars, server_state, owner_vars, connection_vars,
              ListenerInvariant, ListenerTypeOK, CountIsExact, LoopInvariant,
              OwnerInvariant, RequestInvariant, LiveLoops, Counted, Running, Lost, Quiet
<1>. QED
  BY <1>1, <1>2, <1>3, <1>4 DEF ListenerNext

\* The invariant of a listening server that one owner opens and closes.
LEMMA ListenerInductive ==
    ASSUME OneOwner
    PROVE  ListenerSpec => []ListenerInvariant
  BY ListenerInitEstablishes, ListenerNextKeepsInvariant, PTL DEF ListenerSpec

\* However often a server is closed and opened again, active_tasks_ is the
\* number of accept loops and connections that are still to count down and of
\* the WebSocket connections that threw and never will, so that TaskFinished
\* never finds it at zero.
THEOREM TasksAreCounted ==
    ASSUME OneOwner
    PROVE  ListenerSpec => [](CountIsExact /\ AssertedCount)
<1>1. ListenerInvariant => CountIsExact /\ AssertedCount
  <2>. SUFFICES ASSUME ListenerInvariant PROVE CountIsExact /\ AssertedCount
    OBVIOUS
  <2>1. Quiet => AssertedCount
    BY DEF Quiet, LiveLoops, AssertedCount
  <2>2. active_tasks = 0 => Quiet
    BY ZeroIsQuiet DEF ListenerInvariant
  <2>. QED
    BY <2>1, <2>2 DEF ListenerInvariant, AssertedCount
<1>. QED
  BY <1>1, ListenerInductive, PTL

\* When Close has returned no accept loop and no connection is left, and no
\* request either but those of WebSockets and of unwound connections.
THEOREM ClosedServerIsQuiet ==
    ASSUME OneOwner
    PROVE  ListenerSpec => []CloseMeansQuiet
<1>1. ListenerInvariant => CloseMeansQuiet
  <2>. SUFFICES ASSUME ListenerInvariant, NEW o \in Owners, call[o] = "closed",
                       NEW c \in Connections
                PROVE  /\ LiveLoops = {}
                       /\ stage[c] \in {"absent", "done", "unwound"}
                       /\ handlers[c] > 0 => kind = "websocket" \/ stage[c] = "unwound"
    BY DEF CloseMeansQuiet, ListenerInvariant, OwnerInvariant, Quiet
  <2>1. Quiet
    BY DEF ListenerInvariant, OwnerInvariant
  <2>. QED
    BY <2>1 DEF Quiet, ListenerInvariant, RequestInvariant
<1>. QED
  BY <1>1, ListenerInductive, PTL

\* A Close that waits has a gate that is open or that a running task opens,
\* as long as no WebSocket connection has thrown.
THEOREM CloseIsNotStranded ==
    ASSUME OneOwner
    PROVE  ListenerSpec => []NoStrandedClose
<1>1. ListenerInvariant => NoStrandedClose
  <2>. SUFFICES ASSUME ListenerInvariant, LiveLoops \cup Running = {}, Lost = {}
                PROVE  active_tasks = 0
    BY DEF NoStrandedClose, ListenerInvariant, OwnerInvariant
  <2>1. LiveLoops = {} /\ Counted = {}
    BY DEF Counted
  <2>. QED
    BY <2>1, FS_EmptySet DEF ListenerInvariant, CountIsExact
<1>. QED
  BY <1>1, ListenerInductive, PTL

\* Counting and waiting together.
THEOREM TasksAreAccountedFor ==
    ASSUME OneOwner
    PROVE  ListenerSpec => []TasksAccountedFor
<1>1. ListenerSpec => [](CountIsExact /\ AssertedCount)
  BY TasksAreCounted
<1>2. ListenerSpec => []NoStrandedClose
  BY CloseIsNotStranded
<1>. QED
  BY <1>1, <1>2, PTL DEF TasksAccountedFor

\* The connection that is served although the server was closed meanwhile is
\* the last one.
THEOREM LastConnectionServed ==
    ASSUME OneOwner
    PROVE  ListenerSpec => LastCall
<1>1. ASSUME ListenerInvariant, ListenerTypeOK', [ListenerNext]_listener_vars,
             NEW c \in Connections, stage[c] = "arrived", stage'[c] = "spawned", ~opened
      PROVE  \A g \in Opens : loop'[g] \in {"none", "finished"}
  <2>1. PICK g \in Opens : LoopServes(g, c)
    BY <1>1 DEF ListenerNext, listener_vars, connection_vars, ListenerInvariant,
                ListenerTypeOK, CallOpen, CallClose, Returns, OpenFails, OpenDone,
                CloseResumes, WaitReturns, AcceptLoop, LoopStarts, AcceptFails, LoopEnds,
                AcceptSucceeds, LoopServes, RunConnection, ConnectionStarts,
                FaultWritten, FramesDrained, ConnectionEnds, WebSocketLeaves,
                BinaryLeaves, RunThrows, TaskThrows, WriteFault, StartRequest, FinishRequest,
                StageGoes
  <2>2. LiveLoops' = {}
    BY <1>1, <2>1, LoopServesKeepsInvariant
  <2>. QED
    BY <1>1, <2>2 DEF LiveLoops, ListenerTypeOK, LoopStages
<1>2. ListenerInvariant /\ ListenerInvariant' /\ [ListenerNext]_listener_vars
      => [\A c \in Connections :
             stage[c] = "arrived" /\ stage'[c] = "spawned" /\ ~opened
             => \A g \in Opens : loop'[g] \in {"none", "finished"}]_listener_vars
  BY <1>1 DEF ListenerInvariant
<1>. QED
  BY <1>2, ListenerInductive, PTL DEF ListenerSpec, LastCall
=============================================================================
