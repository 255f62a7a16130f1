---------------------------- MODULE ClientChannel ----------------------------
(***************************************************************************)
(* ClientChannel (opcua/client/client_channel.{h,cpp}): requests of many   *)
(* coroutines over one connection.  A request takes the send turn, may     *)
(* renew the security token while it holds it, is written, and then waits  *)
(* for its response, which a single read loop takes off the connection.    *)
(* The renewal (ClientSecureChannel::OpenSecureChannel) reads its answer   *)
(* off the connection itself.                                              *)
(*                                                                         *)
(* Everything runs on one executor: a coroutine is one atomic step between *)
(* two suspensions, and every suspension is a value of `pc`.               *)
(*                                                                         *)
(* Abstractions.  A caller makes one request, and its request id, request  *)
(* handle and response are the caller itself.  Callers in Splitters use    *)
(* Send and, some time later, Receive, as the publish loop does; the       *)
(* others use Call.  Bodies and chunks are left out.  Whether the token is *)
(* due for renewal is left open, at most MaxRenewals times.  The server    *)
(* answers in any order; a lost connection loses what is in flight.        *)
(***************************************************************************)
EXTENDS Naturals, Sequences

CONSTANTS Callers,     \* requests
          Splitters,   \* the ones sent and received separately
          Renewal,     \* the OpenSecureChannel exchange of a renewal
          MaxRenewals  \* bound on the renewals

ASSUME ClientChannelAssumption == /\ Splitters \subseteq Callers
                                  /\ Renewal \notin Callers
                                  /\ MaxRenewals \in Nat

VARIABLES pc,                  \* where the coroutine of each caller stands
          send_in_progress,
          send_waiters,
          pending_responses,   \* callers waiting in Receive, not answered
          buffered_responses,
          read_loop,           \* read_loop_running_, and whether it has begun
          asked,               \* requests the server has yet to answer
          incoming,            \* responses on their way, in order
          connected,
          renewals

turn_vars == <<send_in_progress, send_waiters>>
response_vars == <<pending_responses, buffered_responses, read_loop>>
network_vars == <<asked, incoming, connected, renewals>>
channel_vars == <<pc, turn_vars, response_vars, network_vars>>

Frames == Callers \cup {Renewal}

\* queued: in send_waiters_.  woken: its waiter is completed, it has not
\* resumed.  renewing, sending and written hold the turn; written: the server
\* may have the request, the writer has not resumed.  sent: Send returned the
\* request id.  receiving: Receive waits.  answered, failed: returned.
Stages == {"idle", "queued", "woken", "renewing", "sending", "written", "sent",
           "receiving", "answered", "failed"}
Holding == {"renewing", "sending", "written"}

Move(c, stage) == pc' = [pc EXCEPT ![c] = stage]

(***************************************************************************)
(* The send turn.                                                          *)
(***************************************************************************)
\* WaitForSendTurn, and Send up to its next suspension once it has the turn:
\* the renewal if the token is `due` and no response is pending, else the write.
WaitForSendTurn(c, due) ==
    \/ /\ send_in_progress
       /\ ~due
       /\ send_waiters' = Append(send_waiters, c)
       /\ Move(c, "queued")
       /\ UNCHANGED <<send_in_progress, renewals, asked>>
    \/ /\ ~send_in_progress
       /\ send_in_progress' = TRUE
       /\ due => /\ pending_responses = {}
                 /\ renewals < MaxRenewals
       /\ Move(c, IF due THEN "renewing" ELSE "sending")
       /\ renewals' = IF due THEN renewals + 1 ELSE renewals
       /\ asked' = IF due /\ connected THEN asked \cup {Renewal} ELSE asked
       /\ UNCHANGED send_waiters

\* Defect: the next waiter is not completed.
ReleaseSendTurnSilently(c, stage) ==
    /\ send_in_progress' = FALSE
    /\ Move(c, stage)
    /\ UNCHANGED send_waiters

\* ReleaseSendTurn by c, which goes on to `stage`.
ReleaseSendTurn(c, stage) ==
    /\ send_in_progress' = FALSE
    /\ IF send_waiters = <<>>
       THEN Move(c, stage) /\ UNCHANGED send_waiters
       ELSE /\ send_waiters' = Tail(send_waiters)
            /\ pc' = [pc EXCEPT ![c] = stage, ![Head(send_waiters)] = "woken"]

(***************************************************************************)
(* Send.                                                                   *)
(***************************************************************************)
Send(c, due) ==
    /\ pc[c] = "idle"
    /\ WaitForSendTurn(c, due)
    /\ UNCHANGED <<response_vars, incoming, connected>>

\* A completed waiter resumes: the turn may have been taken by another caller
\* meanwhile, and then it queues again.
Resume(c, due) ==
    /\ pc[c] = "woken"
    /\ WaitForSendTurn(c, due)
    /\ UNCHANGED <<response_vars, incoming, connected>>

\* The renewal reads a frame: its own answer, or another one, which it cannot
\* decode and which is gone.
RenewalReads(c) ==
    /\ pc[c] = "renewing"
    /\ incoming # <<>>
    /\ incoming' = Tail(incoming)
    /\ IF Head(incoming) = Renewal
       THEN Move(c, "sending") /\ UNCHANGED turn_vars
       ELSE ReleaseSendTurn(c, "failed")
    /\ UNCHANGED <<response_vars, asked, connected, renewals>>

RenewalFails(c) ==
    /\ pc[c] = "renewing"
    /\ ~connected
    /\ ReleaseSendTurn(c, "failed")
    /\ UNCHANGED <<response_vars, network_vars>>

\* The request reaches the server before the writer resumes.
Written(c) ==
    /\ pc[c] = "sending"
    /\ connected
    /\ Move(c, "written")
    /\ asked' = asked \cup {c}
    /\ UNCHANGED <<turn_vars, response_vars, incoming, connected, renewals>>

WriteFails(c) ==
    /\ pc[c] = "sending"
    /\ ~connected
    /\ ReleaseSendTurn(c, "failed")
    /\ UNCHANGED <<response_vars, network_vars>>

(***************************************************************************)
(* Receive.                                                                *)
(***************************************************************************)
EnsureReadLoop ==
    read_loop' = IF read_loop = "stopped" THEN "spawned" ELSE read_loop

\* Receive of a response that the read loop has already met.
Buffered(c) ==
    /\ c \in buffered_responses
    /\ buffered_responses' = buffered_responses \ {c}
    /\ UNCHANGED <<pending_responses, read_loop>>

\* Defect: the read loop is only started for the first response.
AwaitResponseUnread(c) ==
    /\ c \notin buffered_responses
    /\ pending_responses' = pending_responses \cup {c}
    /\ read_loop' = IF pending_responses = {} /\ buffered_responses = {}
                    THEN "spawned" ELSE read_loop
    /\ UNCHANGED buffered_responses

\* Receive of a response still to come.
AwaitResponse(c) ==
    /\ c \notin buffered_responses
    /\ pending_responses' = pending_responses \cup {c}
    /\ EnsureReadLoop
    /\ UNCHANGED buffered_responses

\* The write is over; Call goes on to Receive at once.
SendDone(c) ==
    /\ pc[c] = "written"
    /\ \/ /\ c \in Splitters
          /\ ReleaseSendTurn(c, "sent")
          /\ UNCHANGED response_vars
       \/ /\ c \notin Splitters
          /\ Buffered(c)
          /\ ReleaseSendTurn(c, "answered")
       \/ /\ c \notin Splitters
          /\ AwaitResponse(c)
          /\ ReleaseSendTurn(c, "receiving")
    /\ UNCHANGED network_vars

Receive(c) ==
    /\ pc[c] = "sent"
    /\ \/ Buffered(c) /\ Move(c, "answered")
       \/ AwaitResponse(c) /\ Move(c, "receiving")
    /\ UNCHANGED <<turn_vars, network_vars>>

(***************************************************************************)
(* The read loop.                                                          *)
(***************************************************************************)
StartReadLoop ==
    /\ read_loop = "spawned"
    /\ read_loop' = "reading"
    /\ UNCHANGED <<pc, turn_vars, pending_responses, buffered_responses,
                   network_vars>>

\* Defect: a response nobody waits for yet is dropped.
DeliverResponseDropped(c) ==
    /\ pending_responses' = pending_responses \ {c}
    /\ pc' = IF c \in pending_responses
             THEN [pc EXCEPT ![c] = "answered"] ELSE pc
    /\ UNCHANGED buffered_responses

DeliverResponse(c) ==
    \/ /\ c \in pending_responses
       /\ pending_responses' = pending_responses \ {c}
       /\ Move(c, "answered")
       /\ UNCHANGED buffered_responses
    \/ /\ c \notin pending_responses
       /\ buffered_responses' = buffered_responses \cup {c}
       /\ UNCHANGED <<pc, pending_responses>>

FailPendingResponses ==
    /\ pc' = [c \in Callers |-> IF c \in pending_responses
                                THEN "failed" ELSE pc[c]]
    /\ pending_responses' = {}
    /\ read_loop' = "stopped"
    /\ UNCHANGED buffered_responses

\* RunReadLoop reads a response and goes on while one is pending; a frame that
\* is no response does not decode.
ReadLoopReads ==
    /\ read_loop = "reading"
    /\ incoming # <<>>
    /\ incoming' = Tail(incoming)
    /\ IF Head(incoming) = Renewal
       THEN FailPendingResponses
       ELSE /\ DeliverResponse(Head(incoming))
            /\ read_loop' = IF pending_responses' = {}
                            THEN "stopped" ELSE "reading"
    /\ UNCHANGED <<turn_vars, asked, connected, renewals>>

ReadLoopFails ==
    /\ read_loop = "reading"
    /\ ~connected
    /\ FailPendingResponses
    /\ UNCHANGED <<turn_vars, network_vars>>

(***************************************************************************)
(* The server and the network.                                             *)
(***************************************************************************)
Answer(f) ==
    /\ f \in asked
    /\ asked' = asked \ {f}
    /\ incoming' = Append(incoming, f)
    /\ UNCHANGED <<pc, turn_vars, response_vars, connected, renewals>>

ChannelBreaks ==
    /\ connected
    /\ connected' = FALSE
    /\ asked' = {}
    /\ incoming' = <<>>
    /\ UNCHANGED <<pc, turn_vars, response_vars, renewals>>

(***************************************************************************)
(* The specification.                                                      *)
(***************************************************************************)
ChannelInit ==
    /\ pc = [c \in Callers |-> "idle"]
    /\ send_in_progress = FALSE
    /\ send_waiters = <<>>
    /\ pending_responses = {}
    /\ buffered_responses = {}
    /\ read_loop = "stopped"
    /\ asked = {}
    /\ incoming = <<>>
    /\ connected = TRUE
    /\ renewals = 0

\* What the coroutine of c does once it has begun.
Continue(c) == \/ \E due \in BOOLEAN : Resume(c, due)
               \/ RenewalReads(c)
               \/ RenewalFails(c)
               \/ Written(c)
               \/ WriteFails(c)
               \/ SendDone(c)
               \/ Receive(c)

ReadLoop == StartReadLoop \/ ReadLoopReads \/ ReadLoopFails

ChannelNext ==
    \/ \E c \in Callers : Continue(c) \/ \E due \in BOOLEAN : Send(c, due)
    \/ ReadLoop
    \/ \E f \in Frames : Answer(f)
    \/ ChannelBreaks

ChannelSpec == ChannelInit /\ [][ChannelNext]_channel_vars

\* The executor runs every coroutine that can go on, and the server answers
\* what it is asked.  Nobody has to make a request.
FairChannelSpec == /\ ChannelSpec
            /\ \A c \in Callers : WF_channel_vars(Continue(c))
            /\ WF_channel_vars(ReadLoop)
            /\ \A f \in Frames : WF_channel_vars(Answer(f))

(***************************************************************************)
(* Properties.                                                             *)
(***************************************************************************)
\* Coroutines, queues and responses keep their shape.
ChannelTypeOK ==
    /\ pc \in [Callers -> Stages]
    /\ send_in_progress \in BOOLEAN
    /\ send_waiters \in Seq(Callers)
    /\ pending_responses \subseteq Callers
    /\ buffered_responses \subseteq Callers
    /\ read_loop \in {"stopped", "spawned", "reading"}
    /\ asked \subseteq Frames
    /\ incoming \in Seq(Frames)
    /\ connected \in BOOLEAN
    /\ renewals \in 0..MaxRenewals

\* WaitForSendTurn: at most one caller is between taking the turn and releasing
\* it, so frames and their sequence numbers are written one request at a time,
\* although a caller can take the turn before the waiter it was released to.
SendersTakeTurns ==
    \A c, d \in Callers : pc[c] \in Holding /\ pc[d] \in Holding => c = d

\* ReleaseSendTurn: no wakeup is lost.  While callers queue, somebody holds the
\* turn and will release it, or a completed waiter is about to take it.
NoLostWakeup ==
    send_waiters # <<>> => \E c \in Callers : pc[c] \in Holding \cup {"woken"}

\* WaitForSendTurn and ReleaseSendTurn together: one turn, which one caller has
\* or one is about to take as long as anybody waits for it.
TurnIsPassedOn == SendersTakeTurns /\ NoLostWakeup

\* EnsureReadLoop and the end of RunReadLoop: while a response is pending the
\* read loop runs, however requests, failures and responses alternate.
PendingHasReader == pending_responses # {} => read_loop # "stopped"

\* The strengthening under which the three invariants above are inductive: the
\* flag says whether the turn is held, the waiters are distinct queued callers,
\* and a pending caller waits in Receive.
TurnInvariant ==
    /\ pc \in [Callers -> Stages]
    /\ send_in_progress \in BOOLEAN
    /\ send_waiters \in Seq(Callers)
    /\ SendersTakeTurns
    /\ send_in_progress <=> \E c \in Callers : pc[c] \in Holding
    /\ \A i \in 1..Len(send_waiters) :
          /\ pc[send_waiters[i]] = "queued"
          /\ \A j \in 1..Len(send_waiters) :
                send_waiters[i] = send_waiters[j] => i = j
    /\ NoLostWakeup

ResponseInvariant ==
    /\ pending_responses \subseteq {c \in Callers : pc[c] = "receiving"}
    /\ PendingHasReader

ChannelInvariant == ChannelTypeOK /\ TurnInvariant /\ ResponseInvariant

\* A request of which the server has not yet answered or the client not yet
\* taken the response.
Outstanding == asked \cup {incoming[i] : i \in DOMAIN incoming}

\* Send: "Renew the security token only while the channel is QUIET": a renewal
\* that waits for its answer, which it reads off the connection itself, is the
\* only request outstanding.  The code checks for pending responses instead, and
\* a request that was sent but is not received yet has none.
RenewalOnQuietChannel ==
    (\E c \in Callers : pc[c] = "renewing") => Outstanding \subseteq {Renewal}

\* As long as renewals find the channel quiet, every request that is made
\* returns: no caller is left in the queue, and none waits for a response that
\* another reader took or that came before it asked.
CallsReturn ==
    []RenewalOnQuietChannel =>
        \A c \in Callers : pc[c] # "idle" ~> pc[c] \in {"answered", "failed"}
=============================================================================
