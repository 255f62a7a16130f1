---------------------------- MODULE ClientProofs ----------------------------
(***************************************************************************)
(* Proofs about the client: ClientChannel for every set of callers and     *)
(* every number of renewals, and ClientSubscription for every set of items *)
(* and views.                                                              *)
(*                                                                         *)
(* The channel: the send turn is exclusive, no wakeup is lost and a        *)
(* pending response always has a reader.  ChannelInvariant splits into a   *)
(* part about the send turn and a part about responses; each lemma says    *)
(* what one kind of step does to one part.                                 *)
(*                                                                         *)
(* The subscription: no item is forgotten, the records agree with the      *)
(* server, and every item has its handler.  SubscriptionInvariant ties an  *)
(* item's record to its coroutines, its handler and the server's item, and *)
(* how far items may be to how far the creation of the subscription is.    *)
(***************************************************************************)
EXTENDS ClientChannel, ClientSubscription, TLAPS

(***************************************************************************)
(* The send turn.                                                          *)
(***************************************************************************)
\* WaitForSendTurn keeps the turn exclusive and every waiter accounted for.
LEMMA WaitKeepsTurn ==
    ASSUME TurnInvariant, NEW c \in Callers, NEW due \in BOOLEAN,
           pc[c] \in {"idle", "woken"}, WaitForSendTurn(c, due)
    PROVE  TurnInvariant'
<1>1. CASE send_in_progress /\ send_waiters' = Append(send_waiters, c)
           /\ Move(c, "queued") /\ UNCHANGED <<send_in_progress>>
  <2>1. PICK h \in Callers : pc[h] \in Holding
    BY <1>1 DEF TurnInvariant
  <2>2. h # c /\ pc'[h] = pc[h]
    BY <1>1, <2>1 DEF TurnInvariant, Holding, Move
  <2>3. /\ Len(send_waiters') = Len(send_waiters) + 1
        /\ \A i \in 1..Len(send_waiters) : /\ send_waiters'[i] = send_waiters[i]
                                           /\ send_waiters[i] # c
        /\ send_waiters'[Len(send_waiters) + 1] = c
    BY <1>1 DEF TurnInvariant
  <2>4. /\ pc' \in [Callers -> Stages]
        /\ send_waiters' \in Seq(Callers)
        /\ send_in_progress' = send_in_progress
        /\ \A d \in Callers : pc'[d] = IF d = c THEN "queued" ELSE pc[d]
    BY <1>1 DEF TurnInvariant, Move, Stages
  <2>5. SendersTakeTurns'
    BY <2>4 DEF TurnInvariant, SendersTakeTurns, Holding
  <2>6. send_in_progress' <=> \E d \in Callers : pc'[d] \in Holding
    BY <1>1, <2>1, <2>2, <2>4
  <2>7. NoLostWakeup'
    BY <2>1, <2>2 DEF NoLostWakeup
  <2>8. \A i \in 1..Len(send_waiters') :
           /\ pc'[send_waiters'[i]] = "queued"
           /\ \A j \in 1..Len(send_waiters') :
                 send_waiters'[i] = send_waiters'[j] => i = j
    BY <2>3, <2>4 DEF TurnInvariant
  <2>. QED
    BY <1>1, <2>4, <2>5, <2>6, <2>7, <2>8 DEF TurnInvariant
<1>2. CASE ~send_in_progress /\ send_in_progress' = TRUE
           /\ Move(c, IF due THEN "renewing" ELSE "sending")
           /\ UNCHANGED send_waiters
  <2>1. /\ pc' \in [Callers -> Stages]
        /\ pc'[c] \in Holding
        /\ \A d \in Callers : d # c => pc'[d] = pc[d]
        /\ \A d \in Callers : pc[d] \notin Holding
    BY <1>2 DEF TurnInvariant, Move, Stages, Holding
  <2>2. SendersTakeTurns'
    BY <2>1 DEF SendersTakeTurns
  <2>3. \A i \in 1..Len(send_waiters) : send_waiters[i] # c
    BY DEF TurnInvariant
  <2>4. NoLostWakeup'
    BY <2>1 DEF NoLostWakeup
  <2>. QED
    BY <1>2, <2>1, <2>2, <2>3, <2>4 DEF TurnInvariant
<1>. QED
  BY <1>1, <1>2 DEF WaitForSendTurn

\* ReleaseSendTurn by the holder, which goes on to a stage without the turn.
LEMMA ReleaseKeepsTurn ==
    ASSUME TurnInvariant, NEW c \in Callers, pc[c] \in Holding,
           NEW stage \in {"failed", "sent", "answered", "receiving"},
           ReleaseSendTurn(c, stage)
    PROVE  /\ TurnInvariant'
           /\ pc'[c] = stage
           /\ \A d \in Callers : pc[d] = "receiving" => pc'[d] = "receiving"
<1>1. \A d \in Callers : pc[d] \in Holding => d = c
  BY DEF TurnInvariant, SendersTakeTurns
<1>2. CASE send_waiters = <<>>
  <2>1. /\ pc' \in [Callers -> Stages]
        /\ send_waiters' = send_waiters
        /\ send_in_progress' = FALSE
        /\ \A d \in Callers : pc'[d] = IF d = c THEN stage ELSE pc[d]
    BY <1>2 DEF ReleaseSendTurn, Move, TurnInvariant, Stages
  <2>2. \A d \in Callers : pc'[d] \notin Holding
    BY <1>1, <2>1 DEF Holding
  <2>3. SendersTakeTurns' /\ NoLostWakeup'
    BY <1>2, <2>1, <2>2 DEF SendersTakeTurns, NoLostWakeup
  <2>4. 1..Len(send_waiters) = {}
    BY <1>2
  <2>5. TurnInvariant'
    BY <2>1, <2>2, <2>3, <2>4 DEF TurnInvariant
  <2>. QED
    BY <2>1, <2>5 DEF Holding
<1>3. CASE send_waiters # <<>>
  <2>. DEFINE w == Head(send_waiters)
  <2>1. /\ Len(send_waiters) \in Nat \ {0}
        /\ w = send_waiters[1] /\ w \in Callers
        /\ send_waiters' = Tail(send_waiters)
        /\ send_waiters' \in Seq(Callers)
        /\ Len(send_waiters') = Len(send_waiters) - 1
        /\ \A i \in 1..Len(send_waiters') : send_waiters'[i] = send_waiters[i + 1]
    BY <1>3 DEF ReleaseSendTurn, TurnInvariant
  <2>2. pc[w] = "queued" /\ w # c
    BY <2>1 DEF TurnInvariant, Holding
  <2>3. /\ pc' \in [Callers -> Stages]
        /\ send_in_progress' = FALSE
        /\ \A d \in Callers : pc'[d] = IF d = c THEN stage
                                       ELSE IF d = w THEN "woken" ELSE pc[d]
    BY <1>3, <2>1, <2>2 DEF ReleaseSendTurn, TurnInvariant, Stages
  <2>. HIDE DEF w
  <2>4. \A d \in Callers : pc'[d] \notin Holding
    BY <1>1, <2>3 DEF Holding
  <2>5. \A i \in 1..Len(send_waiters') :
           /\ send_waiters'[i] # w /\ send_waiters'[i] # c
           /\ send_waiters'[i] \in Callers
           /\ \A j \in 1..Len(send_waiters') :
                 send_waiters'[i] = send_waiters'[j] => i = j
    <3>1. \A i \in 1..Len(send_waiters) :
             /\ send_waiters[i] \in Callers
             /\ pc[send_waiters[i]] = "queued"
             /\ \A j \in 1..Len(send_waiters) :
                   send_waiters[i] = send_waiters[j] => i = j
      BY DEF TurnInvariant
    <3>2. \A i \in 1..Len(send_waiters') :
             i + 1 \in 1..Len(send_waiters) /\ i + 1 # 1
      BY <2>1
    <3>3. 1 \in 1..Len(send_waiters) /\ "queued" \notin Holding
      BY <2>1 DEF Holding
    <3>. QED
      BY <2>1, <3>1, <3>2, <3>3
  <2>6. \A i \in 1..Len(send_waiters') : pc'[send_waiters'[i]] = "queued"
    <3>1. \A i \in 1..Len(send_waiters') : pc[send_waiters'[i]] = "queued"
      BY <2>1 DEF TurnInvariant
    <3>. QED
      BY <2>3, <2>5, <3>1
  <2>7. pc'[w] = "woken"
    BY <2>1, <2>2, <2>3
  <2>8. NoLostWakeup'
    BY <2>1, <2>7 DEF NoLostWakeup
  <2>9. SendersTakeTurns'
    BY <2>4 DEF SendersTakeTurns
  <2>10. TurnInvariant'
    BY <2>1, <2>3, <2>4, <2>5, <2>6, <2>8, <2>9 DEF TurnInvariant
  <2>. QED
    BY <2>2, <2>3, <2>10 DEF Holding
<1>. QED
  BY <1>2, <1>3

\* A step that moves only callers in Receive keeps the turn.
LEMMA ResponsesKeepTurn ==
    ASSUME TurnInvariant, UNCHANGED turn_vars, pc' \in [Callers -> Stages],
           \A d \in Callers : \/ pc'[d] = pc[d]
                              \/ /\ pc[d] \in {"sent", "receiving"}
                                 /\ pc'[d] \in {"receiving", "answered", "failed"}
    PROVE  TurnInvariant'
<1>1. \A d \in Callers : /\ pc'[d] \in Holding <=> pc[d] \in Holding
                         /\ pc'[d] = "woken" <=> pc[d] = "woken"
                         /\ pc[d] = "queued" => pc'[d] = "queued"
  BY DEF Holding
<1>2. SendersTakeTurns' /\ NoLostWakeup'
  BY <1>1 DEF TurnInvariant, SendersTakeTurns, NoLostWakeup, turn_vars
<1>. QED
  BY <1>1, <1>2 DEF TurnInvariant, turn_vars

\* A step within the turn keeps it.
LEMMA HolderKeepsTurn ==
    ASSUME TurnInvariant, UNCHANGED turn_vars, NEW c \in Callers,
           pc[c] \in Holding, NEW stage \in Holding, Move(c, stage)
    PROVE  TurnInvariant'
<1>1. /\ pc' \in [Callers -> Stages]
      /\ \A d \in Callers : /\ pc'[d] \in Holding <=> pc[d] \in Holding
                            /\ pc'[d] = "woken" <=> pc[d] = "woken"
                            /\ pc[d] = "queued" => pc'[d] = "queued"
  BY DEF Move, TurnInvariant, Holding, Stages
<1>2. SendersTakeTurns' /\ NoLostWakeup'
  BY <1>1 DEF TurnInvariant, SendersTakeTurns, NoLostWakeup, turn_vars
<1>. QED
  BY <1>1, <1>2 DEF TurnInvariant, turn_vars

(***************************************************************************)
(* Every step of the channel.                                              *)
(***************************************************************************)
\* Receive, once the caller stands in "receiving" or has its response.
LEMMA ReceiveKeepsResponses ==
    ASSUME ChannelInvariant, NEW c \in Callers,
           \A d \in Callers : pc[d] = "receiving" => pc'[d] = "receiving",
           \/ Buffered(c)
           \/ AwaitResponse(c) /\ pc'[c] = "receiving"
    PROVE  /\ ResponseInvariant'
           /\ pending_responses' \subseteq Callers
           /\ buffered_responses' \subseteq Callers
           /\ read_loop' \in {"stopped", "spawned", "reading"}
  BY DEF ChannelInvariant, ChannelTypeOK, ResponseInvariant, PendingHasReader, Buffered,
         AwaitResponse, EnsureReadLoop

\* Steps that leave Receive and the read loop alone.
LEMMA OthersKeepResponses ==
    ASSUME ResponseInvariant, UNCHANGED response_vars,
           \A d \in Callers : pc[d] = "receiving" => pc'[d] = "receiving"
    PROVE  ResponseInvariant'
  BY DEF ResponseInvariant, PendingHasReader, response_vars

\* FailPendingResponses answers every pending caller and stops the loop.
LEMMA FailKeepsInvariants ==
    ASSUME ChannelInvariant, FailPendingResponses, UNCHANGED turn_vars
    PROVE  /\ TurnInvariant' /\ ResponseInvariant'
           /\ pc' \in [Callers -> Stages]
           /\ pending_responses' \subseteq Callers
           /\ buffered_responses' \subseteq Callers
           /\ read_loop' \in {"stopped", "spawned", "reading"}
<1>1. /\ pc' \in [Callers -> Stages]
      /\ \A d \in Callers : \/ pc'[d] = pc[d]
                            \/ pc[d] = "receiving" /\ pc'[d] = "failed"
  BY DEF ChannelInvariant, ChannelTypeOK, ResponseInvariant, FailPendingResponses, Stages
<1>2. TurnInvariant'
  BY <1>1, ResponsesKeepTurn DEF ChannelInvariant
<1>. QED
  BY <1>1, <1>2 DEF ChannelInvariant, ChannelTypeOK, ResponseInvariant,
                    PendingHasReader, FailPendingResponses

\* A caller of Send or a completed waiter asks for the turn.
LEMMA AskingKeepsInvariant ==
    ASSUME ChannelInvariant, NEW c \in Callers, NEW due \in BOOLEAN,
           Send(c, due) \/ Resume(c, due)
    PROVE  ChannelInvariant'
<1>1. /\ pc[c] \in {"idle", "woken"}
      /\ WaitForSendTurn(c, due)
      /\ UNCHANGED <<response_vars, incoming, connected>>
  BY DEF Send, Resume
<1>2. TurnInvariant'
  BY <1>1, WaitKeepsTurn DEF ChannelInvariant
<1>3. \A d \in Callers : pc[d] = "receiving" => pc'[d] = "receiving"
  BY <1>1 DEF WaitForSendTurn, Move, ChannelInvariant, ChannelTypeOK
<1>4. ResponseInvariant'
  BY <1>1, <1>3, OthersKeepResponses DEF ChannelInvariant
<1>5. asked' \subseteq Frames /\ renewals' \in 0..MaxRenewals
  BY <1>1, ClientChannelAssumption
  DEF WaitForSendTurn, ChannelInvariant, ChannelTypeOK, Frames
<1>. QED
  BY <1>1, <1>2, <1>4, <1>5
  DEF ChannelInvariant, ChannelTypeOK, TurnInvariant, response_vars

\* The holder of the turn gives it up without having received anything.
LEMMA GivingUpKeepsInvariant ==
    ASSUME ChannelInvariant, NEW c \in Callers, pc[c] \in Holding,
           NEW stage \in {"failed", "sent"}, ReleaseSendTurn(c, stage),
           UNCHANGED <<response_vars, asked, connected, renewals>>,
           incoming' \in Seq(Frames)
    PROVE  ChannelInvariant'
<1>1. /\ TurnInvariant'
      /\ \A d \in Callers : pc[d] = "receiving" => pc'[d] = "receiving"
  BY ReleaseKeepsTurn DEF ChannelInvariant
<1>2. ResponseInvariant'
  BY <1>1, OthersKeepResponses DEF ChannelInvariant
<1>. QED
  BY <1>1, <1>2 DEF ChannelInvariant, ChannelTypeOK, TurnInvariant, response_vars

\* ChannelInit and every step keep ChannelInvariant.
THEOREM ChannelInductive == ChannelSpec => []ChannelInvariant
<1>1. ASSUME ChannelInit
      PROVE  ChannelInvariant
  <2>1. pc \in [Callers -> Stages] /\ \A c \in Callers : pc[c] \notin Holding
    BY <1>1 DEF ChannelInit, Stages, Holding
  <2>2. /\ send_waiters \in Seq(Callers) /\ 1..Len(send_waiters) = {}
        /\ incoming \in Seq(Frames)
        /\ renewals \in 0..MaxRenewals
    BY <1>1, ClientChannelAssumption DEF ChannelInit
  <2>3. send_in_progress \in BOOLEAN /\ ~send_in_progress /\ connected \in BOOLEAN
    BY <1>1 DEF ChannelInit
  <2>4. TurnInvariant
    BY <1>1, <2>1, <2>2, <2>3
    DEF ChannelInit, TurnInvariant, SendersTakeTurns, NoLostWakeup
  <2>5. ChannelTypeOK /\ ResponseInvariant
    BY <1>1, <2>1, <2>2, <2>3 DEF ChannelInit, ChannelTypeOK, ResponseInvariant, PendingHasReader
  <2>. QED
    BY <2>4, <2>5 DEF ChannelInvariant
<1>2. ASSUME ChannelInvariant, [ChannelNext]_channel_vars
      PROVE  ChannelInvariant'
  <2>1. ASSUME NEW c \in Callers, NEW due \in BOOLEAN,
               Send(c, due) \/ Resume(c, due)
        PROVE  ChannelInvariant'
    BY <1>2, <2>1, AskingKeepsInvariant
  <2>2. ASSUME NEW c \in Callers, RenewalReads(c)
        PROVE  ChannelInvariant'
    <3>1. incoming' \in Seq(Frames)
      BY <1>2, <2>2 DEF RenewalReads, ChannelInvariant, ChannelTypeOK
    <3>2. CASE Head(incoming) = Renewal
      <4>1. TurnInvariant'
        BY <1>2, <2>2, <3>2, HolderKeepsTurn
        DEF RenewalReads, ChannelInvariant, Holding
      <4>2. ResponseInvariant'
        BY <1>2, <2>2, <3>2, OthersKeepResponses
        DEF RenewalReads, ChannelInvariant, Move, ChannelTypeOK
      <4>. QED
        BY <1>2, <2>2, <3>1, <4>1, <4>2
        DEF RenewalReads, ChannelInvariant, ChannelTypeOK, TurnInvariant, response_vars
    <3>3. CASE Head(incoming) # Renewal
      BY <1>2, <2>2, <3>1, <3>3, GivingUpKeepsInvariant DEF RenewalReads, Holding
    <3>. QED
      BY <3>2, <3>3
  <2>3. ASSUME NEW c \in Callers, RenewalFails(c) \/ WriteFails(c)
        PROVE  ChannelInvariant'
    <3>1. incoming' \in Seq(Frames)
      BY <1>2, <2>3
      DEF RenewalFails, WriteFails, ChannelInvariant, ChannelTypeOK, network_vars
    <3>. QED
      BY <1>2, <2>3, <3>1, GivingUpKeepsInvariant
      DEF RenewalFails, WriteFails, Holding, network_vars
  <2>4. ASSUME NEW c \in Callers, Written(c)
        PROVE  ChannelInvariant'
    <3>1. TurnInvariant'
      BY <1>2, <2>4, HolderKeepsTurn DEF Written, ChannelInvariant, Holding
    <3>2. ResponseInvariant'
      BY <1>2, <2>4, OthersKeepResponses DEF Written, ChannelInvariant, Move, ChannelTypeOK
    <3>. QED
      BY <1>2, <2>4, <3>1, <3>2
      DEF Written, ChannelInvariant, ChannelTypeOK, TurnInvariant, response_vars, Frames
  <2>5. ASSUME NEW c \in Callers, SendDone(c)
        PROVE  ChannelInvariant'
    <3>1. CASE ReleaseSendTurn(c, "sent") /\ UNCHANGED response_vars
      <4>1. incoming' \in Seq(Frames)
        BY <1>2, <2>5 DEF SendDone, ChannelInvariant, ChannelTypeOK, network_vars
      <4>. QED
        BY <1>2, <2>5, <3>1, <4>1, GivingUpKeepsInvariant
        DEF SendDone, Holding, network_vars
    <3>2. ASSUME NEW stage \in {"answered", "receiving"},
                 ReleaseSendTurn(c, stage),
                 \/ Buffered(c)
                 \/ AwaitResponse(c) /\ stage = "receiving"
          PROVE  ChannelInvariant'
      <4>1. /\ TurnInvariant'
            /\ pc'[c] = stage
            /\ \A d \in Callers : pc[d] = "receiving" => pc'[d] = "receiving"
        BY <1>2, <2>5, <3>2, ReleaseKeepsTurn
        DEF SendDone, ChannelInvariant, Holding
      <4>2. /\ ResponseInvariant'
            /\ pending_responses' \subseteq Callers
            /\ buffered_responses' \subseteq Callers
            /\ read_loop' \in {"stopped", "spawned", "reading"}
        BY <1>2, <3>2, <4>1, ReceiveKeepsResponses
      <4>. QED
        BY <1>2, <2>5, <4>1, <4>2
        DEF SendDone, ChannelInvariant, ChannelTypeOK, TurnInvariant, network_vars
    <3>. QED
      BY <2>5, <3>1, <3>2 DEF SendDone
  <2>6. ASSUME NEW c \in Callers, Receive(c)
        PROVE  ChannelInvariant'
    <3>1. /\ pc' \in [Callers -> Stages]
          /\ \A d \in Callers : \/ pc'[d] = pc[d]
                                \/ /\ pc[d] = "sent"
                                   /\ pc'[d] \in {"receiving", "answered"}
      BY <1>2, <2>6 DEF Receive, Move, ChannelInvariant, ChannelTypeOK, Stages
    <3>2. TurnInvariant'
      BY <1>2, <2>6, <3>1, ResponsesKeepTurn DEF Receive, ChannelInvariant
    <3>3. AwaitResponse(c) => pc'[c] = "receiving"
      BY <1>2, <2>6
      DEF Receive, Move, Buffered, AwaitResponse, ChannelInvariant, ChannelTypeOK
    <3>4. /\ ResponseInvariant'
          /\ pending_responses' \subseteq Callers
          /\ buffered_responses' \subseteq Callers
          /\ read_loop' \in {"stopped", "spawned", "reading"}
      BY <1>2, <2>6, <3>1, <3>3, ReceiveKeepsResponses DEF Receive
    <3>. QED
      BY <1>2, <2>6, <3>2, <3>4
      DEF Receive, ChannelInvariant, ChannelTypeOK, TurnInvariant, network_vars
  <2>7. CASE StartReadLoop
    <3>1. TurnInvariant'
      BY <1>2, <2>7, ResponsesKeepTurn
      DEF StartReadLoop, ChannelInvariant, ChannelTypeOK
    <3>. QED
      BY <1>2, <2>7, <3>1
      DEF StartReadLoop, ChannelInvariant, ChannelTypeOK, TurnInvariant,
          ResponseInvariant, PendingHasReader, network_vars
  <2>8. CASE ReadLoopReads
    <3>. DEFINE c == Head(incoming)
    <3>1. incoming' \in Seq(Frames) /\ c \in Frames
      BY <1>2, <2>8 DEF ReadLoopReads, ChannelInvariant, ChannelTypeOK
    <3>2. CASE c = Renewal
      BY <1>2, <2>8, <3>1, <3>2, FailKeepsInvariants
      DEF ReadLoopReads, ChannelInvariant, ChannelTypeOK, TurnInvariant
    <3>3. CASE c # Renewal
      <4>. HIDE DEF c
      <4>1. c \in Callers /\ DeliverResponse(c)
        BY <2>8, <3>1, <3>3 DEF ReadLoopReads, Frames, c
      <4>2. /\ pc' \in [Callers -> Stages]
            /\ \A d \in Callers :
                  \/ pc'[d] = pc[d]
                  \/ d = c /\ pc[d] = "receiving" /\ pc'[d] = "answered"
            /\ pending_responses' = pending_responses \ {c}
            /\ buffered_responses' \subseteq Callers
        BY <1>2, <4>1
        DEF DeliverResponse, Move, ChannelInvariant, ChannelTypeOK, ResponseInvariant,
            Stages
      <4>3. TurnInvariant'
        BY <1>2, <2>8, <4>2, ResponsesKeepTurn DEF ReadLoopReads, ChannelInvariant
      <4>4. read_loop' = IF pending_responses' = {} THEN "stopped" ELSE "reading"
        BY <2>8, <3>3 DEF ReadLoopReads, c
      <4>. QED
        BY <1>2, <2>8, <3>1, <4>2, <4>3, <4>4
        DEF ReadLoopReads, ChannelInvariant, ChannelTypeOK, TurnInvariant,
            ResponseInvariant, PendingHasReader
    <3>. QED
      BY <3>2, <3>3
  <2>9. CASE ReadLoopFails
    BY <1>2, <2>9, FailKeepsInvariants
    DEF ReadLoopFails, ChannelInvariant, ChannelTypeOK, TurnInvariant, network_vars
  <2>10. ASSUME UNCHANGED <<pc, turn_vars, response_vars, renewals>>,
                asked' \subseteq Frames, incoming' \in Seq(Frames),
                connected' \in BOOLEAN
         PROVE  ChannelInvariant'
    <3>1. TurnInvariant' /\ ResponseInvariant'
      BY <1>2, <2>10, ResponsesKeepTurn, OthersKeepResponses
      DEF ChannelInvariant, ChannelTypeOK
    <3>. QED
      BY <1>2, <2>10, <3>1
      DEF ChannelInvariant, ChannelTypeOK, turn_vars, response_vars
  <2>11. ASSUME NEW f \in Frames, Answer(f)
         PROVE  ChannelInvariant'
    BY <1>2, <2>10, <2>11 DEF Answer, ChannelInvariant, ChannelTypeOK
  <2>12. CASE ChannelBreaks
    <3>1. asked' \subseteq Frames /\ incoming' \in Seq(Frames)
      BY <2>12 DEF ChannelBreaks
    <3>2. connected' \in BOOLEAN
      BY <2>12 DEF ChannelBreaks
    <3>. QED
      BY <2>10, <2>12, <3>1, <3>2 DEF ChannelBreaks
  <2>13. CASE UNCHANGED channel_vars
    BY <1>2, <2>10, <2>13 DEF channel_vars, network_vars, ChannelInvariant, ChannelTypeOK
  <2>. QED
    BY <1>2, <2>1, <2>2, <2>3, <2>4, <2>5, <2>6, <2>7, <2>8, <2>9, <2>11, <2>12,
       <2>13
    DEF ChannelNext, Continue, ReadLoop
<1>. QED
  BY <1>1, <1>2, PTL DEF ChannelSpec

\* The coroutines, queues and responses of ClientChannel keep their shape.
THEOREM ChannelTypeCorrect == ChannelSpec => []ChannelTypeOK
  BY ChannelInductive, PTL DEF ChannelInvariant

\* WaitForSendTurn and ReleaseSendTurn: the send turn is held by one caller.
THEOREM ExclusiveTurn == ChannelSpec => []SendersTakeTurns
<1>1. ChannelInvariant => SendersTakeTurns
  BY DEF ChannelInvariant, TurnInvariant
<1>. QED
  BY <1>1, ChannelInductive, PTL

\* ReleaseSendTurn: while callers queue for the turn, somebody is about to pass
\* it on.
THEOREM WakeupsKept == ChannelSpec => []NoLostWakeup
<1>1. ChannelInvariant => NoLostWakeup
  BY DEF ChannelInvariant, TurnInvariant
<1>. QED
  BY <1>1, ChannelInductive, PTL

\* The send turn is exclusive and never lost while anybody waits for it.
THEOREM TurnKeepsGoing == ChannelSpec => []TurnIsPassedOn
  BY ExclusiveTurn, WakeupsKept, PTL DEF TurnIsPassedOn

\* EnsureReadLoop and RunReadLoop: a pending response always has a reader.
THEOREM ReaderForPending == ChannelSpec => []PendingHasReader
<1>1. ChannelInvariant => PendingHasReader
  BY DEF ChannelInvariant, ResponseInvariant
<1>. QED
  BY <1>1, ChannelInductive, PTL

(***************************************************************************)
(* The shared subscription of a session.                                   *)
(***************************************************************************)

\* A subscription that nobody has used yet.
LEMMA InitEstablishesInvariant ==
    ASSUME Init PROVE SubscriptionInvariant
  BY DEF Init, CreateView, SubscriptionInvariant, TypeOK, CreationInvariant, ItemInvariant,
         Answerable

\* The invariant says nothing about the views but their shape.
LEMMA ViewsKeepItems ==
    ASSUME SubscriptionInvariant, UNCHANGED <<session_vars, item_vars>>, TypeOK'
    PROVE  SubscriptionInvariant'
<1>1. CreationInvariant'
  BY DEF SubscriptionInvariant, CreationInvariant, session_vars, item_vars
<1>2. ASSUME NEW i \in Items
      PROVE  ItemInvariant(i)'
  BY DEF SubscriptionInvariant, ItemInvariant, session_vars, item_vars
<1>. QED
  BY <1>1, <1>2 DEF SubscriptionInvariant

\* Every step of a consumer, of a coroutine of the session and of the server
\* keeps records, coroutines, handlers and the server's items in step.
LEMMA StepKeepsInvariant ==
    ASSUME SubscriptionInvariant, [Next]_vars
    PROVE  SubscriptionInvariant'
<1>1. ASSUME NEW v \in Readers, CallReadNext(v)
      PROVE  SubscriptionInvariant'
  <2>1. TypeOK'
    BY <1>1
    DEF SubscriptionInvariant, TypeOK, Cancelled, CallReadNext, session_vars,
        item_vars, view_vars
  <2>. QED
    BY <1>1, <2>1, ViewsKeepItems DEF CallReadNext
<1>2. ASSUME NEW v \in Readers, Look(v)
      PROVE  SubscriptionInvariant'
  <2>1. TypeOK'
    BY <1>2
    DEF SubscriptionInvariant, TypeOK, Cancelled, Look, session_vars, item_vars,
        view_vars
  <2>. QED
    BY <1>2, <2>1, ViewsKeepItems DEF Look
<1>3. ASSUME NEW v \in Readers, Park(v)
      PROVE  SubscriptionInvariant'
  <2>1. TypeOK'
    BY <1>3
    DEF SubscriptionInvariant, TypeOK, Cancelled, Park, session_vars, item_vars,
        view_vars
  <2>. QED
    BY <1>3, <2>1, ViewsKeepItems DEF Park
<1>4. ASSUME NEW v \in Views, CloseView(v)
      PROVE  SubscriptionInvariant'
  <2>1. TypeOK'
    BY <1>4
    DEF SubscriptionInvariant, TypeOK, Cancelled, CloseView, CloseViews,
        RemoveItem, RecordsOf, session_vars, item_vars, view_vars
  <2>2. CreationInvariant'
    BY <1>4
    DEF SubscriptionInvariant, TypeOK, CreationInvariant, CloseView, CloseViews,
        RemoveItem, RecordsOf, session_vars, item_vars, view_vars
  <2>3. ASSUME NEW i \in Items
        PROVE  ItemInvariant(i)'
    BY <1>4
    DEF SubscriptionInvariant, TypeOK, CreationInvariant, ItemInvariant,
        Answerable, CloseView, CloseViews, RemoveItem, RecordsOf, session_vars,
        item_vars, view_vars
  <2>. QED
    BY <2>1, <2>2, <2>3 DEF SubscriptionInvariant
<1>5. ASSUME NEW v \in Views, NEW j \in Items, AddItems(v, j)
      PROVE  SubscriptionInvariant'
  <2>1. TypeOK'
    BY <1>5
    DEF SubscriptionInvariant, TypeOK, Cancelled, AddItems, EnsureCreated,
        session_vars, item_vars, view_vars
  <2>2. CreationInvariant'
    BY <1>5
    DEF SubscriptionInvariant, TypeOK, CreationInvariant, AddItems,
        EnsureCreated, session_vars, item_vars, view_vars
  <2>3. ASSUME NEW i \in Items
        PROVE  ItemInvariant(i)'
    BY <1>5
    DEF SubscriptionInvariant, TypeOK, CreationInvariant, ItemInvariant,
        Answerable, AddItems, EnsureCreated, session_vars, item_vars, view_vars
  <2>. QED
    BY <2>1, <2>2, <2>3 DEF SubscriptionInvariant
<1>6. ASSUME NEW v \in Views, NEW j \in Items, RemoveItems(v, j)
      PROVE  SubscriptionInvariant'
  <2>1. TypeOK'
    BY <1>6
    DEF SubscriptionInvariant, TypeOK, Cancelled, RemoveItems, RemoveItem,
        RecordsOf, session_vars, item_vars, view_vars
  <2>2. CreationInvariant'
    BY <1>6
    DEF SubscriptionInvariant, TypeOK, CreationInvariant, RemoveItems,
        RemoveItem, RecordsOf, session_vars, item_vars, view_vars
  <2>3. ASSUME NEW i \in Items
        PROVE  ItemInvariant(i)'
    BY <1>6
    DEF SubscriptionInvariant, TypeOK, CreationInvariant, ItemInvariant,
        Answerable, RemoveItems, RemoveItem, RecordsOf, session_vars, item_vars,
        view_vars
  <2>. QED
    BY <2>1, <2>2, <2>3 DEF SubscriptionInvariant
<1>7. ASSUME NEW j \in Items, Record(j)
      PROVE  SubscriptionInvariant'
  <2>1. TypeOK'
    BY <1>7
    DEF SubscriptionInvariant, TypeOK, Cancelled, Record, session_vars,
        item_vars, view_vars
  <2>2. CreationInvariant'
    BY <1>7
    DEF SubscriptionInvariant, TypeOK, CreationInvariant, ItemInvariant, Record,
        session_vars, item_vars, view_vars
  <2>3. ASSUME NEW i \in Items
        PROVE  ItemInvariant(i)'
    BY <1>7
    DEF SubscriptionInvariant, TypeOK, CreationInvariant, ItemInvariant,
        Answerable, Record, session_vars, item_vars, view_vars
  <2>. QED
    BY <2>1, <2>2, <2>3 DEF SubscriptionInvariant
<1>8. ASSUME NEW j \in Items, StartCreate(j)
      PROVE  SubscriptionInvariant'
  <2>1. TypeOK'
    BY <1>8
    DEF SubscriptionInvariant, TypeOK, Cancelled, StartCreate, session_vars,
        item_vars, view_vars
  <2>2. CreationInvariant'
    BY <1>8
    DEF SubscriptionInvariant, TypeOK, CreationInvariant, StartCreate,
        session_vars, item_vars, view_vars
  <2>3. ASSUME NEW i \in Items
        PROVE  ItemInvariant(i)'
    BY <1>8
    DEF SubscriptionInvariant, TypeOK, CreationInvariant, ItemInvariant,
        Answerable, StartCreate, session_vars, item_vars, view_vars
  <2>. QED
    BY <2>1, <2>2, <2>3 DEF SubscriptionInvariant
<1>9. ASSUME NEW j \in Items, ServerCreates(j)
      PROVE  SubscriptionInvariant'
  <2>1. TypeOK'
    BY <1>9
    DEF SubscriptionInvariant, TypeOK, Cancelled, ServerCreates, session_vars,
        item_vars, view_vars
  <2>2. CreationInvariant'
    BY <1>9
    DEF SubscriptionInvariant, TypeOK, CreationInvariant, ServerCreates,
        session_vars, item_vars, view_vars
  <2>3. ASSUME NEW i \in Items
        PROVE  ItemInvariant(i)'
    BY <1>9
    DEF SubscriptionInvariant, TypeOK, CreationInvariant, ItemInvariant,
        Answerable, ServerCreates, session_vars, item_vars, view_vars
  <2>. QED
    BY <2>1, <2>2, <2>3 DEF SubscriptionInvariant
<1>10. ASSUME NEW j \in Items, CreateDone(j)
      PROVE  SubscriptionInvariant'
  <2>1. TypeOK'
    BY <1>10
    DEF SubscriptionInvariant, TypeOK, Cancelled, CreateDone, session_vars,
        item_vars, view_vars
  <2>2. CreationInvariant'
    BY <1>10
    DEF SubscriptionInvariant, TypeOK, CreationInvariant, CreateDone,
        session_vars, item_vars, view_vars
  <2>3. ASSUME NEW i \in Items
        PROVE  ItemInvariant(i)'
    BY <1>10
    DEF SubscriptionInvariant, TypeOK, CreationInvariant, ItemInvariant,
        Answerable, CreateDone, session_vars, item_vars, view_vars
  <2>. QED
    BY <2>1, <2>2, <2>3 DEF SubscriptionInvariant
<1>11. ASSUME NEW j \in Items, CreateFails(j)
      PROVE  SubscriptionInvariant'
  <2>1. TypeOK'
    BY <1>11
    DEF SubscriptionInvariant, TypeOK, Cancelled, CreateFails, PushNotification,
        session_vars, item_vars, view_vars
  <2>2. CreationInvariant'
    BY <1>11
    DEF SubscriptionInvariant, TypeOK, CreationInvariant, CreateFails,
        PushNotification, session_vars, item_vars, view_vars
  <2>3. ASSUME NEW i \in Items
        PROVE  ItemInvariant(i)'
    BY <1>11
    DEF SubscriptionInvariant, TypeOK, CreationInvariant, ItemInvariant,
        Answerable, CreateFails, PushNotification, session_vars, item_vars,
        view_vars
  <2>. QED
    BY <2>1, <2>2, <2>3 DEF SubscriptionInvariant
<1>12. ASSUME NEW j \in Items, ServerDeletes(j)
      PROVE  SubscriptionInvariant'
  <2>1. TypeOK'
    BY <1>12
    DEF SubscriptionInvariant, TypeOK, Cancelled, ServerDeletes, session_vars,
        item_vars, view_vars
  <2>2. CreationInvariant'
    BY <1>12
    DEF SubscriptionInvariant, TypeOK, CreationInvariant, ServerDeletes,
        session_vars, item_vars, view_vars
  <2>3. ASSUME NEW i \in Items
        PROVE  ItemInvariant(i)'
    BY <1>12
    DEF SubscriptionInvariant, TypeOK, CreationInvariant, ItemInvariant,
        Answerable, ServerDeletes, session_vars, item_vars, view_vars
  <2>. QED
    BY <2>1, <2>2, <2>3 DEF SubscriptionInvariant
<1>13. ASSUME NEW j \in Items, DeleteDone(j)
      PROVE  SubscriptionInvariant'
  <2>1. TypeOK'
    BY <1>13
    DEF SubscriptionInvariant, TypeOK, Cancelled, DeleteDone, session_vars,
        item_vars, view_vars
  <2>2. CreationInvariant'
    BY <1>13
    DEF SubscriptionInvariant, TypeOK, CreationInvariant, DeleteDone,
        session_vars, item_vars, view_vars
  <2>3. ASSUME NEW i \in Items
        PROVE  ItemInvariant(i)'
    BY <1>13
    DEF SubscriptionInvariant, TypeOK, CreationInvariant, ItemInvariant,
        Answerable, DeleteDone, session_vars, item_vars, view_vars
  <2>. QED
    BY <2>1, <2>2, <2>3 DEF SubscriptionInvariant
<1>14. ASSUME NEW j \in Items, DeleteFails(j)
      PROVE  SubscriptionInvariant'
  <2>1. TypeOK'
    BY <1>14
    DEF SubscriptionInvariant, TypeOK, Cancelled, DeleteFails, session_vars,
        item_vars, view_vars
  <2>2. CreationInvariant'
    BY <1>14
    DEF SubscriptionInvariant, TypeOK, CreationInvariant, DeleteFails,
        session_vars, item_vars, view_vars
  <2>3. ASSUME NEW i \in Items
        PROVE  ItemInvariant(i)'
    BY <1>14
    DEF SubscriptionInvariant, TypeOK, CreationInvariant, ItemInvariant,
        Answerable, DeleteFails, session_vars, item_vars, view_vars
  <2>. QED
    BY <2>1, <2>2, <2>3 DEF SubscriptionInvariant
<1>15. ASSUME NEW j \in Items, HandlePublishResponse(j)
      PROVE  SubscriptionInvariant'
  <2>1. TypeOK'
    BY <1>15
    DEF SubscriptionInvariant, TypeOK, Cancelled, HandlePublishResponse,
        PushNotification, session_vars, item_vars, view_vars
  <2>. QED
    BY <1>15, <2>1, ViewsKeepItems DEF HandlePublishResponse
<1>16. ASSUME CreationSucceeds
      PROVE  SubscriptionInvariant'
  <2>1. TypeOK'
    BY <1>16
    DEF SubscriptionInvariant, TypeOK, Cancelled, CreationSucceeds,
        session_vars, item_vars, view_vars
  <2>2. CreationInvariant'
    BY <1>16
    DEF SubscriptionInvariant, TypeOK, CreationInvariant, CreationSucceeds,
        session_vars, item_vars, view_vars
  <2>3. ASSUME NEW i \in Items
        PROVE  ItemInvariant(i)'
    BY <1>16
    DEF SubscriptionInvariant, TypeOK, CreationInvariant, ItemInvariant,
        Answerable, CreationSucceeds, session_vars, item_vars, view_vars
  <2>. QED
    BY <2>1, <2>2, <2>3 DEF SubscriptionInvariant
<1>17. ASSUME CreationFails
      PROVE  SubscriptionInvariant'
  <2>1. TypeOK'
    BY <1>17
    DEF SubscriptionInvariant, TypeOK, Cancelled, CreationFails, session_vars,
        item_vars, view_vars
  <2>2. CreationInvariant'
    BY <1>17
    DEF SubscriptionInvariant, TypeOK, CreationInvariant, CreationFails,
        session_vars, item_vars, view_vars
  <2>3. ASSUME NEW i \in Items
        PROVE  ItemInvariant(i)'
    BY <1>17
    DEF SubscriptionInvariant, TypeOK, CreationInvariant, ItemInvariant,
        Answerable, CreationFails, session_vars, item_vars, view_vars
  <2>. QED
    BY <2>1, <2>2, <2>3 DEF SubscriptionInvariant
<1>18. ASSUME FlushPendingSubscriptions
      PROVE  SubscriptionInvariant'
  <2>1. TypeOK'
    BY <1>18
    DEF SubscriptionInvariant, TypeOK, Cancelled, FlushPendingSubscriptions,
        session_vars, item_vars, view_vars
  <2>2. CreationInvariant'
    BY <1>18
    DEF SubscriptionInvariant, TypeOK, CreationInvariant,
        FlushPendingSubscriptions, session_vars, item_vars, view_vars
  <2>3. ASSUME NEW i \in Items
        PROVE  ItemInvariant(i)'
    BY <1>18
    DEF SubscriptionInvariant, TypeOK, CreationInvariant, ItemInvariant,
        Answerable, FlushPendingSubscriptions, session_vars, item_vars,
        view_vars
  <2>. QED
    BY <2>1, <2>2, <2>3 DEF SubscriptionInvariant
<1>19. ASSUME PublishFails
      PROVE  SubscriptionInvariant'
  <2>1. TypeOK'
    BY <1>19
    DEF SubscriptionInvariant, TypeOK, Cancelled, PublishFails, session_vars,
        item_vars, view_vars
  <2>2. CreationInvariant'
    BY <1>19
    DEF SubscriptionInvariant, TypeOK, CreationInvariant, PublishFails,
        session_vars, item_vars, view_vars
  <2>3. ASSUME NEW i \in Items
        PROVE  ItemInvariant(i)'
    BY <1>19
    DEF SubscriptionInvariant, TypeOK, CreationInvariant, ItemInvariant,
        Answerable, PublishFails, session_vars, item_vars, view_vars
  <2>. QED
    BY <2>1, <2>2, <2>3 DEF SubscriptionInvariant
<1>20. ASSUME Disconnect
      PROVE  SubscriptionInvariant'
  <2>1. TypeOK'
    BY <1>20
    DEF SubscriptionInvariant, TypeOK, Cancelled, Disconnect, session_vars,
        item_vars, view_vars
  <2>2. CreationInvariant'
    BY <1>20
    DEF SubscriptionInvariant, TypeOK, CreationInvariant, Disconnect,
        session_vars, item_vars, view_vars
  <2>3. ASSUME NEW i \in Items
        PROVE  ItemInvariant(i)'
    BY <1>20
    DEF SubscriptionInvariant, TypeOK, CreationInvariant, ItemInvariant,
        Answerable, Disconnect, session_vars, item_vars, view_vars
  <2>. QED
    BY <2>1, <2>2, <2>3 DEF SubscriptionInvariant
<1>21. ASSUME Reset
      PROVE  SubscriptionInvariant'
  <2>1. TypeOK'
    BY <1>21
    DEF SubscriptionInvariant, TypeOK, Cancelled, Reset, CloseAllViews, CloseViews, RemoveItem,
        RecordsOf, session_vars, item_vars, view_vars
  <2>2. CreationInvariant'
    BY <1>21
    DEF SubscriptionInvariant, TypeOK, CreationInvariant, Reset, CloseAllViews, CloseViews,
        RemoveItem, RecordsOf, session_vars, item_vars, view_vars
  <2>3. ASSUME NEW i \in Items
        PROVE  ItemInvariant(i)'
    BY <1>21
    DEF SubscriptionInvariant, TypeOK, CreationInvariant, ItemInvariant,
        Answerable, Reset, CloseAllViews, CloseViews, RemoveItem, RecordsOf,
        session_vars, item_vars, view_vars
  <2>. QED
    BY <2>1, <2>2, <2>3 DEF SubscriptionInvariant
<1>22. CASE UNCHANGED vars
  BY <1>22
  DEF vars, session_vars, item_vars, view_vars, SubscriptionInvariant, TypeOK,
      CreationInvariant, ItemInvariant, Answerable
<1>. QED
  BY <1>1, <1>2, <1>3, <1>4, <1>5, <1>6, <1>7, <1>8, <1>9, <1>10, <1>11, <1>12,
     <1>13, <1>14, <1>15, <1>16, <1>17, <1>18, <1>19, <1>20, <1>21, <1>22
  DEF Next, Progress, Creation

\* SubscriptionInvariant always holds.
THEOREM SubscriptionInductive == Spec => []SubscriptionInvariant
  BY InitEstablishesInvariant, StepKeepsInvariant, PTL DEF Spec

\* The records, coroutines and queues of ClientSubscription keep their shape.
THEOREM SubscriptionTypeCorrect == Spec => []TypeOK
  BY SubscriptionInductive, PTL DEF SubscriptionInvariant

\* EnsureCreated, AddItems and FlushPendingSubscriptions: whichever order they
\* take the lock in, an item that AddItems promised is not lost.
THEOREM PromisedItemsKept == Spec => []NoItemForgotten
<1>1. SubscriptionInvariant => NoItemForgotten
  <2>. SUFFICES ASSUME SubscriptionInvariant, ~refused, NEW i \in Items,
                       items_by_local_id[i] = "held"
                PROVE  \/ /\ i \in pending_subscriptions
                          /\ creation \in {"calling", "flushing"}
                       \/ task[i] \in {"spawned", "requested", "created",
                                       "refused", "reported"}
    BY DEF NoItemForgotten
  <2>1. task[i] \notin {"new", "adding", "done"}
    BY DEF SubscriptionInvariant, ItemInvariant
  <2>2. task[i] = "deferred" => /\ i \in pending_subscriptions
                                /\ creation \in {"calling", "flushing"}
    BY DEF SubscriptionInvariant, CreationInvariant, ItemInvariant
  <2>. QED
    BY <2>1, <2>2 DEF SubscriptionInvariant, TypeOK
<1>. QED
  BY <1>1, SubscriptionInductive, PTL

\* CreateDone, RemoveItem and CloseView: no item is left on the server without
\* a record or a coroutine that will delete it, and no record names an item the
\* server does not have.
THEOREM NoServerItemLeaks == Spec => []RecordsMatchServer
<1>1. SubscriptionInvariant => RecordsMatchServer
  BY DEF SubscriptionInvariant, ItemInvariant, RecordsMatchServer
<1>. QED
  BY <1>1, SubscriptionInductive, PTL

\* CreateMonitoredItem, DeleteMonitoredItem and forget_handlers: a handler is
\* there from before the server knows the item until after it has deleted it.
THEOREM HandlerCoversItem == Spec => []HandlerPerItem
<1>1. SubscriptionInvariant => HandlerPerItem
  BY DEF SubscriptionInvariant, ItemInvariant, HandlerPerItem, TypeOK, Answerable
<1>. QED
  BY <1>1, SubscriptionInductive, PTL
=============================================================================
