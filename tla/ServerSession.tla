---------------------------- MODULE ServerSession ----------------------------
(***************************************************************************)
(* Publishing in one ServerSession (opcua/session/server_session.{h,cpp}): *)
(* which of the session's subscriptions the next Publish response is for,  *)
(* and the Publish handlers of ServerRuntime::Handle, each of which polls  *)
(* the session and sleeps until the next deadline.                         *)
(*                                                                         *)
(* Abstractions.  A subscription is what PollPublish looks at: how many    *)
(* notifications are queued (NotificationQueue tells them apart), the next *)
(* sequence number, the numbers held for Republish and the time since its  *)
(* last message, saturating once every deadline is met.  PrimePublishCycle *)
(* never has anything to do: the constructor sets last_publish_time_.      *)
(***************************************************************************)
EXTENDS Integers, Sequences, FiniteSets, SequencesExt

CONSTANTS MaxSubscriptions,    \* bound on the subscriptions ever created
          Requests,            \* Publish requests the transport may have in hand
          None,
          Parameters,          \* [interval, keep_alive_count] a client may ask for
          MaxPerPublish,       \* notifications one response carries
          MaxElapsed,          \* time past which every deadline is met
          MaxNotifications     \* bound on what a subscription ever queues

ASSUME ServerSessionAssumption ==
    /\ MaxSubscriptions \in Nat
    /\ Parameters \subseteq [interval : Nat \ {0}, keep_alive_count : Nat \ {0}]
    /\ \A p \in Parameters : p.interval * p.keep_alive_count <= MaxElapsed
    /\ MaxPerPublish \in Nat \ {0}
    /\ MaxElapsed \in Nat /\ MaxNotifications \in Nat
    /\ None \notin Requests

VARIABLES subscriptions,       \* id -> ServerSubscription
          publish_order, next_publish_index, next_subscription_id,
          waiting,             \* request -> ticks its handler still sleeps
          answers,             \* request -> the response written for it
          overtaken            \* id -> who was published while it was ready

SubscriptionIds == 1..MaxSubscriptions

session_vars == <<subscriptions, publish_order, next_publish_index,
                  next_subscription_id>>
server_vars == <<session_vars, waiting, answers, overtaken>>

(***************************************************************************)
(* A subscription.                                                         *)
(***************************************************************************)
NewSubscription(p) ==
    [parameters |-> p, enabled |-> TRUE, pending |-> 0, queued |-> 0,
     next_sequence_number |-> 1, retransmit |-> {}, elapsed |-> 0,
     initial_message_sent |-> FALSE]

HasPublishable(s) == s.enabled /\ s.pending > 0

\* NextPublishDeadline relative to last_publish_time_.
PublishDeadline(s) ==
    IF ~s.initial_message_sent \/ HasPublishable(s)
    THEN s.parameters.interval
    ELSE s.parameters.interval * s.parameters.keep_alive_count

IsPublishReady(s) == s.elapsed >= PublishDeadline(s)

\* TryPublish of a ready subscription.  A keep-alive carries the next sequence
\* number without consuming it.
Published(s) ==
    LET sent == [s EXCEPT !.elapsed = 0, !.initial_message_sent = TRUE]
    IN  IF HasPublishable(s)
        THEN [sent EXCEPT
                 !.pending = IF s.pending > MaxPerPublish
                             THEN s.pending - MaxPerPublish ELSE 0,
                 !.retransmit = s.retransmit \cup {s.next_sequence_number},
                 !.next_sequence_number = s.next_sequence_number + 1]
        ELSE sent

\* The sequence numbers of `acks`, a set of <<id, number>>, are acknowledged;
\* those of unknown subscriptions and messages are answered with a bad status.
Acknowledged(table, acks) ==
    [id \in DOMAIN table |->
        [table[id] EXCEPT !.retransmit = {n \in @ : <<id, n>> \notin acks}]]

(***************************************************************************)
(* The order in which subscriptions are published.                         *)
(***************************************************************************)
\* The position, counted from 0, of the entry `offset` places after the cursor.
IndexAt(offset) == (next_publish_index + offset) % Len(publish_order)

NotFound == -1

\* FindNextReadySubscription.
FindNextReadySubscription(table, require_pending) ==
    LET ready == {offset \in 0..(Len(publish_order) - 1) :
                    LET s == table[publish_order[IndexAt(offset) + 1]]
                    IN  /\ require_pending => s.pending > 0
                        /\ IsPublishReady(s)}
    IN  IF ready = {} THEN NotFound
        ELSE IndexAt(CHOOSE o \in ready : \A p \in ready : o <= p)

\* Defect: the cursor stays on the subscription just published.
AdvancePublishCursorOnto(index) == next_publish_index' = index

AdvancePublishCursorAfter(index) ==
    next_publish_index' = (index + 1) % Len(publish_order)

\* Defect: the cursor may be left behind the last entry.
EraseFromOrderUnwrapped(id) ==
    LET position == CHOOSE i \in DOMAIN publish_order : publish_order[i] = id
    IN  /\ publish_order' = RemoveAt(publish_order, position)
        /\ next_publish_index' = IF position - 1 < next_publish_index
                                 THEN next_publish_index - 1
                                 ELSE next_publish_index

\* EraseSubscription, but for the subscription itself.
EraseFromOrder(id) ==
    LET position == CHOOSE i \in DOMAIN publish_order : publish_order[i] = id
        order == RemoveAt(publish_order, position)
        moved == IF position - 1 < next_publish_index
                 THEN next_publish_index - 1 ELSE next_publish_index
    IN  /\ publish_order' = order
        /\ next_publish_index' = IF moved >= Len(order) THEN 0 ELSE moved

\* What is said of who overtook whom once `table` are the subscriptions: a
\* subscription keeps its list while it has something to publish and is due.
Overtakers(table, latest) ==
    [id \in SubscriptionIds |->
        IF /\ id \in DOMAIN table
           /\ HasPublishable(table[id]) /\ IsPublishReady(table[id])
        THEN (overtaken[id] \cap DOMAIN table) \cup (latest \ {id})
        ELSE {}]

(***************************************************************************)
(* The Publish handler of ServerRuntime::Handle.                           *)
(***************************************************************************)
Response(id, number, count) ==
    [status |-> "Good", id |-> id, sequence_number |-> number, count |-> count]
NoSubscription ==
    [status |-> "Bad_NoSubscription", id |-> 0, sequence_number |-> 0, count |-> 0]

\* What PollPublish picks: a subscription with something queued before one that
\* is only due a keep-alive.
PublishIndex(table) ==
    LET pending == FindNextReadySubscription(table, TRUE)
    IN  IF pending # NotFound THEN pending
        ELSE FindNextReadySubscription(table, FALSE)

\* PollPublish finds a subscription that is ready.
PollAnswers(r, table) ==
    /\ table # <<>>
    /\ \E index \in {PublishIndex(table)} \ {NotFound} :
       \E after \in {[table EXCEPT ![publish_order[index + 1]] = Published(@)]} :
          LET id == publish_order[index + 1]
              s == table[id]
          IN  /\ subscriptions' = after
              /\ AdvancePublishCursorAfter(index)
              /\ answers' = [answers EXCEPT ![r] =
                    Response(id, s.next_sequence_number, s.pending - after[id].pending)]
              /\ waiting' = [waiting EXCEPT ![r] = None]
              /\ overtaken' = Overtakers(after, {id})
              /\ UNCHANGED <<publish_order, next_subscription_id>>

\* PollPublish of a session without subscriptions.
PollNoSubscription(r, table) ==
    /\ table = <<>>
    /\ answers' = [answers EXCEPT ![r] = NoSubscription]
    /\ waiting' = [waiting EXCEPT ![r] = None]
    /\ UNCHANGED <<session_vars, overtaken>>

\* The shortest of a set of times.
Shortest(times) == CHOOSE t \in times : \A u \in times : t <= u

\* Defect: a request that finds nothing to publish is forgotten.
PollForgets(r, table) ==
    /\ table # <<>>
    /\ PublishIndex(table) = NotFound
    /\ subscriptions' = table
    /\ UNCHANGED <<publish_order, next_publish_index,
                   next_subscription_id, waiting, answers, overtaken>>

\* PollPublish finds nothing: the handler sleeps until the earliest deadline,
\* but no longer than the shortest publishing interval, and polls again.
PollWaits(r, table) ==
    /\ table # <<>>
    /\ PublishIndex(table) = NotFound
    /\ subscriptions' = table
    /\ waiting' = [waiting EXCEPT ![r] =
          Shortest({PublishDeadline(table[id]) - table[id].elapsed :
                       id \in DOMAIN table}
                   \cup {table[id].parameters.interval : id \in DOMAIN table})]
    /\ UNCHANGED <<publish_order, next_publish_index,
                   next_subscription_id, answers, overtaken>>

Poll(r, table) ==
    \/ PollAnswers(r, table)
    \/ PollNoSubscription(r, table)
    \/ PollWaits(r, table)

\* A Publish request arrives.
HandlePublish(r, acks) ==
    /\ waiting[r] = None /\ answers[r] = None
    /\ \E table \in {Acknowledged(subscriptions, acks)} : Poll(r, table)

\* The handler's Delay is over.
ResumePublish(r) ==
    /\ waiting[r] = 0
    /\ Poll(r, subscriptions)

(***************************************************************************)
(* The other services of the session.                                      *)
(***************************************************************************)
\* FindSubscription finds it; otherwise Bad_SubscriptionIdInvalid.
HasSubscription(id) == id \in DOMAIN subscriptions

\* The subscriptions are now `table`; no handler is concerned.
SubscriptionsBecome(table) ==
    /\ subscriptions' = table
    /\ overtaken' = Overtakers(table, {})
    /\ UNCHANGED <<waiting, answers>>

Without(table, id) == [other \in DOMAIN table \ {id} |-> table[other]]
With(table, id, s) ==
    [other \in DOMAIN table \cup {id} |-> IF other = id THEN s ELSE table[other]]

\* CreateSubscriptionWithId under the runtime's next id.
CreateSubscription(p) ==
    /\ next_subscription_id \in SubscriptionIds
    /\ SubscriptionsBecome(With(subscriptions, next_subscription_id,
                                NewSubscription(p)))
    /\ publish_order' = Append(publish_order, next_subscription_id)
    /\ next_subscription_id' = next_subscription_id + 1
    /\ UNCHANGED next_publish_index

\* DeleteSubscriptions, and TransferSubscriptionsFrom for the session that loses
\* the subscription.
DeleteSubscription(id) ==
    /\ HasSubscription(id)
    /\ SubscriptionsBecome(Without(subscriptions, id))
    /\ EraseFromOrder(id)
    /\ UNCHANGED next_subscription_id

\* ModifySubscription as it arrives over either transport: the request carries
\* no publishingEnabled, and what it decodes to has publishing enabled.
ModifySubscription(id, p) ==
    /\ HasSubscription(id)
    /\ SubscriptionsBecome([subscriptions EXCEPT ![id].parameters = p,
                                                 ![id].enabled = TRUE])
    /\ UNCHANGED <<publish_order, next_publish_index,
                   next_subscription_id>>

SetPublishingMode(id, enabled) ==
    /\ HasSubscription(id)
    /\ subscriptions[id].enabled # enabled
    /\ SubscriptionsBecome([subscriptions EXCEPT ![id].enabled = enabled])
    /\ UNCHANGED <<publish_order, next_publish_index,
                   next_subscription_id>>

\* TransferSubscriptionsFrom another session, where the subscription was created
\* and has waited long with more than one response carries.
TransferIn(p) ==
    /\ next_subscription_id \in SubscriptionIds
    /\ SubscriptionsBecome(With(subscriptions, next_subscription_id,
          [NewSubscription(p) EXCEPT !.pending = MaxPerPublish + 1,
                                     !.queued = MaxPerPublish + 1,
                                     !.elapsed = MaxElapsed]))
    /\ publish_order' = Append(publish_order, next_subscription_id)
    /\ next_subscription_id' = next_subscription_id + 1
    /\ UNCHANGED next_publish_index

\* A monitored item of the subscription queues a notification.
QueueNotification(id) ==
    /\ HasSubscription(id)
    /\ subscriptions[id].queued < MaxNotifications
    /\ SubscriptionsBecome([subscriptions EXCEPT ![id].pending = @ + 1,
                                                 ![id].queued = @ + 1])
    /\ UNCHANGED <<publish_order, next_publish_index,
                   next_subscription_id>>

\* The clock advances, for the subscriptions and the sleeping handlers.
TimePasses ==
    LET Older(table) ==
            [id \in DOMAIN table |->
                [table[id] EXCEPT !.elapsed = IF @ < MaxElapsed THEN @ + 1 ELSE @]]
    IN  /\ subscriptions' = Older(subscriptions)
        /\ waiting' = [r \in Requests |->
              IF waiting[r] \in {None, 0} THEN waiting[r] ELSE waiting[r] - 1]
        /\ overtaken' = Overtakers(Older(subscriptions), {})
        /\ UNCHANGED <<publish_order, next_publish_index, next_subscription_id,
                       answers>>

SessionInit ==
    /\ subscriptions = <<>>
    /\ publish_order = <<>> /\ next_publish_index = 0
    /\ next_subscription_id = 1
    /\ waiting = [r \in Requests |-> None]
    /\ answers = [r \in Requests |-> None]
    /\ overtaken = [id \in SubscriptionIds |-> {}]

\* Everything a session does but receive Publish requests.
SessionStep ==
    \/ \E p \in Parameters : CreateSubscription(p) \/ TransferIn(p)
    \/ \E id \in SubscriptionIds :
          \/ DeleteSubscription(id)
          \/ \E p \in Parameters : ModifySubscription(id, p)
          \/ \E enabled \in BOOLEAN : SetPublishingMode(id, enabled)
          \/ QueueNotification(id)
    \/ \E r \in Requests : ResumePublish(r)
    \/ TimePasses

(***************************************************************************)
(* Properties.                                                             *)
(***************************************************************************)
\* Every access of publish_order_ by next_publish_index_ is in range, and the
\* order lists each subscription of the session exactly once, whatever creations,
\* deletions, transfers and publishes came before: PollPublish never meets its
\* "subscription gone" branch and no subscription drops out of the rotation.
OrderIsExact ==
    /\ ToSet(publish_order) = DOMAIN subscriptions
    /\ Len(publish_order) = Cardinality(DOMAIN subscriptions)
    /\ next_publish_index < Len(publish_order) \/ next_publish_index = 0

\* AdvancePublishCursorAfter, EraseSubscription: while a subscription is due
\* with something to publish, no other one of the session is published twice.
NobodyOvertakesTwice ==
    [][\A r \in Requests :
         (answers'[r] # answers[r] /\ answers'[r] # None) =>
            \A id \in SubscriptionIds : answers'[r].id \notin overtaken[id]
      ]_server_vars
=============================================================================
