-------------------------- MODULE NotificationQueue --------------------------
(***************************************************************************)
(* The publishing half of ServerSubscription                               *)
(* (opcua/session/server_subscription.{h,cpp}): the deque of queued        *)
(* notifications with its per-item limit, the publishing cycle, and the    *)
(* messages retained for Republish until they are acknowledged or evicted. *)
(*                                                                         *)
(* Abstractions.  A queued notification is its source item and a serial    *)
(* number, the order in which it was queued; the value is left out.        *)
(* last_publish_time is kept relative to now() as `elapsed`, saturating at *)
(* MaxElapsed, past which every deadline has been met.  A PublishResponse  *)
(* is sent, never kept: what it carries is the message the step retains.   *)
(* Sequence numbers stay below the 2^32 at which next_sequence_number_     *)
(* would wrap.                                                             *)
(***************************************************************************)
EXTENDS Integers, Sequences, FiniteSets, SequencesExt

CONSTANTS Items,               \* monitored item ids, positive
          MonitoringParameters,\* queue_size and discard_oldest of an item
          RequestedParameters, \* what Create/ModifySubscription may ask for
          UInt32Modulus,       \* 2^w, the width of the counts
          DefaultKeepAliveCount,
          MaxRetransmitQueueNotifications,
          MaxNotificationsPerPublishResponse,
          MaxElapsed,          \* bound on the time told apart
          MaxBatch,            \* bound on what one handler queues
          MaxNotifications     \* bound on the notifications ever queued

VARIABLES parameters, pending_notifications, retransmit_queue,
          retained_notifications, next_sequence_number, initial_message_sent,
          elapsed,
          queued               \* how many notifications were ever queued

publish_vars == <<retransmit_queue, retained_notifications,
                  next_sequence_number, initial_message_sent>>
queue_vars == <<parameters, pending_notifications, publish_vars, elapsed, queued>>

UInt32 == 0..(UInt32Modulus - 1)

SubscriptionParameters ==
    [publishing_interval : Nat, lifetime_count : UInt32,
     max_keep_alive_count : UInt32, max_notifications_per_publish : UInt32,
     publishing_enabled : BOOLEAN]

(***************************************************************************)
(* Parameters and deadlines.                                               *)
(***************************************************************************)
AtLeastOne(n) == IF n = 0 THEN 1 ELSE n

ReviseParameters(p) ==
    LET keep_alive == IF p.max_keep_alive_count = 0
                      THEN DefaultKeepAliveCount ELSE p.max_keep_alive_count
        min_lifetime == (3 * keep_alive) % UInt32Modulus
    IN  [p EXCEPT !.max_keep_alive_count = keep_alive,
                  !.lifetime_count = IF p.lifetime_count < min_lifetime
                                     THEN min_lifetime ELSE p.lifetime_count]

PublishingInterval == AtLeastOne(parameters.publishing_interval)
KeepAliveInterval ==
    PublishingInterval * AtLeastOne(parameters.max_keep_alive_count)

HasPublishable ==
    parameters.publishing_enabled /\ pending_notifications # <<>>

\* The deadline of NextPublishDeadline, which IsPublishReady compares with.
IsPublishReady ==
    elapsed >= IF HasPublishable \/ ~initial_message_sent
               THEN PublishingInterval ELSE KeepAliveInterval

ASSUME NotificationQueueAssumption ==
    /\ Items \subseteq Nat \ {0}
    /\ MonitoringParameters \subseteq
          [queue_size : Nat, discard_oldest : BOOLEAN]
    /\ UInt32Modulus \in Nat \ {0}
    /\ DefaultKeepAliveCount \in UInt32 \ {0}
    /\ RequestedParameters \subseteq SubscriptionParameters
    /\ MaxNotificationsPerPublishResponse \in Nat \ {0}
    \* pinned by a static_assert in server_subscription_unittest.cpp
    /\ MaxRetransmitQueueNotifications \in Nat
    /\ MaxNotificationsPerPublishResponse <= MaxRetransmitQueueNotifications
    /\ MaxNotifications \in Nat /\ MaxBatch \in Nat
    /\ \A r \in RequestedParameters :
          LET p == ReviseParameters(r)
          IN  MaxElapsed >= AtLeastOne(p.publishing_interval)
                                * AtLeastOne(p.max_keep_alive_count)

(***************************************************************************)
(* The deque of queued notifications.                                      *)
(***************************************************************************)
\* How many notifications of an item a deque holds.
QueuedOf(queue, item) == Cardinality({i \in DOMAIN queue : queue[i].source = item})

\* Defect: the limit does not count the notification just pushed.
EnforceQueueLimitLate(queue, item, p) ==
    LET indices == {i \in DOMAIN queue : queue[i].source = item}
    IN  IF QueuedOf(queue, item) <= AtLeastOne(p.queue_size) + 1 THEN queue
        ELSE RemoveAt(queue, IF p.discard_oldest
                             THEN Min(indices) ELSE Max(indices))

\* EnforceQueueLimit: at most one entry is dropped per push.
EnforceQueueLimit(queue, item, p) ==
    LET indices == {i \in DOMAIN queue : queue[i].source = item}
    IN  IF QueuedOf(queue, item) <= AtLeastOne(p.queue_size) THEN queue
        ELSE RemoveAt(queue, IF p.discard_oldest
                             THEN Min(indices) ELSE Max(indices))

\* Defect: a notification is pushed at the wrong end.
PushedInFront(queue, item, serial, p) ==
    EnforceQueueLimit(<<[source |-> item, serial |-> serial]>> \o queue, item, p)

\* The deque once QueueNotification has pushed one more for the item.
Pushed(queue, item, serial, p) ==
    EnforceQueueLimit(Append(queue, [source |-> item, serial |-> serial]), item, p)

\* The deque after each QueueNotification of a handler that queues one for each
\* item of `sources` in turn.  p[i] holds the monitoring parameters of item i.
Pushes(sources, p) ==
    LET after[k \in 0..Len(sources)] ==
            IF k = 0 THEN pending_notifications
            ELSE Pushed(after[k - 1], sources[k], queued + k, p[sources[k]])
    IN  after

QueueNotifications(sources, p) ==
    /\ queued + Len(sources) <= MaxNotifications
    /\ pending_notifications' = Pushes(sources, p)[Len(sources)]
    /\ queued' = queued + Len(sources)
    /\ UNCHANGED <<parameters, publish_vars, elapsed>>

\* The entries of a sequence at the positions in `keep`, in their order; what is
\* kept of its first entries.
Kept(seq, keep) ==
    LET kept[k \in 0..Len(seq)] ==
            IF k = 0 THEN <<>>
            ELSE IF k \in keep THEN Append(kept[k - 1], seq[k]) ELSE kept[k - 1]
    IN  kept

KeepAt(seq, keep) == Kept(seq, keep)[Len(seq)]

\* The trailing erase of DeleteMonitoredItems.
DropItem(item) ==
    /\ pending_notifications' =
          KeepAt(pending_notifications,
                 {i \in DOMAIN pending_notifications :
                     pending_notifications[i].source # item})
    /\ UNCHANGED <<parameters, publish_vars, elapsed, queued>>

(***************************************************************************)
(* The publishing cycle.                                                   *)
(***************************************************************************)
\* Defect: a modified subscription starts its publishing cycle afresh.
ModifyRestarted(requested) ==
    /\ parameters' = ReviseParameters(requested)
    /\ elapsed' = 0
    /\ UNCHANGED <<pending_notifications, publish_vars, queued>>

Modify(requested) ==
    /\ parameters' = ReviseParameters(requested)
    /\ UNCHANGED <<pending_notifications, publish_vars, elapsed, queued>>

SetPublishingEnabled(publishing_enabled) ==
    /\ parameters' = [parameters EXCEPT !.publishing_enabled = publishing_enabled]
    /\ UNCHANGED <<pending_notifications, publish_vars, elapsed, queued>>

\* TryPublish with nothing to publish: the message carries the next sequence
\* number without consuming it and is not retained.
PublishKeepAlive ==
    /\ ~HasPublishable
    /\ IsPublishReady
    /\ elapsed' = 0
    /\ initial_message_sent' = TRUE
    /\ UNCHANGED <<parameters, pending_notifications, retransmit_queue,
                   retained_notifications, next_sequence_number, queued>>

\* How many notifications the first messages of a queue carry.
Totals(queue) ==
    LET total[n \in 0..Len(queue)] ==
            IF n = 0 THEN 0 ELSE total[n - 1] + Len(queue[n].notification_data)
    IN  total

\* How many the messages of a queue carry.
Notifications(queue) == Totals(queue)[Len(queue)]

\* How many entries one TryPublish drains.
MaxEntries ==
    LET limit == parameters.max_notifications_per_publish
        requested == IF limit = 0 THEN Len(pending_notifications) ELSE limit
    IN  Min({requested, MaxNotificationsPerPublishResponse,
             Len(pending_notifications)})

\* Defect: room is made for one more full response, the newest message or not.
EvictionsMakingRoom(queue, retained) ==
    Min({n \in 0..Len(queue) :
           \/ n = Len(queue)
           \/ retained - Totals(queue)[n]
                 <= MaxRetransmitQueueNotifications
                       - MaxNotificationsPerPublishResponse})

\* How many of the oldest messages the eviction loop of TryPublish drops from a
\* queue that retains `retained` notifications.
Evictions(queue, retained) ==
    Min({n \in 0..(Len(queue) - 1) :
           \/ n = Len(queue) - 1
           \/ retained - Totals(queue)[n]
                 <= MaxRetransmitQueueNotifications})

PublishNotifications ==
    LET n == MaxEntries
        message == [sequence_number |-> next_sequence_number,
                    notification_data |-> SubSeq(pending_notifications, 1, n)]
        queue == Append(retransmit_queue, message)
        retained == retained_notifications + n
        evicted == Evictions(queue, retained)
    IN  /\ HasPublishable
        /\ IsPublishReady
        /\ pending_notifications' = SubSeq(pending_notifications, n + 1,
                                           Len(pending_notifications))
        /\ next_sequence_number' = next_sequence_number + 1
        /\ retransmit_queue' = SubSeq(queue, evicted + 1, Len(queue))
        /\ retained_notifications' = retained - Totals(queue)[evicted]
        /\ elapsed' = 0
        /\ initial_message_sent' = TRUE
        /\ UNCHANGED <<parameters, queued>>

\* Where the messages with those sequence numbers are held.
PlacesOf(sequence_numbers) ==
    {i \in DOMAIN retransmit_queue :
        retransmit_queue[i].sequence_number \in sequence_numbers}

\* Defect: the retained total does not follow an acknowledgement.
AcknowledgeUncounted(sequence_numbers) ==
    /\ retransmit_queue' =
          KeepAt(retransmit_queue,
                 DOMAIN retransmit_queue \ PlacesOf(sequence_numbers))
    /\ UNCHANGED <<parameters, pending_notifications, retained_notifications,
                   next_sequence_number, initial_message_sent, elapsed, queued>>

\* Acknowledge; numbers that are not held are ignored.
Acknowledge(sequence_numbers) ==
    LET places == PlacesOf(sequence_numbers)
    IN  /\ retransmit_queue' =
              KeepAt(retransmit_queue, DOMAIN retransmit_queue \ places)
        /\ retained_notifications' = retained_notifications
              - Notifications(KeepAt(retransmit_queue, places))
        /\ UNCHANGED <<parameters, pending_notifications, next_sequence_number,
                       initial_message_sent, elapsed, queued>>

TimePasses ==
    /\ elapsed' = IF elapsed < MaxElapsed THEN elapsed + 1 ELSE elapsed
    /\ UNCHANGED <<parameters, pending_notifications, publish_vars, queued>>

(***************************************************************************)
(* The specification of the half on its own: items come and go and change  *)
(* their parameters at will, and a handler queues at most MaxBatch at once. *)
(***************************************************************************)
Batches == UNION {[1..n -> Items] : n \in 1..MaxBatch}

QueueInit ==
    /\ \E requested \in RequestedParameters :
          parameters = ReviseParameters(requested)
    /\ pending_notifications = <<>>
    /\ retransmit_queue = <<>>
    /\ retained_notifications = 0
    /\ next_sequence_number = 1
    /\ initial_message_sent = FALSE
    /\ elapsed = 0
    /\ queued = 0

QueueNext ==
    \/ \E item \in Items : DropItem(item)
    \/ \E requested \in RequestedParameters : Modify(requested)
    \/ \E publishing_enabled \in BOOLEAN : SetPublishingEnabled(publishing_enabled)
    \/ PublishKeepAlive
    \/ PublishNotifications
    \/ \E numbers \in SUBSET (1..next_sequence_number) : Acknowledge(numbers)
    \/ TimePasses
    \/ \E sources \in Batches, p \in [Items -> MonitoringParameters] :
          QueueNotifications(sources, p)

QueueSpec == QueueInit /\ [][QueueNext]_queue_vars

(***************************************************************************)
(* Properties.                                                             *)
(***************************************************************************)
\* TryPublish and Acknowledge: "the retained total has to follow it or the
\* bound drifts": after any mix of publishes, evictions and acknowledgements
\* from the middle, retained_notifications is what the queue really holds.
RetainedIsExact == retained_notifications = Notifications(retransmit_queue)

\* Notifications in the order they were queued; all of s before any of t.
Ascending(s) == \A i, j \in DOMAIN s : i < j => s[i].serial < s[j].serial
Precedes(s, t) == \A i \in DOMAIN s, j \in DOMAIN t : s[i].serial < t[j].serial

\* Notifications are delivered in the order they were queued and none is in two
\* messages, whatever the per-item limit, deletions, partial drains,
\* acknowledgements and evictions took out in between; sequence numbers grow
\* along the retransmission queue and stay below the next one.
DeliveryInOrder ==
    /\ Ascending(pending_notifications)
    /\ \A i \in DOMAIN retransmit_queue :
          LET message == retransmit_queue[i]
          IN  /\ Ascending(message.notification_data)
              /\ Precedes(message.notification_data, pending_notifications)
              /\ message.sequence_number < next_sequence_number
              /\ \A j \in DOMAIN retransmit_queue : i < j =>
                    /\ message.sequence_number < retransmit_queue[j].sequence_number
                    /\ Precedes(message.notification_data,
                                retransmit_queue[j].notification_data)

\* Where the first retained message with that number is, if there is one; none
\* is Bad_MessageNotAvailable.
Republish(queue, number) ==
    {i \in DOMAIN queue :
        /\ queue[i].sequence_number = number
        /\ \A j \in 1..(i - 1) : queue[j].sequence_number # number}

\* Notification n can be asked for again under that number.
Republishable(queue, number, n) ==
    \E i \in Republish(queue, number) : n \in ToSet(queue[i].notification_data)

\* TryPublish: "The size guard keeps the message just published Republishable",
\* and EnforceQueueLimit: a queued notification leaves the deque only inside a
\* message that Republish then finds, together with its item, or in
\* favour of another notification of that item.
NothingLost ==
    [][\A n \in ToSet(pending_notifications) \ ToSet(pending_notifications') :
         \/ Republishable(retransmit_queue', next_sequence_number, n)
         \/ DropItem(n.source)
         \/ /\ queued' > queued
            /\ \E m \in ToSet(pending_notifications') : m.source = n.source
      ]_queue_vars
=============================================================================
