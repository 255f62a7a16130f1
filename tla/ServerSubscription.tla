-------------------------- MODULE ServerSubscription --------------------------
(***************************************************************************)
(* ServerSubscription (opcua/session/server_subscription.{h,cpp}) as a      *)
(* whole: the monitored items, whose bindings deliver notifications, and   *)
(* the notification queue that publishes them.                             *)
(*                                                                         *)
(* Whether a value passes PassesDeadband is left open: a value that does   *)
(* not changes nothing.  A status always passes, since it has no numeric   *)
(* value to compare.                                                       *)
(***************************************************************************)
EXTENDS MonitoredItems, NotificationQueue

\* The queue knows the items and their parameters, and one handler may queue a
\* notification for every item there is.
ASSUME ServerSubscriptionAssumption ==
    /\ ItemIds \subseteq Items
    /\ ItemParameters \subseteq MonitoringParameters
    /\ MaxItems <= MaxBatch

vars == <<item_vars, queue_vars>>

(***************************************************************************)
(* Steps of both halves.                                                   *)
(***************************************************************************)
\* QueueNotification for each item of `sources`, under its own parameters.
QueueFor(sources) ==
    QueueNotifications(sources, [i \in DOMAIN items |-> items[i].parameters])

\* QueueItemStatus queues something for item i.
ReportsStatus(i) == items[i].attribute = "event" \/ items[i].reporting

\* OnNotifications: `sources` are the items of one batch, in its order, whose
\* notification is queued.  A notification for a handle no item has any more is
\* dropped.
OnNotifications(sources) ==
    /\ backing = "open"
    /\ \A i \in ToSet(sources) : /\ i \in DOMAIN items
                                 /\ items[i].reporting
                                 /\ items[i].backing_client_handle \in bound
    /\ QueueFor(sources)
    /\ UNCHANGED item_vars

\* The items are told in the order of an unordered_map.
SubscriptionFails ==
    /\ OnSubscriptionError
    /\ \E order \in SetToSeqs({i \in DOMAIN items : ReportsStatus(i)}) :
          QueueFor(order)

BindFails(h) ==
    /\ BindResultBad(h)
    /\ QueueFor(IF ReportsStatus(binds[h].item) THEN <<binds[h].item>> ELSE <<>>)

\* Defect: everything queued goes with the item.
DeleteMonitoredItemsClearing(i) ==
    /\ DeleteMonitoredItem(i)
    /\ pending_notifications' = <<>>
    /\ UNCHANGED <<parameters, publish_vars, elapsed, queued>>

DeleteMonitoredItems(i) == DeleteMonitoredItem(i) /\ DropItem(i)

\* Steps of the items alone.
ItemStep ==
    /\ \/ \E attribute \in Attributes :
             \/ CreateMonitoredItemRejected(attribute)
             \/ \E reporting \in BOOLEAN, p \in ItemParameters :
                   CreateMonitoredItem(attribute, reporting, p)
       \/ \E i \in ItemIds :
             \/ \E p \in ItemParameters : ModifyMonitoredItem(i, p)
             \/ \E reporting \in BOOLEAN : SetMonitoringMode(i, reporting)
       \/ \E h \in Handles : \/ BackendAdds(h)
                             \/ BackendRefuses(h)
                             \/ BackendRemoves(h)
                             \/ BindResultStale(h)
                             \/ BindResultGood(h)
       \/ CloseBackingSubscription
    /\ UNCHANGED queue_vars

\* Steps of the publishing cycle alone.
PublishStep ==
    /\ backing # "closed"
    /\ \/ \E requested \in RequestedParameters : Modify(requested)
       \/ \E enabled \in BOOLEAN : SetPublishingEnabled(enabled)
       \/ PublishKeepAlive
       \/ PublishNotifications
       \/ \E numbers \in SUBSET (1..next_sequence_number) : Acknowledge(numbers)
       \/ TimePasses
    /\ UNCHANGED item_vars

Init == ItemsInit /\ QueueInit

Next ==
    \/ ItemStep
    \/ PublishStep
    \/ \E sources \in Batches : OnNotifications(sources)
    \/ SubscriptionFails
    \/ \E h \in Handles : BindFails(h)
    \/ \E i \in ItemIds : DeleteMonitoredItems(i)

Spec == Init /\ [][Next]_vars

\* Until the subscription is deleted, a Publish request is answered as soon as a
\* poll finds it ready (ServerRuntime polls again at the deadline), and the clock
\* advances.
Polled == (PublishKeepAlive \/ PublishNotifications) /\ backing # "closed" /\ UNCHANGED item_vars
Ticks == TimePasses /\ backing # "closed" /\ UNCHANGED item_vars

FairSpec == Spec /\ WF_vars(Polled) /\ WF_vars(Ticks)

(***************************************************************************)
(* Properties.                                                             *)
(***************************************************************************)
\* EnforceQueueLimit: an item's share of the deque never grows past its queue
\* size, also after ModifyMonitoredItems made that smaller than what is queued,
\* and with several notifications in one batch.
GrowsWithinLimit ==
    [][\A i \in DOMAIN items :
         QueuedOf(pending_notifications', i) > QueuedOf(pending_notifications, i)
            => QueuedOf(pending_notifications', i)
                  <= AtLeastOne(items[i].parameters.queue_size)]_vars

\* NextPublishDeadline, IsPublishReady and moreNotifications: once publishing
\* stays enabled, everything queued is published however the subscription and
\* its items are modified meanwhile, what a full response leaves over included.
BacklogDrains ==
    <>[](parameters.publishing_enabled /\ backing # "closed")
        => <>[](pending_notifications = <<>>)

\* The publishing half on its own, for the items that can be created.
Queue == INSTANCE NotificationQueue
            WITH Items <- ItemIds, MonitoringParameters <- ItemParameters

\* Whatever the items do, the publishing half of the subscription behaves as
\* specified on its own: Queue!QueueSpec, with the stuttering steps told apart
\* first, which TLC checks faster.
ImplementsQueue ==
    Queue!QueueInit /\ [][UNCHANGED queue_vars \/ Queue!QueueNext]_queue_vars
===============================================================================
