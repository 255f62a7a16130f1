------------------------- MODULE ClientSubscription -------------------------
(***************************************************************************)
(* ClientSubscription (opcua/client/client_subscription.{h,cpp}) over      *)
(* ClientProtocolSubscription: the one server-side subscription of a       *)
(* client session, shared by the views of several consumers.               *)
(*                                                                         *)
(* The consumers run on executors of their own, the session's coroutines   *)
(* on another: what runs under `mutex_` or a view's `mutex` is one step,   *)
(* and anything may happen between two of those.                           *)
(*                                                                         *)
(* Abstractions.  An item is added once and its local id, client handle    *)
(* and server id are the item itself.  AddItems and RemoveItems take one   *)
(* item.  A view's queue is the number of notifications in it.  AddItems   *)
(* never suspends, so a consumer does not close its view inside one, and   *)
(* adds nothing to a view it has closed.  A call fails when the connection *)
(* is lost; the server may refuse to create the subscription or an item.   *)
(* What coroutines do after ClientSession::Reset destroyed the channel     *)
(* under them is undefined and left out: only the readers go on.           *)
(***************************************************************************)
EXTENDS Integers

CONSTANTS Items, Views,
          Readers,           \* the views whose consumer reads
          MaxNotifications   \* bound on the notifications ever pushed

ASSUME ClientSubscriptionAssumption == /\ Readers \subseteq Views
                                       /\ MaxNotifications \in Nat

VARIABLES link,           \* the session: up, its connection lost, or Reset
          impl,           \* impl_ is there
          is_creating,
          creation,       \* where EnsureCreated's coroutine stands
          refused,        \* the subscription was refused some time
          publish_loop_running,
          items_by_local_id,     \* the records: absent, held, or bound
          pending_subscriptions,
          handlers,
          owner,          \* the view that adds the item
          task,           \* where AddItems and the create coroutine stand
          deletion,       \* where the delete coroutine of an item stands
          server_items,   \* the items the server has
          closed,
          pending_notifications,
          reader,         \* where each view's ReadNext stands
          pushed

session_vars == <<link, impl, is_creating, creation, refused,
                  publish_loop_running>>
item_vars == <<items_by_local_id, pending_subscriptions, handlers, owner, task,
               deletion, server_items>>
view_vars == <<closed, pending_notifications, reader, pushed>>
vars == <<session_vars, item_vars, view_vars>>

(***************************************************************************)
(* The views' queues.                                                      *)
(***************************************************************************)
\* Cancelling wakeup_timer resumes the ReadNext that waits on it; it does
\* nothing for one that is still on its way to the wait.
Cancelled(r) == IF r = "waiting" THEN "looking" ELSE r

PushNotification(v) ==
    IF closed[v]
    THEN UNCHANGED view_vars
    ELSE /\ pending_notifications' = [pending_notifications EXCEPT ![v] = @ + 1]
         /\ pushed' = pushed + 1
         /\ reader' = [reader EXCEPT ![v] = Cancelled(@)]
         /\ UNCHANGED closed

CallReadNext(v) ==
    /\ reader[v] = "away"
    /\ reader' = [reader EXCEPT ![v] = "looking"]
    /\ UNCHANGED <<session_vars, item_vars, closed, pending_notifications, pushed>>

\* ReadNext under the view's lock: the end of the stream, some notifications,
\* or nothing, and then it goes to wait.
Look(v) ==
    /\ reader[v] = "looking"
    /\ \/ /\ closed[v]
          /\ reader' = [reader EXCEPT ![v] = "told"]
          /\ UNCHANGED pending_notifications
       \/ /\ ~closed[v]
          /\ \E count \in 1..pending_notifications[v] :
                pending_notifications' =
                   [pending_notifications EXCEPT ![v] = @ - count]
          /\ reader' = [reader EXCEPT ![v] = "away"]
       \/ /\ ~closed[v]
          /\ pending_notifications[v] = 0
          /\ reader' = [reader EXCEPT ![v] = "parking"]
          /\ UNCHANGED pending_notifications
    /\ UNCHANGED <<session_vars, item_vars, closed, pushed>>

\* The lock is released before the wait on the timer begins.
Park(v) ==
    /\ reader[v] = "parking"
    /\ reader' = [reader EXCEPT ![v] = "waiting"]
    /\ UNCHANGED <<session_vars, item_vars, closed, pending_notifications, pushed>>

(***************************************************************************)
(* Adding an item.                                                         *)
(***************************************************************************)
EnsureCreated ==
    IF impl \/ is_creating
    THEN UNCHANGED <<impl, is_creating, creation>>
    ELSE /\ impl' = TRUE
         /\ is_creating' = TRUE
         /\ creation' = "calling"

\* AddItems up to its lock.
AddItems(v, i) ==
    /\ link # "reset"
    /\ ~closed[v]
    /\ owner[i] = v
    /\ task[i] = "new"
    /\ EnsureCreated
    /\ task' = [task EXCEPT ![i] = "adding"]
    /\ UNCHANGED <<link, refused, publish_loop_running, items_by_local_id,
                   pending_subscriptions, handlers, owner, deletion,
                   server_items, view_vars>>

\* Defect: whether to defer is decided before the lock is taken.
RecordUnlocked(i) ==
    /\ link # "reset"
    /\ task[i] = "adding"
    /\ items_by_local_id' = [items_by_local_id EXCEPT ![i] = "held"]
    /\ pending_subscriptions' = pending_subscriptions \cup {i}
    /\ task' = [task EXCEPT ![i] = "deferred"]
    /\ UNCHANGED <<session_vars, handlers, owner, deletion, server_items,
                   view_vars>>

\* Under the lock: record the item and decide whether it is deferred until the
\* subscription exists; otherwise spawn its creation.
Record(i) ==
    /\ link # "reset"
    /\ task[i] = "adding"
    /\ items_by_local_id' = [items_by_local_id EXCEPT ![i] = "held"]
    /\ IF is_creating \/ ~impl
       THEN /\ pending_subscriptions' = pending_subscriptions \cup {i}
            /\ task' = [task EXCEPT ![i] = "deferred"]
       ELSE /\ task' = [task EXCEPT ![i] = "spawned"]
            /\ UNCHANGED pending_subscriptions
    /\ UNCHANGED <<session_vars, handlers, owner, deletion, server_items,
                   view_vars>>

(***************************************************************************)
(* Creating the subscription.                                              *)
(***************************************************************************)
\* CreateSubscription fails: what was deferred is dropped.
CreationFails ==
    /\ link # "reset"
    /\ creation = "calling"
    /\ creation' = "none"
    /\ impl' = FALSE
    /\ is_creating' = FALSE
    /\ refused' = TRUE
    /\ pending_subscriptions' = {}
    /\ UNCHANGED <<link, publish_loop_running, items_by_local_id, handlers,
                   owner, task, deletion, server_items, view_vars>>

CreationSucceeds ==
    /\ link = "up"
    /\ creation = "calling"
    /\ creation' = "flushing"
    /\ is_creating' = FALSE
    /\ UNCHANGED <<link, impl, refused, publish_loop_running, item_vars,
                   view_vars>>

\* FlushPendingSubscriptions, then StartPublishLoop.
FlushPendingSubscriptions ==
    /\ link # "reset"
    /\ creation = "flushing"
    /\ creation' = "done"
    /\ task' = [i \in Items |-> IF i \in pending_subscriptions
                                THEN "spawned" ELSE task[i]]
    /\ pending_subscriptions' = {}
    /\ publish_loop_running' = TRUE
    /\ UNCHANGED <<link, impl, is_creating, refused, items_by_local_id,
                   handlers, owner, deletion, server_items, view_vars>>

(***************************************************************************)
(* Creating an item.                                                       *)
(***************************************************************************)

\* SpawnCreateMonitoredItem's coroutine up to the request.
StartCreate(i) ==
    /\ link # "reset"
    /\ task[i] = "spawned"
    /\ IF impl
       THEN /\ task' = [task EXCEPT ![i] = "requested"]
            /\ handlers' = handlers \cup {i}
       ELSE /\ task' = [task EXCEPT ![i] = "done"]
            /\ UNCHANGED handlers
    /\ UNCHANGED <<session_vars, items_by_local_id, pending_subscriptions,
                   owner, deletion, server_items, view_vars>>

\* The server creates the item, or refuses it.
ServerCreates(i) ==
    /\ link = "up"
    /\ task[i] = "requested"
    /\ \/ /\ server_items' = server_items \cup {i}
          /\ task' = [task EXCEPT ![i] = "created"]
       \/ /\ task' = [task EXCEPT ![i] = "refused"]
          /\ UNCHANGED server_items
    /\ UNCHANGED <<session_vars, items_by_local_id, pending_subscriptions,
                   handlers, owner, deletion, view_vars>>

\* Defect: an item removed meanwhile is not undone.
CreateDoneUnowned(i) ==
    /\ link = "up"
    /\ task[i] = "created"
    /\ task' = [task EXCEPT ![i] = "done"]
    /\ items_by_local_id' = IF items_by_local_id[i] = "absent"
                            THEN items_by_local_id
                            ELSE [items_by_local_id EXCEPT ![i] = "bound"]
    /\ UNCHANGED <<session_vars, pending_subscriptions, handlers, owner,
                   deletion, server_items, view_vars>>

\* The response: the record gets its server id, or, when the item was removed
\* meanwhile, the item is deleted again.
CreateDone(i) ==
    /\ link = "up"
    /\ task[i] = "created"
    /\ task' = [task EXCEPT ![i] = "done"]
    /\ IF items_by_local_id[i] = "absent"
       THEN /\ deletion' = [deletion EXCEPT ![i] = "sent"]
            /\ UNCHANGED items_by_local_id
       ELSE /\ items_by_local_id' = [items_by_local_id EXCEPT ![i] = "bound"]
            /\ UNCHANGED deletion
    /\ UNCHANGED <<session_vars, pending_subscriptions, handlers, owner,
                   server_items, view_vars>>

\* A refusal or a lost call: the handler is forgotten, the record stays, and
\* the view is told.
CreateFails(i) ==
    /\ \/ link # "reset" /\ task[i] = "refused"
       \/ link = "lost" /\ task[i] \in {"requested", "created"}
    /\ task' = [task EXCEPT ![i] = "reported"]
    /\ handlers' = handlers \ {i}
    /\ PushNotification(owner[i])
    /\ UNCHANGED <<session_vars, items_by_local_id, pending_subscriptions,
                   owner, deletion, server_items>>

(***************************************************************************)
(* Removing items and closing views.                                       *)
(***************************************************************************)
\* RemoveItem of each item in S.
RemoveItem(S) ==
    /\ items_by_local_id' = [i \in Items |-> IF i \in S THEN "absent"
                                             ELSE items_by_local_id[i]]
    /\ pending_subscriptions' = pending_subscriptions \ S
    /\ deletion' = [i \in Items |->
                      IF i \in S /\ items_by_local_id[i] = "bound"
                      THEN "sent" ELSE deletion[i]]

RecordsOf(v) == {i \in Items : owner[i] = v /\ items_by_local_id[i] # "absent"}

RemoveItems(v, i) ==
    /\ link # "reset"
    /\ i \in RecordsOf(v)
    /\ RemoveItem({i})
    /\ UNCHANGED <<session_vars, handlers, owner, task, server_items, view_vars>>

\* Defect: a closed view keeps its items.
CloseViewsOnly(V) ==
    /\ closed' = [v \in Views |-> v \in V \/ closed[v]]
    /\ pending_notifications' = [v \in Views |-> IF v \in V THEN 0
                                                 ELSE pending_notifications[v]]
    /\ reader' = [v \in Views |-> IF v \in V THEN Cancelled(reader[v])
                                  ELSE reader[v]]
    /\ UNCHANGED <<pushed, item_vars>>

\* Marks the views in V closed, empties and wakes them, and removes their
\* items.  RemoveItem takes the lock anew for every item and looks the record
\* up again, so the items may as well go at once.
CloseViews(V) ==
    /\ closed' = [v \in Views |-> v \in V \/ closed[v]]
    /\ pending_notifications' = [v \in Views |-> IF v \in V THEN 0
                                                 ELSE pending_notifications[v]]
    /\ reader' = [v \in Views |-> IF v \in V THEN Cancelled(reader[v])
                                  ELSE reader[v]]
    /\ RemoveItem(UNION {RecordsOf(v) : v \in V})
    /\ UNCHANGED <<pushed, handlers, owner, task, server_items>>

CloseView(v) ==
    /\ link # "reset"
    /\ ~closed[v]
    /\ \A i \in Items : owner[i] = v => task[i] # "adding"
    /\ CloseViews({v})
    /\ UNCHANGED session_vars

CloseAllViews == CloseViews({v \in Views : ~closed[v]})

\* ClientSession::Reset: the views are closed and the channel is gone.
Reset ==
    /\ link # "reset"
    /\ link' = "reset"
    /\ CloseAllViews
    /\ UNCHANGED <<impl, is_creating, creation, refused, publish_loop_running>>

ServerDeletes(i) ==
    /\ link = "up"
    /\ deletion[i] = "sent"
    /\ deletion' = [deletion EXCEPT ![i] = "removed"]
    /\ server_items' = server_items \ {i}
    /\ UNCHANGED <<session_vars, items_by_local_id, pending_subscriptions,
                   handlers, owner, task, view_vars>>

DeleteDone(i) ==
    /\ link = "up"
    /\ deletion[i] = "removed"
    /\ deletion' = [deletion EXCEPT ![i] = "done"]
    /\ handlers' = handlers \ {i}
    /\ UNCHANGED <<session_vars, items_by_local_id, pending_subscriptions,
                   owner, task, server_items, view_vars>>

\* A lost call returns before the handler is dropped.
DeleteFails(i) ==
    /\ link = "lost"
    /\ deletion[i] \in {"sent", "removed"}
    /\ deletion' = [deletion EXCEPT ![i] = "done"]
    /\ UNCHANGED <<session_vars, items_by_local_id, pending_subscriptions,
                   handlers, owner, task, server_items, view_vars>>

(***************************************************************************)
(* The publish loop.                                                       *)
(***************************************************************************)
\* A Publish response with a value of item i, perhaps queued before the item
\* was deleted, is dispatched to the item's handler.
HandlePublishResponse(i) ==
    /\ link = "up"
    /\ publish_loop_running
    /\ pushed < MaxNotifications
    /\ i \in server_items \/ deletion[i] = "removed"
    /\ i \in handlers
    /\ PushNotification(owner[i])
    /\ UNCHANGED <<session_vars, item_vars>>

PublishFails ==
    /\ link = "lost"
    /\ publish_loop_running
    /\ publish_loop_running' = FALSE
    /\ UNCHANGED <<link, impl, is_creating, creation, refused, item_vars,
                   view_vars>>

Disconnect ==
    /\ link = "up"
    /\ link' = "lost"
    /\ UNCHANGED <<impl, is_creating, creation, refused, publish_loop_running,
                   item_vars, view_vars>>

(***************************************************************************)
(* The specification.                                                      *)
(***************************************************************************)
\* Every consumer has a view of its own from the start.
CreateView ==
    /\ closed = [v \in Views |-> FALSE]
    /\ pending_notifications = [v \in Views |-> 0]
    /\ reader = [v \in Views |-> "away"]

Init ==
    /\ link = "up"
    /\ impl = FALSE
    /\ is_creating = FALSE
    /\ creation = "none"
    /\ refused = FALSE
    /\ publish_loop_running = FALSE
    /\ items_by_local_id = [i \in Items |-> "absent"]
    /\ pending_subscriptions = {}
    /\ handlers = {}
    /\ owner \in [Items -> Views]
    /\ task = [i \in Items |-> "new"]
    /\ deletion = [i \in Items |-> "none"]
    /\ server_items = {}
    /\ CreateView
    /\ pushed = 0

\* What the coroutines of the session and the server do for item i.
Progress(i) == \/ Record(i) \/ StartCreate(i) \/ ServerCreates(i)
               \/ CreateDone(i) \/ CreateFails(i)
               \/ ServerDeletes(i) \/ DeleteDone(i) \/ DeleteFails(i)

Creation == CreationSucceeds \/ CreationFails \/ FlushPendingSubscriptions

Next ==
    \/ \E v \in Readers : CallReadNext(v) \/ Look(v) \/ Park(v)
    \/ \E v \in Views : CloseView(v)
    \/ \E v \in Views, i \in Items : AddItems(v, i) \/ RemoveItems(v, i)
    \/ \E i \in Items : Progress(i) \/ HandlePublishResponse(i)
    \/ Creation
    \/ PublishFails
    \/ Disconnect
    \/ Reset

Spec == Init /\ [][Next]_vars

\* Coroutines that can go on are run, and the server answers.
FairSpec == /\ Spec
            /\ WF_vars(Creation)
            /\ \A i \in Items : WF_vars(Progress(i))

(***************************************************************************)
(* Properties.                                                             *)
(***************************************************************************)
\* Records, coroutines and queues keep their shape.
TypeOK ==
    /\ link \in {"up", "lost", "reset"}
    /\ impl \in BOOLEAN
    /\ is_creating \in BOOLEAN
    /\ creation \in {"none", "calling", "flushing", "done"}
    /\ refused \in BOOLEAN
    /\ publish_loop_running \in BOOLEAN
    /\ items_by_local_id \in [Items -> {"absent", "held", "bound"}]
    /\ pending_subscriptions \subseteq Items
    /\ handlers \subseteq Items
    /\ owner \in [Items -> Views]
    /\ task \in [Items -> {"new", "adding", "deferred", "spawned", "requested",
                           "created", "refused", "reported", "done"}]
    /\ deletion \in [Items -> {"none", "sent", "removed", "done"}]
    /\ server_items \subseteq Items
    /\ closed \in [Views -> BOOLEAN]
    /\ pending_notifications \in [Views -> Nat]
    /\ reader \in [Views -> {"away", "looking", "parking", "waiting", "told"}]
    /\ pushed \in Nat

\* EnsureCreated and AddItems: "Neither order loses one".  Unless the server
\* refused the subscription, an item AddItems has promised is waiting for a
\* creation that is under way, is being created, is on the server, or its view
\* was told that it was refused.
NoItemForgotten ==
    ~refused =>
       \A i \in Items : items_by_local_id[i] = "held" =>
          \/ i \in pending_subscriptions /\ creation \in {"calling", "flushing"}
          \/ task[i] \in {"spawned", "requested", "created", "refused",
                          "reported"}

\* CreateDone and RemoveItem: the records and the server agree.  What the
\* server has is bound, or its creation is about to be reported, or it is being
\* deleted, however removal and creation overlap; and what is bound exists.
RecordsMatchServer ==
    link = "up" =>
       \A i \in Items :
          /\ i \in server_items => \/ items_by_local_id[i] = "bound"
                                   \/ task[i] = "created"
                                   \/ deletion[i] = "sent"
          /\ items_by_local_id[i] = "bound" => i \in server_items

\* CreateMonitoredItem registers its handlers first: no value of an item that
\* its view still holds meets a missing handler, the initial one included; and
\* while the connection lives no handler outlives its item.
HandlerPerItem ==
    link = "up" =>
       \A i \in Items :
          /\ i \in server_items /\ items_by_local_id[i] # "absent"
                => i \in handlers
          /\ i \in handlers => \/ i \in server_items
                               \/ task[i] \in {"requested", "refused"}
                               \/ deletion[i] = "removed"

\* The strengthening under which the three invariants above are inductive: how
\* far the creation of the subscription is, and for every item where its record,
\* coroutines, handler and server item stand to each other.
CreationInvariant ==
    /\ is_creating <=> creation = "calling"
    /\ impl <=> creation # "none"
    /\ ~refused /\ pending_subscriptions # {}
          => creation \in {"calling", "flushing"}

Answerable == {"requested", "created", "refused"}

ItemInvariant(i) ==
    /\ i \in pending_subscriptions => task[i] = "deferred"
    /\ task[i] \in {"new", "adding"} => items_by_local_id[i] = "absent"
    /\ task[i] \in {"spawned"} \cup Answerable
          => creation \in {"flushing", "done"}
    /\ items_by_local_id[i] = "bound" => task[i] = "done" /\ deletion[i] = "none"
    /\ deletion[i] # "none" => task[i] = "done" /\ items_by_local_id[i] = "absent"
    /\ task[i] = "done" => \/ items_by_local_id[i] = "bound"
                           \/ deletion[i] # "none"
    /\ link = "up" => (i \in server_items <=> \/ task[i] = "created"
                                              \/ items_by_local_id[i] = "bound"
                                              \/ deletion[i] = "sent")
    /\ link = "up" => (i \in handlers <=> \/ task[i] \in Answerable
                                          \/ items_by_local_id[i] = "bound"
                                          \/ deletion[i] \in {"sent", "removed"})
    /\ ~refused /\ items_by_local_id[i] = "held" /\ task[i] = "deferred"
          => i \in pending_subscriptions
    /\ ~refused /\ task[i] = "adding" => impl

SubscriptionInvariant ==
    TypeOK /\ CreationInvariant /\ \A i \in Items : ItemInvariant(i)

\* CloseView: the items of a closed view leave the server, those whose creation
\* it overtook included, as long as the connection lives.
ClosedViewsReleased ==
    \A v \in Views :
       closed[v] ~> \/ link # "up"
                    \/ \A i \in Items : owner[i] = v => i \notin server_items
=============================================================================
