---------------------------- MODULE MonitoredItems ----------------------------
(***************************************************************************)
(* The monitored items of a ServerSubscription                             *)
(* (opcua/session/server_subscription.{h,cpp}) and the bindings they hold  *)
(* on the backing subscription (opcua/monitored/monitored_item.h).         *)
(*                                                                         *)
(* Creating or modifying an item spawns a coroutine that asks the backend  *)
(* for a binding; releasing one spawns a coroutine that gives it back.     *)
(* Neither is awaited, so an item can be modified or deleted, any number   *)
(* of times, while the backend still works on its bindings.                *)
(*                                                                         *)
(* Abstractions.  A request that names several items runs the same loop    *)
(* body for each in turn, without suspending: the model's requests name    *)
(* one, and a longer one is several in a row.  A binding is named by the   *)
(* backing_client_handle it was asked under, so the id the backend gives   *)
(* it is that handle, and 0 is "none".  An item's attribute is "data",     *)
(* "event" or "unsupported", its monitoring mode Reporting or another one. *)
(* monitored_item_status only feeds responses.                             *)
(***************************************************************************)
EXTENDS Naturals

CONSTANTS ItemParameters,        \* the monitoring parameters a client asks for
          MaxItems,              \* bound on the items ever created
          MaxBindings            \* bound on the bindings ever asked for

ASSUME MonitoredItemsAssumption == MaxItems \in Nat /\ MaxBindings \in Nat

VARIABLES items,                  \* id -> Item, a partial function
          next_monitored_item_id,
          next_backing_client_handle,
          backing,                \* backing_subscription_state_
          binds,                  \* handle -> a BindItem coroutine
          removals,               \* RemoveBackingItem coroutines, by binding
          bound                   \* the bindings the backend holds

item_vars == <<items, next_monitored_item_id, next_backing_client_handle,
               backing, binds, removals, bound>>

ItemIds == 1..MaxItems
Handles == 1..MaxBindings
Attributes == {"data", "event", "unsupported"}

Item == [attribute : {"data", "event"}, reporting : BOOLEAN,
         parameters : ItemParameters,
         backing_client_handle : Handles, backing_item_id : Handles \cup {0}]

\* "asked": AddItems has not been answered; "added" and "refused": it has, and
\* the coroutine has not resumed yet.
Bind == [item : ItemIds, stage : {"asked", "added", "refused"}]

\* none: no backing subscription yet.  open: it is read.  failed: ReadNext
\* returned an error, and nothing reads it any more.  closed: the
\* ServerSubscription is destroyed.
BackingStates == {"none", "open", "failed", "closed"}

(***************************************************************************)
(* Helpers.                                                                *)
(***************************************************************************)
Put(f, x, y) == [z \in DOMAIN f \cup {x} |-> IF z = x THEN y ELSE f[z]]
Drop(f, x) == [z \in DOMAIN f \ {x} |-> f[z]]

\* RemoveBackingItem: a zero id means that the bind is still in flight.
RemoveBackingItem(id) == removals' = removals \cup ({id} \ {0})

\* BindItem for item i under the next handle.
BindItem(i) ==
    /\ next_backing_client_handle \in Handles
    /\ next_backing_client_handle' = next_backing_client_handle + 1
    /\ binds' = Put(binds, next_backing_client_handle,
                    [item |-> i, stage |-> "asked"])

\* The binding is given up and another is asked for.
RebindItem(i) == RemoveBackingItem(items[i].backing_item_id) /\ BindItem(i)

\* The coroutine for handle h belongs to an item that still waits for it.
IsCurrent(h) == /\ binds[h].item \in DOMAIN items
                /\ items[binds[h].item].backing_client_handle = h

(***************************************************************************)
(* Monitored item services.                                                *)
(***************************************************************************)
\* Unsupported attribute, or create_subscription failed: the item is erased
\* again, its id is spent.
CreateMonitoredItemRejected(attribute) ==
    /\ backing # "closed"
    /\ next_monitored_item_id \in ItemIds
    /\ attribute = "unsupported" \/ backing = "none"
    /\ next_monitored_item_id' = next_monitored_item_id + 1
    /\ UNCHANGED <<items, next_backing_client_handle, backing, binds, removals,
                   bound>>

CreateMonitoredItem(attribute, reporting, p) ==
    /\ backing # "closed"
    /\ next_monitored_item_id \in ItemIds
    /\ attribute # "unsupported"
    /\ items' = Put(items, next_monitored_item_id,
                    [attribute |-> attribute, reporting |-> reporting,
                     parameters |-> p, backing_item_id |-> 0,
                     backing_client_handle |-> next_backing_client_handle])
    /\ next_monitored_item_id' = next_monitored_item_id + 1
    /\ backing' = IF backing = "none" THEN "open" ELSE backing
    /\ BindItem(next_monitored_item_id)
    /\ UNCHANGED <<removals, bound>>

ModifyMonitoredItem(i, p) ==
    /\ backing # "closed"
    /\ i \in DOMAIN items
    /\ RebindItem(i)
    /\ items' = [items EXCEPT ![i].parameters = p,
                    ![i].backing_item_id = 0,
                    ![i].backing_client_handle = next_backing_client_handle]
    /\ UNCHANGED <<next_monitored_item_id, backing, bound>>

DeleteMonitoredItem(i) ==
    /\ backing # "closed"
    /\ i \in DOMAIN items
    /\ RemoveBackingItem(items[i].backing_item_id)
    /\ items' = Drop(items, i)
    /\ UNCHANGED <<next_monitored_item_id, next_backing_client_handle, backing,
                   binds, bound>>

SetMonitoringMode(i, reporting) ==
    /\ backing # "closed"
    /\ i \in DOMAIN items
    /\ items' = [items EXCEPT ![i].reporting = reporting]
    /\ UNCHANGED <<next_monitored_item_id, next_backing_client_handle, backing,
                   binds, removals, bound>>

(***************************************************************************)
(* The backend, and the coroutines that wait for it.                       *)
(***************************************************************************)
\* AddItems is answered, and its coroutine has yet to resume.
BackendAdds(h) ==
    /\ backing # "closed"
    /\ h \in DOMAIN binds /\ binds[h].stage = "asked"
    /\ binds' = [binds EXCEPT ![h].stage = "added"]
    /\ bound' = bound \cup {h}
    /\ UNCHANGED <<items, next_monitored_item_id, next_backing_client_handle,
                   backing, removals>>

BackendRefuses(h) ==
    /\ backing # "closed"
    /\ h \in DOMAIN binds /\ binds[h].stage = "asked"
    /\ binds' = [binds EXCEPT ![h].stage = "refused"]
    /\ UNCHANGED <<items, next_monitored_item_id, next_backing_client_handle,
                   backing, removals, bound>>

\* RemoveItems, and the end of its coroutine.
BackendRemoves(h) ==
    /\ backing # "closed"
    /\ h \in removals
    /\ removals' = removals \ {h}
    /\ bound' = bound \ {h}
    /\ UNCHANGED <<items, next_monitored_item_id, next_backing_client_handle,
                   backing, binds>>

\* Defect: the binding the backend just handed out is forgotten.
BindResultStaleForgotten(h) ==
    /\ backing # "closed"
    /\ h \in DOMAIN binds /\ binds[h].stage # "asked"
    /\ ~IsCurrent(h)
    /\ binds' = Drop(binds, h)
    /\ UNCHANGED <<items, next_monitored_item_id, next_backing_client_handle,
                   backing, removals, bound>>

\* OnBindResult for an item that was deleted or rebound meanwhile.
BindResultStale(h) ==
    /\ backing # "closed"
    /\ h \in DOMAIN binds /\ binds[h].stage # "asked"
    /\ ~IsCurrent(h)
    /\ RemoveBackingItem(IF binds[h].stage = "added" THEN h ELSE 0)
    /\ binds' = Drop(binds, h)
    /\ UNCHANGED <<items, next_monitored_item_id, next_backing_client_handle,
                   backing, bound>>

\* OnBindResult for the item's current binding.
BindResultGood(h) ==
    /\ backing # "closed"
    /\ h \in DOMAIN binds /\ binds[h].stage = "added"
    /\ IsCurrent(h)
    /\ items' = [items EXCEPT ![binds[h].item].backing_item_id = h]
    /\ binds' = Drop(binds, h)
    /\ UNCHANGED <<next_monitored_item_id, next_backing_client_handle, backing,
                   removals, bound>>

\* The item's failure is queued as its status, see ServerSubscription.
BindResultBad(h) ==
    /\ backing # "closed"
    /\ h \in DOMAIN binds /\ binds[h].stage = "refused"
    /\ IsCurrent(h)
    /\ binds' = Drop(binds, h)
    /\ UNCHANGED <<items, next_monitored_item_id, next_backing_client_handle,
                   backing, removals, bound>>

\* ReadNext returns an error: the read loop ends, the bindings stay.
OnSubscriptionError ==
    /\ backing = "open"
    /\ backing' = "failed"
    /\ UNCHANGED <<items, next_monitored_item_id, next_backing_client_handle,
                   binds, removals, bound>>

\* The destructor: the backing subscription is closed as a whole.  What a
\* BindItem coroutine still in flight does after that is undefined (it holds
\* `this`) and not modelled.
CloseBackingSubscription ==
    /\ backing # "closed"
    /\ backing' = "closed"
    /\ items' = [i \in {} |-> {}]
    /\ bound' = {}
    /\ UNCHANGED <<next_monitored_item_id, next_backing_client_handle, binds,
                   removals>>

ItemsInit ==
    /\ items = [i \in {} |-> {}]
    /\ next_monitored_item_id = 1
    /\ next_backing_client_handle = 1
    /\ backing = "none"
    /\ binds = [h \in {} |-> {}]
    /\ removals = {}
    /\ bound = {}

\* What the spawned coroutines and the backend do on their own.
Settle(h) == \/ BackendAdds(h)
             \/ BackendRefuses(h)
             \/ BackendRemoves(h)
             \/ BindResultStale(h)
             \/ BindResultGood(h)
             \/ BindResultBad(h)

ItemsNext ==
    \/ \E attribute \in Attributes :
          \/ CreateMonitoredItemRejected(attribute)
          \/ \E reporting \in BOOLEAN, p \in ItemParameters :
                CreateMonitoredItem(attribute, reporting, p)
    \/ \E i \in ItemIds :
          \/ \E p \in ItemParameters : ModifyMonitoredItem(i, p)
          \/ DeleteMonitoredItem(i)
          \/ \E reporting \in BOOLEAN : SetMonitoringMode(i, reporting)
    \/ \E h \in Handles : Settle(h)
    \/ OnSubscriptionError
    \/ CloseBackingSubscription

ItemsSpec == ItemsInit /\ [][ItemsNext]_item_vars

(***************************************************************************)
(* Properties.                                                             *)
(***************************************************************************)
\* Items, coroutines and bindings keep their shape; handles come from the
\* counter.
ItemsTypeOK ==
    /\ next_monitored_item_id \in 1..(MaxItems + 1)
    /\ next_backing_client_handle \in 1..(MaxBindings + 1)
    /\ backing \in BackingStates
    /\ DOMAIN items \subseteq 1..(next_monitored_item_id - 1)
    /\ items \in [DOMAIN items -> Item]
    /\ DOMAIN binds \subseteq 1..(next_backing_client_handle - 1)
    /\ binds \in [DOMAIN binds -> Bind]
    /\ removals \subseteq Handles
    /\ bound \subseteq Handles

\* An item uses binding h.
InUse(h) == \E i \in DOMAIN items : items[i].backing_item_id = h

\* RemoveBackingItem: "Every path that stops using a binding must call this":
\* whatever is modified or deleted while binds and releases are in flight, a
\* binding the backend holds is used by an item, is on its way to OnBindResult,
\* or is being released.
NoStrandedBinding ==
    \A h \in bound : \/ InUse(h)
                     \/ h \in DOMAIN binds /\ binds[h].stage = "added"
                     \/ h \in removals

\* RebindItem and OnBindResult: the binding an item uses is held by the
\* backend under the item's current handle, is not being released, and is used
\* by that item alone.
UsedIsBound ==
    \A i \in DOMAIN items : LET h == items[i].backing_item_id IN
        h # 0 => /\ h \in bound \ removals
                 /\ h = items[i].backing_client_handle
                 /\ \A j \in DOMAIN items : items[j].backing_item_id = h => j = i

\* RemoveBackingItem, RebindItem and OnBindResult: what the items use and what
\* the backend holds account for each other, in both directions.
BindingsAccountedFor == NoStrandedBinding /\ UsedIsBound

\* The strengthening under which the two invariants above are inductive: a
\* binding still on its way is neither used nor being released yet.
BindingInvariant ==
    /\ ItemsTypeOK
    /\ NoStrandedBinding
    /\ UsedIsBound
    /\ \A i \in DOMAIN items :
          items[i].backing_client_handle < next_backing_client_handle
    /\ \A h \in removals : h < next_backing_client_handle
    /\ \A h \in DOMAIN binds :
          /\ h \notin removals
          /\ ~InUse(h)
          /\ backing # "closed" /\ binds[h].stage = "added" => h \in bound
=============================================================================
