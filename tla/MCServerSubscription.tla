------------------------- MODULE MCServerSubscription -------------------------
(* ServerSubscription on a small instance.                                 *)
EXTENDS ServerSubscription

\* Modify turns a short interval with late keep-alives into a long one, and back.
SomeParameters ==
    {[publishing_interval |-> interval, lifetime_count |-> 0,
      max_keep_alive_count |-> 3 - interval, max_notifications_per_publish |-> 2 - interval,
      publishing_enabled |-> TRUE] : interval \in {1, 2}}

\* A queue of two that may be modified to one, discarding the older or not.
SomeMonitoringParameters ==
    {[queue_size |-> 2, discard_oldest |-> TRUE],
     [queue_size |-> 1, discard_oldest |-> FALSE]}
===============================================================================
