---------------------------- MODULE MCPublishLoop ----------------------------
(* PublishLoop on a small instance.                                        *)
EXTENDS PublishLoop

\* A message every tick, and a keep-alive when there is none.
Every == {[interval |-> 1, keep_alive_count |-> 1]}
=============================================================================
