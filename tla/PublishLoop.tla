----------------------------- MODULE PublishLoop -----------------------------
(***************************************************************************)
(* A session's subscriptions published to the client that made them:       *)
(* ServerSession at one end, the publish half of                           *)
(* ClientProtocolSubscription (opcua/client/client_protocol_subscription)  *)
(* driven by the loop of ClientSubscription::StartPublishLoop at the other. *)
(*                                                                         *)
(* The channel carries requests in order; a response reaches the request   *)
(* it answers (ClientChannel, SecureConversation), in any order.  A        *)
(* connection that is lost takes everything in transit with it and ends    *)
(* the loop; the server's handlers then answer nobody.                     *)
(***************************************************************************)
EXTENDS ServerSession

CONSTANT MaxOutstandingPublishRequests

ASSUME PublishLoopAssumption ==
    /\ MaxOutstandingPublishRequests \in Nat \ {0}
    /\ Cardinality(Requests) >= MaxOutstandingPublishRequests

VARIABLES connected,
          publish_loop,          \* "none", "running" or "ended": it starts once
          outstanding_publishes, \* requests sent and not yet received for
          receiving,             \* the request whose answer Publish awaits
          pending_acks,          \* set of <<id, sequence number>>
          to_server,             \* requests under way, with their acks
          received               \* messages whose notifications were dispatched

client_vars == <<connected, publish_loop, outstanding_publishes,
                 receiving, pending_acks, to_server, received>>
vars == <<server_vars, client_vars>>

(***************************************************************************)
(* The client.                                                             *)
(***************************************************************************)
\* A request that is not in use: a new request handle.
NewRequest ==
    CHOOSE r \in Requests : r \notin ToSet(outstanding_publishes) \cup {receiving}

\* Defect: the acknowledgements stay behind when a request goes out.
SendPublishRequestPlain ==
    /\ publish_loop = "running" /\ connected
    /\ receiving = None
    /\ Len(outstanding_publishes) < MaxOutstandingPublishRequests
    /\ to_server' = Append(to_server, [request |-> NewRequest, acks |-> {}])
    /\ outstanding_publishes' = Append(outstanding_publishes, NewRequest)
    /\ UNCHANGED <<server_vars, connected, publish_loop, receiving,
                   pending_acks, received>>

\* One turn of FillPublishWindow.
SendPublishRequest ==
    /\ publish_loop = "running" /\ connected
    /\ receiving = None
    /\ Len(outstanding_publishes) < MaxOutstandingPublishRequests
    /\ to_server' = Append(to_server, [request |-> NewRequest, acks |-> pending_acks])
    /\ pending_acks' = {}
    /\ outstanding_publishes' = Append(outstanding_publishes, NewRequest)
    /\ UNCHANGED <<server_vars, connected, publish_loop, receiving, received>>

\* The window is full: Publish takes the oldest request and awaits its answer.
Receive ==
    /\ publish_loop = "running" /\ connected
    /\ receiving = None
    /\ Len(outstanding_publishes) >= MaxOutstandingPublishRequests
    /\ receiving' = Head(outstanding_publishes)
    /\ outstanding_publishes' = Tail(outstanding_publishes)
    /\ UNCHANGED <<server_vars, connected, publish_loop, pending_acks, to_server,
                   received>>

\* HandlePublishResponse: every sequence number but 0 is acknowledged.  A bad
\* response ends the loop.
HandlePublishResponse ==
    LET answer == answers[receiving]
        good == answer.status = "Good"
        message == <<answer.id, answer.sequence_number>>
    IN  /\ receiving # None
        /\ answer # None
        /\ receiving' = None
        /\ answers' = [answers EXCEPT ![receiving] = None]
        /\ publish_loop' = IF good THEN "running" ELSE "ended"
        /\ pending_acks' = IF good /\ answer.sequence_number # 0
                           THEN pending_acks \cup {message} ELSE pending_acks
        /\ received' = IF good /\ answer.count > 0
                       THEN received \cup {message} ELSE received
        /\ UNCHANGED <<session_vars, waiting, overtaken, connected,
                       outstanding_publishes, to_server>>

\* Publish fails on a lost connection and ends the loop.  When the send failed,
\* the acknowledgements were moved into the request and what is put back is
\* empty.
PublishFails ==
    /\ publish_loop = "running" /\ ~connected
    /\ publish_loop' = "ended"
    /\ receiving' = None
    /\ pending_acks' =
          IF /\ receiving = None
             /\ Len(outstanding_publishes) < MaxOutstandingPublishRequests
          THEN {} ELSE pending_acks
    /\ UNCHANGED <<server_vars, connected, outstanding_publishes, to_server,
                   received>>

\* StartPublishLoop, when the subscription has been created.
StartPublishLoop ==
    /\ publish_loop = "none" /\ connected
    /\ subscriptions # <<>>
    /\ publish_loop' = "running"
    /\ UNCHANGED <<server_vars, connected, outstanding_publishes, receiving,
                   pending_acks, to_server, received>>

(***************************************************************************)
(* The channel between the two.                                            *)
(***************************************************************************)
DeliverRequest ==
    /\ to_server # <<>>
    /\ HandlePublish(Head(to_server).request, Head(to_server).acks)
    /\ to_server' = Tail(to_server)
    /\ UNCHANGED <<connected, publish_loop, outstanding_publishes,
                   receiving, pending_acks, received>>

\* The handlers of the server find the connection closed when they wake.
ConnectionLost ==
    /\ connected
    /\ connected' = FALSE
    /\ to_server' = <<>>
    /\ answers' = [r \in Requests |-> None]
    /\ waiting' = [r \in Requests |-> None]
    /\ UNCHANGED <<session_vars, overtaken, publish_loop, outstanding_publishes,
                   receiving, pending_acks, received>>

Init ==
    /\ SessionInit
    /\ connected = TRUE
    /\ publish_loop = "none"
    /\ outstanding_publishes = <<>>
    /\ receiving = None
    /\ pending_acks = {}
    /\ to_server = <<>>
    /\ received = {}

Next ==
    \/ connected /\ SessionStep /\ UNCHANGED client_vars
    \/ SendPublishRequest
    \/ Receive
    \/ HandlePublishResponse
    \/ PublishFails
    \/ StartPublishLoop
    \/ DeliverRequest
    \/ ConnectionLost

Spec == Init /\ [][Next]_vars

\* What the client's publish coroutine does next; it is at one place at a time.
PublishCoroutine ==
    \/ StartPublishLoop
    \/ SendPublishRequest
    \/ Receive
    \/ HandlePublishResponse

\* The executors of both ends run what is ready, a connection that is not lost
\* delivers, and the clock advances.
FairSpec ==
    /\ Spec
    /\ WF_vars(TimePasses /\ UNCHANGED client_vars)
    /\ WF_vars(PublishCoroutine)
    /\ WF_vars(DeliverRequest)
    /\ \A r \in Requests : WF_vars(ResumePublish(r) /\ UNCHANGED client_vars)

(***************************************************************************)
(* Properties.                                                             *)
(***************************************************************************)
Served(id) ==
    /\ connected /\ publish_loop # "ended"
    /\ id \in DOMAIN subscriptions /\ subscriptions[id].enabled

\* PollPublish, the Publish handlers and the client's window together: when a
\* subscription stays with a client that keeps asking, everything it queues is
\* dispatched by that client, whatever the other subscriptions of the session
\* publish meanwhile.
BacklogReachesClient ==
    \A id \in SubscriptionIds :
        <>[]Served(id) =>
            <>[](/\ id \in DOMAIN subscriptions
                 /\ subscriptions[id].pending = 0
                 /\ \A n \in 1..(subscriptions[id].next_sequence_number - 1) :
                       <<id, n>> \in received)

\* SendPublishRequest and AcknowledgePublishRequest: what a served subscription
\* holds for Republish is let go once the client has it.
RetainedIsReleased ==
    \A id \in SubscriptionIds :
        <>[]Served(id) =>
            <>[](id \in DOMAIN subscriptions /\ subscriptions[id].retransmit = {})
=============================================================================
