# opcuapp in TLA+

A verification project for opcuapp, an OPC UA client and server stack
(`opcua/`, C++20 coroutines over Boost.Asio): TLA+ modules of its session,
subscription and client runtimes, its secure channels, codecs and services; TLC
configurations for small instances; and TLAPS proofs for instances of every size.
Paths below are relative to `src/opcua`. `PROJECT.json` maps every definition to
the lines it models and lists components, runs, hazards, findings and theorems.

## The system

| Component | State | Operations | What is hard |
|---|---|---|---|
| Session manager (`session/server_session_manager`) | table token → session (user, activated, attached, expiry) | CreateSession, ActivateSession, CloseSession, DetachSession, expiry inside every call | ActivateSession awaits the authenticator; anything runs meanwhile |
| Server runtime (`session/server_runtime`) | a ServerSession per activated session, connection → token, subscription-owner index, registered servers | the service handlers, attach, detach, transfer, discovery | three tables that must agree after every create, eviction, expiry, transfer |
| Server session (`session/server_session`) | subscriptions, publish order and cursor, continuation points | create, delete, transfer, publish scheduling, browse | shared publish requests, state held over awaits |
| Server subscription (`session/server_subscription`) | items and their backend bindings; notification deque, retransmission queue, sequence number, deadlines | item services, TryPublish, Acknowledge, Modify | fire-and-forget bindings answered late; bounded queues; the deadband |
| Listening servers (`transport/binary/server`, `transport/websocket/server`) | `opened_`, `closing_`, `active_tasks_`, the gate `tasks_closed_` | Open, Close, accept loop, one task per connection | Close waits for tasks that are counted by hand, and may be overtaken by an accept |
| Connections (`transport/binary/tcp_connection`, `runtime`, `transport/websocket/server`) | in-flight handlers | decode, dispatch, drain, close | a connection ends while its handlers wait |
| Secure channels (`transport/binary/secure_channel`, `client_secure_channel`) | token, keys, sequence numbers | open, renew, frame, unframe | renewal during traffic; padding and signatures computed twice |
| Trust store (`transport/binary/certificate_trust_store`) | certificates, CAs and CRLs read from directories | Load, Validate, Reject | what is vetted, and when |
| Client channel (`client/client_channel`) | send turn, waiters, pending and buffered responses, read loop | Call, Send, Receive, read loop | many coroutines, one connection, two kinds of reader |
| Client subscription (`client/client_subscription`, `client_protocol_subscription`) | one shared server subscription; views, items, handlers, publish window | AddItems, RemoveItems, Close, ReadNext, publish loop | several executors, deferred creation, removal overtaking creation |
| Client session and discovery (`client/client_session`, `client_protocol_session`, `discovery_client`, `endpoint_selection`, `client_security`) | the connected stack, the selected endpoint | Connect, Disconnect, Reset, services, FindServers, RegisterServer | decisions taken from a list fetched earlier; failures at every await |
| Codecs (`transport/binary/codec_utils`, `service_codec`, `ua/ua_json_builtins`, `transport/websocket/*codec`) | none | Encode, Decode | pairs of functions that must agree, two transports |
| Conversions and service handler (`session/*_conversion`, `services/*_conversion`, `server/service_handler`) | none | ToWire, FromUa, ToManaged, one handler per service | several hundred members copied one by one |
| Value types, base library, tracing | none | pure functions | integer widths |

The parts interact by plain calls on one executor per side (server, client
session), by coroutines that suspend and resume, by callbacks
(`on_session_removed`, notification handlers, service callbacks) and, between
client and server, by messages on one connection. On the client, consumers of a
subscription run on executors of their own and share it under a mutex.

What makes each part correct: the manager keeps single-session users single and
never throws out a served session unasked; the runtime's tables mirror the
manager's; a subscription has one holder; a binding on the backend is used or on
its way out; published notifications stay in order, are retained until
acknowledged or evicted, reach the client and drain; no subscription of a session
starves; a client knows a value up to its deadband; client requests take turns
and return; client items are neither forgotten nor leaked; no renewal makes a
message unreadable; a client that demands security only talks to a peer it
trusts, at the security the server offers now; a Close returns when nothing it
waits for runs, and then nothing does; the pages of a browse are what was
browsed; a value, a request and an answer
mean at the far end what they meant at the near one.

## Modules

| Module | Models | State ↔ code |
|---|---|---|
| `SessionManager` | `ServerSessionManager` | `sessions` = `sessions_` (expiry as ticks left), `calls` = activations suspended in `Authenticate` |
| `ServerRuntime` (EXTENDS `SessionManager`) | `ServerRuntime`, connection lives of both transports | `connection_token` = `ConnectionState`, `runtime_sessions`/`subscriptions` = `sessions_`, `subscription_owners` = the owner index |
| `NotificationQueue` | the publishing half of `ServerSubscription` | the members of the same names; deadlines as `elapsed` time; `queued` numbers notifications so that order can be stated |
| `MonitoredItems` | the item half of `ServerSubscription` | `items` = `items_`, `binds`/`removals` = the spawned coroutines, `bound` = what the backend holds |
| `ServerSubscription` (EXTENDS `MonitoredItems`, `NotificationQueue`) | the whole class | both halves; `ImplementsQueue` shows, by an INSTANCE of `NotificationQueue` over the same variables, that it implements the queue's own specification |
| `Variant` | the conversions of `Variant` to numbers and texts | none: operators over integers of a given modulus |
| `DateTime` | `DateTime` between ticks, calendar fields and text, by way of `Duration`'s double | none: operators over small units, a small calendar and narrow doubles |
| `DataChange` (EXTENDS `Variant`) | one data item: filter, monitoring mode, share of the queue, and the client it reports to | `last_reported_value`, `pending` = the item's members and its notifications; `latest`, `known` = what the backend and the client last had |
| `ServerSession` | the publish rotation of `ServerSession` and the Publish handlers of `ServerRuntime` | `publish_order`, `next_publish_index`, `subscriptions` = the members; `polls`, `answers` = the handlers |
| `PublishLoop` (EXTENDS `ServerSession`) | the client's publish loop against it | the window and the acknowledgements of `ClientProtocolSubscription` |
| `ClientChannel` | `ClientChannel`, and the read of `ClientSecureChannel::OpenSecureChannel` | `pc` = where each caller's coroutine is suspended; members of the same names; `asked`/`incoming` = the connection |
| `ClientSubscription` | `ClientSubscription` over `ClientProtocolSubscription` | members of the same names; `task`, `deletion`, `creation`, `reader` = coroutines; `server_items` = the server |
| `ListeningServer` | `Server` of both transports: Open, Close, accept loop, connection tasks | members of the same names; `call`, `loop`, `stage` = where the coroutines are suspended; `completed` = the gates |
| `SecureConversation` | one binary connection, both ends: `ClientConnection`, `ClientTransport`, `ClientSecureChannel`; `TcpConnection`, `SecureChannel` | `c_token`, `s_token`, `s_previous` = `token_id_`, `previous_token_id_`; `c_keys`, `s_keys` = the nonces the keys derive from; `up`, `down` = frames on their way; `serving` = `pending_service_frames_` |
| `TrustStore` | `CertificateTrustStore` | operators over the directories' contents |
| `SecureFrames` | Hello/Acknowledge, OpenSecureChannel bodies, secured chunks | operators: layout, lengths, padding and coverage exact, ciphertexts sealed records |
| `Discovery` (EXTENDS `TrustStore`) | endpoint wording on the server, selection and comparison on the client | operators |
| `Connect` (EXTENDS `Discovery`, `SecureFrames`) | `ClientSession::Connect`, `Disconnect`, calls; `DiscoveryClient`; the server's discovery, CreateSession and ActivateSession | `op` = the operation under way and what it holds over its awaits, `conn` = the connection, `client` = `is_connected_` and the default subscription, `files` = the PKI directories |
| `BinaryCodec`, `JsonCodec` (EXTENDS `DateTime`) | both encodings of every built-in type, arrays, structures | operators over typed values, units of bytes and JSON trees |
| `RetainedJson` (EXTENDS `JsonCodec`) | the older JSON form of the built-in types that `json_codec.cpp` keeps beside the conformant one | operators |
| `ValueTypes` (EXTENDS `RetainedJson`) | events as lists of fields (`event_util`), the attributes of a node (`NodeAttributes`) | operators |
| `WireValues` (EXTENDS `ValueTypes`) | reads and writes of one value by clients of both transports; the reassembly of chunks in `TcpConnection` and `ClientSecureChannel` | the server's value, the clients', the message under way and its chunks |
| `SessionConversion`, `SubscriptionConversion`, `HistoryConversion` | the conversions of `session/` and `services/`; event filters in their JSON form | operators over records with the source's member names |
| `Messages` | `message.h` and the vocabularies it uses | sets of records whose members are all told apart |
| `ServiceCodec`, `ServiceHandler`, `ClientCalls` | service envelopes of both transports; `ServiceHandler`; the typed calls of `ClientProtocolSession` | operators |
| `ServiceCalls` (EXTENDS these) | one service call end to end, and browse paging | `calls` = each call from request to result; `continuations` = `browse_continuations_`; `session`, `attached` = the connection's session |
| `*Proofs` | TLAPS proofs | |
| `MC*` | instances for TLC | |

A handler is one action per stretch between two suspensions (in
`ClientSubscription`, between two critical sections), everything it calls
included. Handlers that await are split at the await and keep what they hold
across it in `calls`, `binds`, `pc`, `task`, `op`, …. Where the code runs into
undefined behaviour that a model can express, the outcomes are a choice: a
`Double` that is NaN or outside `Int64` cast to it (`Variant`), a browse whose session was
freed (`AnswerBrowseOfRemoved` in `ServiceCalls`).

Definitions marked "Defect" are plausible slips of the code that the next
definition models. Put in its place they break a property, which shows that the
property depends on that code; no specification uses them.

## Runs

| Run | Instance | Distinct states | Shows |
|---|---|---|---|
| `server_runtime` | 2 sessions, a single-session user, a binary and a WebSocket connection, 2 suspended activations, 1 subscription | 553 248 | `OneSessionPerUser`, `RegistriesAgree`, action property `DisplacedOnlyOnRequest` |
| `server_subscription` | 2 items, 2 bindings, 2 notifications, an item queue modified from 2 to 1, the subscription modified between two sets of parameters | 1 014 132 | `BindingsAccountedFor`, `RetainedIsExact`, `DeliveryInOrder`, action properties `GrowsWithinLimit` and `NothingLost`, refinement `ImplementsQueue`, liveness `BacklogDrains` |
| `data_change` | integers of 2 to 5 bits, doubles that creep across zero, NaN, texts, arrays, bad values; three filters and queue policies | 621 747 | `ClientIsClose`, `ConversionIsChecked` |
| `publish` | 2 subscriptions of one session, 2 Publish requests, response limit 1 | 348 186 | `OrderIsExact`, `NobodyOvertakesTwice`, liveness `BacklogReachesClient`, `RetainedIsReleased` |
| `client_channel` | 2 calls, 2 requests sent and received apart, 1 renewal, connection loss | 59 013 | `TurnIsPassedOn`, `PendingHasReader`, liveness `CallsReturn` |
| `client_subscription` | 2 items, 2 views, one of them read | 376 634 | `NoItemForgotten`, `RecordsMatchServer`, liveness `ClosedViewsReleased` |
| `secure_conversation` | 4 requests, 2 of them received apart, 2 renewals, both security policies, allowed or refused | 189 946 | `QuietRenewalsAreSafe`, `MessagesUnderstood`, liveness `ConnectionDrains` |
| `connect` | 11 kinds of client, 6 server configurations, 3 states of the PKI directories; 2 operations, a Connect over a session among them, 1 fault, 1 restart | 1 257 712 | `TrustedPeer`, `SelectionStands`, `RefusalsExplained`, `LastWordIsTrue`, `FoundIsDialable` |
| `listening_server` | a WebSocket or a binary server opened twice, 2 connections of 1 request at a time, either of which may throw | 15 764 | `TasksAccountedFor`, `CloseMeansQuiet`, action property `LastCall`, liveness `CloseReturns` |
| `wire_values` | every built-in type, scalar and array, at the boundaries of its encodings, NaN and times that no double holds included, over both transports; messages in up to 3 chunks, against limits of 2 chunks and 24 units; the retained JSON form of the same values; events as fields, attributes of a node | 63 504 | `ValueArrives`, `CutIsRefused` |
| `service_calls` | every service over both transports, refused or served by its session, beside a second call that browses in pages; 2 sessions, 1 continuation point | 2 073 396 | `RequestIsHeard`, `AnswerIsFaithful`, `PagesAddUp`, `TraceIsContinued` |
| `register_nodes` | one RegisterNodes or UnregisterNodes over UA-TCP | | violates `RegistrationIsAnswered` |

`register_nodes` is the project's finding: the binary runtime decodes
RegisterNodes and UnregisterNodes and then answers neither
(`transport/binary/runtime.cpp:154`; they are missing from the list at :13-37),
although `message.h:446-447` and `transport/websocket/message_codec.cpp:401` say
that they are served there, and the client waits for an answer without a timeout.

Comments of the code at four places are contradicted by states the models reach.
The properties are stated so that they hold all the same, and the hazards of
`PROJECT.json` say where:

- `session/server_session_manager.cpp:303`, "it never matches": two activations
  of one token overlap in the authenticator and the second evicts the session it
  activates. `session/server_session_manager.h:236`, "a session a connection is
  still serving": a stale connection's Detach marks a session detached that
  another connection has resumed.
- `client/client_channel.cpp:141`, "only while the channel is QUIET": the renewal
  looks at pending responses only, but a Publish that was sent and is not yet
  received is outstanding too. `QuietRenewalsAreSafe` says that this is the only
  gap, and `CallsReturn` and `MessagesUnderstood` hold wherever the gap is not
  taken.
- `client/client_subscription.h:65-66`, "instead of waiting forever": ReadNext
  releases the lock before it waits, so a push or a close in between wakes
  nobody. `client/client_protocol_subscription.cpp:184` takes a keep-alive's
  sequence number to be 0; it is the next number, which the client acknowledges
  too early. `RetainedIsReleased` shows that the message is acknowledged again
  once it exists.
- `transport/binary/service_codec.cpp:677-680`: Write puts its WriteFlags into the
  header's additionalHeader, and they must survive the envelope. The envelope keeps
  them (`ApplyRequestEnvelope` in `ServiceCodec` adds to the parameters that are
  there), but nothing puts any there: `client/client_protocol_session.cpp:204-207`
  builds wire values without flags, and `server/service_handler.cpp:187-191` hands on
  none.

`AssembleEvent` (`events/event_util.cpp:46`) looks for the type of an event in the
first field, where `DisassembleEvent` writes the id of a system event: it recognises
the lists of the two change events only, and the properties of `WireValues` go to
`AssembleSystemEvent` directly. Nothing in the repository calls it.

A CloseSecureChannel that crosses a renewal is accepted under SecurityPolicy None
only: under Basic256Sha256 the server keeps no previous keys.

What properties except is named beside them:

- `IsReadable` in `WireValues`: what is written as JSON and then refused, so that
  the whole message is lost. A DateTime of a year beyond four digits, such as
  `DateTime::Max`; a DateTime in a millisecond that no double holds, whose text
  `DateTime::FromUTCExploded` refuses because it does not explode into it again; an array of
  numbers one of which is NaN, written as null; an ExpandedNodeId whose namespace
  uri goes on, behind a semicolon, with what reads as another kind of identifier.
- `Carries` in `WireValues`: what arrives as something else. Fractions of a
  millisecond and what the doubles round away (from about 2057 on a whole
  millisecond of every fourth); a single NaN or a null Variant in a Variant, which
  becomes the null Variant; the rest of a namespace uri behind a semicolon, which
  becomes the identifier; the others listed there.
- the losses listed before `Meant` and `Told` in `ServiceCalls`: among them the
  flags of a write, and of ActivateSession the session id, `delete_existing` and a
  password that is already encrypted, which no conversion writes.
- `Excused` in `Connect`: each reason a Connect may fail for. `refused`, in
  `LastWordIsTrue`: nothing keeps a client from connecting again over a session;
  when discovery then fails, FALSE is signalled
  (`client/client_session.cpp:104`, `:115`) and the session goes on.
- `overflowed` in `DataChange`, a full queue that discards the newest value, and
  `NotCompared`, NaN under a deadband: the comparison at
  `session/server_subscription.cpp:671` is false for NaN, so that a number that
  turns NaN is not reported, and neither is one that follows a NaN that was.
- numbers beyond `Int64`, and NaN, in `ConversionIsChecked`.
- `Lost` in `ListeningServer`: an exception that leaves `RunConnection` of the
  WebSocket server skips `TaskFinished` (`transport/websocket/server.cpp:95-96`;
  the binary server catches it), and the spawned task swallows it. The task stays
  counted, and a Close that waits for it never returns.

### Bounds

The smallest instances in which the interesting cases happen. Two sessions and two
suspended activations give every overlap of two logins, resumption on the other
connection and eviction; a third adds no new pair. One tick of timeout is enough for
a session to be alive, about to expire and expired. Two bindings for two items let
one item be rebound while its first binding is still unanswered. Two notifications
against the limits of `ServerSubscription.cfg` force partial responses and eviction,
and a subscription modified between an interval of one tick and one of two, with a
keep-alive count of two or one, changes every deadline while a backlog waits for it;
longer queues and acknowledging from the middle of a longer retransmission queue are
covered by the proofs, for any limits. Counts wrap at 16 instead of 2^32. Two
Publish requests are the code's own window (`kMaxOutstandingPublishRequests`); two
subscriptions and a response limit of one make them compete. Integers of two to five
bits keep the order of the eight integer types and leave values that only the wider
ones hold. Doubles of nine bits and ticks of twelve have the three regions of the
real ones: every tick exact, every millisecond exact, not even every millisecond
exact. Four callers give a holder, a woken waiter, a queued one and a barging one. A
server opened twice can leave a task of the first Open to the second; two
connections let one be accepted while Close waits for the other. Two renewals let an
answer of the first meet the second. Two operations of a client with one fault and
one restart give every failure at every await followed by another attempt. Each
member of a message has one or two values of its own, each list at most two
elements, so that a dropped, swapped or renamed member is seen. `Max...` constants
bound what would grow for ever, in the guard of the action that grows it. The call
slots of `ServerRuntime` are interchangeable (symmetry, in a run without liveness).

`CHECK_DEADLOCK FALSE` is set where the system may stop: all requests answered,
all items created and removed, the session reset, the server ended, a Close that
waits for a WebSocket task lost to an exception.

### Fairness

`ServerSubscription`: time passes, and a client that keeps publish requests open
(`FillPublishWindow`) makes the server poll (`PublishNotifications`); nobody has
to queue or modify. `PublishLoop`: time passes, requests are delivered, sleeping
Publish handlers resume after their delay, and the client's publish coroutine
goes on; its properties speak of subscriptions that stay served. `ClientChannel`:
the executor runs every coroutine that can go on, and the server answers what it
is asked while the connection lives; nobody has to call. `ClientSubscription`:
the same. `SecureConversation`: the server processes what has arrived and notices
the end of the stream, and every service ends; nothing is asked of the client.
`ListeningServer`: accept loops, connection tasks, requests and a Close that can
go on do; no peer has to leave and no task has to be spared an exception, which
`CloseReturns` takes as its premise.
`ServiceCalls`: requests are received, callbacks answer and replies are
delivered. All are weak fairness of single coroutines, which is what an executor
with a run queue gives.

## Proofs

TLAPS proves for every value of the constants (under the named assumptions of the
modules: bounds are naturals, subsets are subsets, timeouts are ordered, `Int64`
contains the other integer types but `UInt64`, a value is one of its type, the PKI
folders are records of five directories, a traceparent consists of hexadecimal
digits, a browse asks for a bound, endpoints and discovery URLs come in lists, an
endpoint with all its members and a security level that is a natural):

- `ServerProofs`, for the manager alone: `ManagerTypeCorrect`;
  `SingleSession`: a single-session user never has two sessions. The type
  invariant alone makes it inductive: the step that finishes an activation removes
  all other sessions of the user in the same step. `GateProtectsAttached` proves
  the action property `DisplacedOnlyOnRequest` case by case.
- `ServerProofs`, for the composed server: `TypeCorrect` and `RegistriesStayInStep`
  (`RegistriesAgree`, with its parts `MirrorsManager`, `NoDanglingOwner`,
  `OneHolder`, `OnlyActivatedBound`), all from `RuntimeInvariant`, which adds that
  unissued subscription ids are not indexed and that connections only name issued
  tokens: without it a new session or subscription could inherit stale entries.
  `RuntimeImplementsManager`: the composed server implements the session manager's
  specification, so that `SingleSession` carries over (`ServerSingleSession`).
- `ServerProofs`, for the listening servers: `TasksAreAccountedFor` (its parts
  `TasksAreCounted` and `CloseIsNotStranded`), `ClosedServerIsQuiet` and the action
  property `LastConnectionServed`, from `ListenerInvariant`, for any number of
  connections, requests and reopenings. It ties the gate in place to the accept
  loop of the same Open (`LoopInvariant`) and says how far the tasks can be while
  the owner is where it is (`OwnerInvariant`): otherwise a task left over from one
  Open could be counted by the next. Connections may throw: `active_tasks` counts the
  tasks that run and the WebSocket tasks that were lost, exactly, and a Close is not
  stranded unless one was lost. The hypothesis `OneOwner` is part of each
  theorem: the servers have no lock, and the code's callers open and close a server
  from one coroutine. Overlapping calls of two owners are not claimed to be safe.
- `ServerSubscriptionProofs`, for the queue alone: `QueueStaysInOrder` shows that
  `QueueInv` is inductive: the deque and the retained messages hold notifications in
  the order they were queued, sequence numbers ascend, and `retained_notifications`
  is the sum over the retransmission queue and within its bound. From it
  `RetainedStaysExact`, `RetainedStaysBounded`, `DeliveryStaysInOrder` and the
  action property `NothingIsLost`. The sums are recursive functions over sequences;
  what appending, evicting and removing from the middle do to them is proved by
  taking a least counterexample, which is induction in the form of a set of
  naturals.
- `ServerSubscriptionProofs`, for the items alone: `ItemsTypeCorrect` and
  `NoBindingLeaks` (`BindingsAccountedFor`), from `BindingInvariant`: handles in
  use, being released or being bound are issued and disjoint. For the whole
  subscription: `SubscriptionInductive` and `SubscriptionKeepsBindings`, from
  `SubscriptionInv`, the two halves' invariants together;
  `SubscriptionImplementsQueue`, the refinement: every step, a batch of
  notifications and a failing backend included, is a step of the queue's
  specification or leaves it alone; `SharesGrowWithinLimit`, an action property;
  and `SubscriptionDelivers` and `SubscriptionLosesNothing`, what the refinement
  then carries over. The
  assumption joins the halves' constants: the queue's items and parameters include
  those of the monitored items, and one handler may queue for every item at once,
  as a failed backing subscription does. tlapm cannot cite a theorem of an instance, so the
  module EXTENDS the queue's and two lemmas (`SameInit`, `SameActions`) say that
  the instance's actions are the extended ones.
- `PublishLoopProofs`: `RotationInductive`, `OrderStaysExact` and the fairness of
  the rotation, `RotationIsFair`, from `RotationInv`: the publish order lists each
  subscription once and the cursor stays in it (`ListsEachOnce`), and whoever was
  overtaken while it was ready stands ahead of its overtakers, seen from the
  cursor (`OvertakersStandBehind`). Without the second part a transfer or a
  deletion between two polls could let a subscription be passed twice.
- `DataChangeProofs`: `DeadbandHolds`, `ClientStaysClose`, from `DeadbandInvariant`:
  the value compared against is close to the last sample, or NaN keeps the two from
  being compared, and it is the last one queued. It holds for any set of values,
  filters and queue sizes and needs nothing of the conversions but that closeness is
  what the filter tested. `ConversionsAreChecked`: what a client was told keeps its
  number when converted, for integer types of any width; `NarrowingIsChecked` is the
  heart of it, that casting to the narrow type and back returns the number exactly
  when the type holds it.
- `ClientProofs`, for the channel: `ChannelTypeCorrect`, `TurnKeepsGoing`
  (`TurnIsPassedOn`, with its parts `ExclusiveTurn` and `WakeupsKept`) and
  `ReaderForPending`, from `ChannelInvariant`: `send_in_progress_` says exactly
  whether somebody holds the turn, and the waiters are distinct queued callers.
- `ClientProofs`, for the subscription: `SubscriptionTypeCorrect`, `PromisedItemsKept`,
  `NoServerItemLeaks`, `HandlerCoversItem`, from `SubscriptionInvariant`, which ties
  an item's record to its coroutines, handler and server item.
- `SecureConversationProofs`: `ConversationTypeCorrect`, `RenewalsAreSafe`
  and `MessagesAreUnderstood` (its parts `RequestsAreUnderstood` and
  `ResponsesAreUnderstood`), from `ConversationInvariant`.
  It says which frames can be on their way while the client is where it is
  (`Traffic`), that a request is in one place only (`OnePlace`), that one renewal
  request or its answer is under way with nothing behind it (`Handshake`), and
  under which token each message travels: before the answer to a renewal the old
  one, behind it the new (`InStep`). Actions are proved from what they do to the
  two sequences of frames (`Pushed`, `Popped`, `Cut`).
- `ConnectProofs`: `PeerIsTrusted` (`TrustedPeer`), `SignalsTellTheTruth`
  (`LastWordIsTrue`) and `NoStackLeftBehind`, from `ConnectInv`
  (`ConnectInductive`), for any servers, clients, PKI folders and bounds, and for a
  Connect begun over a session as well as without one. Its parts:
  what observers were told at each stage, and whether it was a refusal over a session
  (`SignalInv`); what the connection was
  opened for (`PurposeInv`); that the security of an operation that demands it is
  the one vetted against the trust store (`SecurityInv`); that both ends agree on it
  once the channel is open (`ChannelInv`); and what a frame on its way carries
  (`WireInv`), without which a response could be anybody's. The certificate is
  followed from the endpoint that was vetted to the one the answer to CreateSession
  names, so nothing is assumed of thumbprints. That a frame gives back the body it
  was built from is proved of the padding, the size field and both kinds of chunk
  (`SymmetricFrameCarries`, `SymmetricFrameGives` and their likes).
- `ConnectProofs`, for what was picked: `SelectionHolds` (`SelectionStands`), from
  `SelectInv`: an operation's endpoint is what SelectEndpoint picked from the list
  it was given (`PickInv`), the list in an answer to CreateSession has the security of the
  server's, entry by entry (`ListInv`), and once it was compared the list picked
  from is equivalent to the server's (`LookInv`). Two equivalent lists have the same
  length and each element of one a partner in the other; that each element of the
  other then has a partner too is a counting argument (`EquivalentListsCover`), and
  rewording a URL changes no security (`RewordingKeepsSecurity`).
- `ConnectProofs`, for discovery: `FoundCanBeDialled` (`FoundIsDialable`), from
  `FindInv`: the URL that was dialled (`DialledInv`), what is asked with it
  (`AskInv`) and what the answer says (`ToldInv`). The loops that keep elements of a
  list are the operator `AtPositions` of `Discovery`, over the positions kept;
  `RanksAreTaken` and `KeptElements` say that it keeps them all, in order. The
  proof needs the filter of application URIs in the statement: a filter by
  product URI may select a registrant that claims the server's own URI.
- `ServiceCallsProofs`: `TracesAreContinued` (`TraceIsContinued`), from `CallsInv`:
  a call under way carries the trace it was asked in, in the form its transport
  puts on the wire. The lemmas below it follow a traceparent through both
  envelopes: a header written is found again under its key, whatever stands beside
  it. `PagesAlwaysAddUp` (`PagesAddUp`), from `PagesInv`: the pages handed out and
  the rest kept under continuation points are disjoint and together what was
  browsed; points are fresh, and a session that is detached keeps none. It uses
  `CallsInv` for the bound of the browse being answered: a page has at most that
  many references, and 0 is no bound.

Each inductive invariant is a definition of its component's module, or of the
proof module where it has parts that only the proof needs, and was model-checked
before it was proved. The proofs have one step per action and under
it one per conjunct that the action can disturb.

Only model-checked:

- the liveness properties `BacklogDrains`, `BacklogReachesClient`,
  `RetainedIsReleased`, `CallsReturn`, `ClosedViewsReleased`, `ConnectionDrains`
  and `CloseReturns` (fairness and ENABLED are beyond this prover);
- `ValueArrives` and `CutIsRefused`, which say what codecs that are recursive in
  the type compute for every value: RECURSIVE operators and induction over data
  are beyond it too;
- `RequestIsHeard` and `AnswerIsFaithful` in `ServiceCalls`: they compare what
  long chains of conversions make of given messages, which TLC evaluates and a
  proof would only restate;
- `RefusalsExplained` in `Connect`: it says that every frame of an undisturbed
  handshake is accepted, which for arbitrary servers also depends on what no
  instance has, such as a secured endpoint without a private key or RSA keys too
  small for one padding block.

## Not modelled

- Two owners that open and close one listening server at the same time, and a
  request of a WebSocket connection that outlives the server, which is undefined
  behaviour (hazard at `transport/websocket/server.cpp:160`; `CloseMeansQuiet`
  says that nothing else outlives it).
- Token renewals between the chunks of one message: `SecureConversation` has one
  chunk per message, and the reassembly of several is modelled in `WireValues`.
- Undefined behaviour after an object is destroyed under a coroutine: a
  `BindItem` coroutine of a destroyed subscription, and client coroutines after
  `ClientSession::Reset`. The modules' headers say where they stop.
- The older per-service functions of `transport/websocket/json_codec.cpp` but
  event filters, which the message path no longer uses (the built-in types of that
  form are in `RetainedJson`); the quality flags, the texts of statuses and events,
  local time and the arithmetic of durations; the namespace table, a cache; the
  TLS context.
- OpenSSL and Boost.Asio, which appear as the outcome of a check and as the
  interleavings an executor permits.
- The parsing of the schema by `tools/gen_ua_types.py`; the codecs it emits are
  the structure rules of `BinaryCodec` and `JsonCodec`.

## Plan

Done: everything above. Left: a proof of `RefusalsExplained`, with the servers it
excuses extended as said above.
