----------------------------- MODULE DataChange -----------------------------
(***************************************************************************)
(* What a client gets to know of a value: one monitored item of a          *)
(* ServerSubscription (opcua/session/server_subscription.cpp), with its    *)
(* DataChangeFilter, its monitoring mode and its share of the queue of     *)
(* pending notifications, and what an application may make of the value it *)
(* was told (opcua/types/variant.cpp).                                     *)
(*                                                                         *)
(* EnforceQueueLimit counts the notifications of the item alone, and a     *)
(* Publish response takes the oldest ones, so the share of other items     *)
(* does not matter here.  The timestamps of a DataValue are left out.      *)
(***************************************************************************)
EXTENDS Variant, Sequences

CONSTANTS Variants,             \* values the backend may report
          BadStatuses,          \* status codes a sample or an item may have
          MonitoringParameters  \* what CreateMonitoredItems and Modify may ask for

\* deadband is 0 for no filter, a relative deadband, or a value not above 0; it
\* counts halves, as a DOUBLE does, or is NaN, which is not below or at 0 either.
ASSUME ParametersAssumption ==
    MonitoringParameters \subseteq
        [deadband : Nat \cup {NaN}, queue_size : Nat, discard_oldest : BOOLEAN]

\* A value is one of its type.
ASSUME VariantsAssumption ==
    \A v \in Variants :
        /\ v = [type |-> v.type, array |-> v.array, value |-> v.value]
        /\ v.array \in BOOLEAN
        /\ ~v.array => /\ v.type \in Integral => Holds(v.type, v.value)
                       /\ v.type = "BOOL" => v.value \in 0..1
                       /\ v.type = "DOUBLE" => v.value \in Int \cup {NaN}

Empty == [type |-> "EMPTY", array |-> FALSE, value |-> 0]
DataValue(status, v) == [status_code |-> status, value |-> v]
Nothing == DataValue("none", Empty)

Samples == {DataValue(s, v) : s \in BadStatuses \cup {"Good"}, v \in Variants}
ItemStatuses == {DataValue(s, Empty) : s \in BadStatuses}
DataValues == Samples \cup ItemStatuses

VARIABLES monitoring_mode, parameters, last_reported_value,
          pending,              \* values queued for the item, oldest first
          known,                \* the value the client was told last
          latest, tolerance,    \* the last sample judged, under which deadband
          overflowed            \* the last value reported was discarded at once

item_vars == <<monitoring_mode, parameters, last_reported_value, pending>>
vars == <<item_vars, known, latest, tolerance, overflowed>>

Modes == {"Disabled", "Sampling", "Reporting"}

Init ==
    /\ monitoring_mode \in Modes
    /\ parameters \in MonitoringParameters
    /\ last_reported_value = Nothing
    /\ pending = <<>>
    /\ known = Nothing
    /\ latest = Nothing /\ tolerance = 0
    /\ overflowed = FALSE

(***************************************************************************)
(* The server.                                                             *)
(***************************************************************************)
\* Unordered(a, b, d): two numeric values of which one, or the deadband, is NaN,
\* so that a comparison of their difference with it is false.
Unordered(a, b, d) ==
    \E x \in GetDouble(a), y \in GetDouble(b) : NaN \in {x, y, d}

\* Within(a, b, d): two numeric values less than d apart.
Within(a, b, d) ==
    \E x \in GetDouble(a), y \in GetDouble(b) :
        NaN \notin {x, y, d} /\ x - y < d /\ y - x < d

PassesDeadband(v) ==
    \/ parameters.deadband = 0
    \/ last_reported_value = Nothing
    \/ last_reported_value.status_code # v.status_code
    \/ GetDouble(last_reported_value.value) = {} \/ GetDouble(v.value) = {}
    \/ /\ ~Unordered(last_reported_value.value, v.value, parameters.deadband)
       /\ ~Within(last_reported_value.value, v.value, parameters.deadband)

QueueSize == IF parameters.queue_size = 0 THEN 1 ELSE parameters.queue_size

\* The queue with one more value, and at most one less.
EnforceQueueLimit(queue, v) ==
    IF Len(queue) < QueueSize THEN Append(queue, v)
    ELSE IF parameters.discard_oldest THEN Append(Tail(queue), v)
    ELSE queue

QueueNotification(v) ==
    /\ pending' = EnforceQueueLimit(pending, v)
    /\ overflowed' = (Len(pending) >= QueueSize /\ ~parameters.discard_oldest)

\* Defect: a value is remembered as reported before the deadband is applied.
QueueDataChangeCreeping(v) ==
    /\ monitoring_mode = "Reporting"
    /\ latest' = v /\ tolerance' = parameters.deadband
    /\ last_reported_value' = v
    /\ IF PassesDeadband(v) THEN QueueNotification(v)
       ELSE UNCHANGED <<pending, overflowed>>
    /\ UNCHANGED <<monitoring_mode, parameters, known>>

QueueDataChange(v) ==
    /\ monitoring_mode = "Reporting"
    /\ latest' = v /\ tolerance' = parameters.deadband
    /\ IF PassesDeadband(v)
       THEN last_reported_value' = v /\ QueueNotification(v)
       ELSE UNCHANGED <<last_reported_value, pending, overflowed>>
    /\ UNCHANGED <<monitoring_mode, parameters, known>>

OnNotifications == \E v \in Samples : QueueDataChange(v)
QueueItemStatus == \E v \in ItemStatuses : QueueDataChange(v)

\* The parameters are replaced, the queue and the last value reported are not.
\* RebindItem is the business of MonitoredItems; a status it queues later is a
\* QueueItemStatus here.
ModifyMonitoredItems ==
    /\ \E p \in MonitoringParameters : parameters' = p
    /\ UNCHANGED <<monitoring_mode, last_reported_value, pending, known,
                   latest, tolerance, overflowed>>

SetMonitoringMode ==
    /\ \E mode \in Modes : monitoring_mode' = mode
    /\ UNCHANGED <<parameters, last_reported_value, pending, known,
                   latest, tolerance, overflowed>>

\* A Publish response takes the oldest of the item's values.
TryPublish ==
    /\ \E n \in 1..Len(pending) :
          /\ known' = pending[n]
          /\ pending' = SubSeq(pending, n + 1, Len(pending))
    /\ UNCHANGED <<monitoring_mode, parameters, last_reported_value, latest, tolerance,
                   overflowed>>

Next == OnNotifications \/ QueueItemStatus \/ ModifyMonitoredItems \/ SetMonitoringMode
        \/ TryPublish

Spec == Init /\ [][Next]_vars

(***************************************************************************)
(* Properties.                                                             *)
(***************************************************************************)
TypeOK ==
    /\ monitoring_mode \in Modes
    /\ parameters \in MonitoringParameters
    /\ last_reported_value \in DataValues \cup {Nothing}
    /\ pending \in Seq(DataValues)
    /\ known \in DataValues \cup {Nothing}
    /\ latest \in DataValues \cup {Nothing}
    /\ tolerance \in Nat \cup {NaN}
    /\ overflowed \in BOOLEAN

\* Close(a, b, d): the same value, or one the deadband does not tell apart.
Close(a, b, d) ==
    a = b \/ (a.status_code = b.status_code /\ Within(a.value, b.value, d))

\* NotCompared(a, b, d): numbers of which the filter cannot tell how far apart
\* they are.
NotCompared(a, b, d) == a.status_code = b.status_code /\ Unordered(a.value, b.value, d)

\* PassesDeadband compares with the last value reported, not the last one
\* sampled, EnforceQueueLimit may discard values between, and the filter may be
\* modified at any time.  When everything queued was published, the client
\* knows the last sample up to the deadband it was judged under, however slowly
\* the value crept, unless the queue was full and the item discards the newest,
\* or NaN is compared: under a deadband a number that turns NaN is not reported,
\* and neither is one that follows a NaN that was.
ClientIsClose ==
    (pending = <<>> /\ ~overflowed) =>
        Close(known, latest, tolerance) \/ NotCompared(known, latest, tolerance)

\* What Within and last_reported_value contribute to it.
ReportedIsClose ==
    \/ Close(last_reported_value, latest, tolerance)
    \/ NotCompared(last_reported_value, latest, tolerance)
QueueEndsWithReported ==
    ~overflowed => IF pending = <<>> THEN known = last_reported_value
                   ELSE pending[Len(pending)] = last_reported_value

DeadbandInvariant == TypeOK /\ ReportedIsClose /\ QueueEndsWithReported

Number(v) == IF v.type = "DOUBLE" THEN Truncate(v.value) ELSE v.value
IsNumber(v) == ~v.array /\ v.type \in Integral \cup {"BOOL", "DOUBLE"} /\ v.value # NaN
Convertible(v, type) ==
    /\ IsNumber(v) /\ Holds("INT64", Number(v))
    /\ type = "UINT64" => Number(v) >= 0
ValuesAs(v, type) == {w.value : w \in ChangeType(v, type)}

\* get_int, ToStringHelper: whatever the client is told, a number keeps its
\* value when the application converts it to an integer type that holds it, up
\* to the fraction of a double, the conversion fails when the type does not hold
\* it, and its text says the number itself.  Numbers above Int64 and negative
\* numbers made UINT64 wrap, and are left out.
ConversionIsChecked ==
    LET v == known.value
    IN  /\ \A type \in Integral :
              Convertible(v, type) => ValuesAs(v, type) = {n \in {Number(v)} : Holds(type, n)}
        /\ Convertible(v, "STRING") =>
              ValuesAs(v, "STRING") =
                  {IF v.type = "DOUBLE" THEN <<"decimal", v.value>> ELSE <<"digits", Number(v)>>}
=============================================================================
