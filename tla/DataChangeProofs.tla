-------------------------- MODULE DataChangeProofs --------------------------
(***************************************************************************)
(* What the client knows of a value, proved for every set of values, of    *)
(* filters and of queue sizes, and for integers of any width.              *)
(*                                                                         *)
(* DeadbandInvariant is inductive: the last value reported is close to the *)
(* last sample, because PassesDeadband compares with it, unless one of     *)
(* them is NaN, and it is what the queue ends with, because only           *)
(* QueueDataChange changes either.                                         *)
(***************************************************************************)
EXTENDS DataChange, TLAPS

\* PassesDeadband holds a value back only when the last one reported is close,
\* or NaN is compared.
LEMMA HeldBackIsClose ==
    ASSUME NEW v, ~PassesDeadband(v)
    PROVE  \/ Close(last_reported_value, v, parameters.deadband)
           \/ NotCompared(last_reported_value, v, parameters.deadband)
BY DEF PassesDeadband, Close, NotCompared

\* EnforceQueueLimit keeps the new value last, unless it discards it.
LEMMA QueueKeepsNewest ==
    ASSUME NEW v \in DataValues, TypeOK, QueueNotification(v)
    PROVE  /\ pending' \in Seq(DataValues)
           /\ overflowed' \in BOOLEAN
           /\ ~overflowed' => pending' # <<>> /\ pending'[Len(pending')] = v
           /\ overflowed' => pending' = pending
<1>1. QueueSize \in Nat \ {0}
  BY ParametersAssumption DEF TypeOK, QueueSize
<1>2. pending' = EnforceQueueLimit(pending, v)
  BY DEF QueueNotification
<1>3. overflowed' <=> (Len(pending) >= QueueSize /\ ~parameters.discard_oldest)
  BY DEF QueueNotification
<1>4. overflowed' \in BOOLEAN
  BY DEF QueueNotification
<1>5. pending \in Seq(DataValues)
  BY DEF TypeOK
<1>6. CASE Len(pending) < QueueSize
  <2>1. pending' = Append(pending, v)
    BY <1>2, <1>6 DEF EnforceQueueLimit
  <2>2. /\ pending' \in Seq(DataValues) /\ pending' # <<>>
        /\ pending'[Len(pending')] = v
    BY <2>1, <1>5
  <2>3. ~overflowed'
    BY <1>1, <1>3, <1>5, <1>6
  <2> QED
    BY <2>2, <2>3, <1>4
<1>7. CASE Len(pending) >= QueueSize /\ parameters.discard_oldest
  <2>1. pending' = Append(Tail(pending), v)
    BY <1>1, <1>2, <1>5, <1>7 DEF EnforceQueueLimit
  <2>2. pending # <<>>
    BY <1>1, <1>5, <1>7
  <2>3. Tail(pending) \in Seq(DataValues)
    BY <1>5, <2>2
  <2>4. /\ pending' \in Seq(DataValues) /\ pending' # <<>>
        /\ pending'[Len(pending')] = v
    BY <2>1, <2>3
  <2>5. ~overflowed'
    BY <1>3, <1>7
  <2> QED
    BY <2>4, <2>5, <1>4
<1>8. CASE Len(pending) >= QueueSize /\ ~parameters.discard_oldest
  <2>1. pending' = pending
    BY <1>1, <1>2, <1>5, <1>8 DEF EnforceQueueLimit
  <2>2. overflowed'
    BY <1>3, <1>8
  <2> QED
    BY <2>1, <2>2, <1>4, <1>5
<1> QED
  BY <1>1, <1>5, <1>6, <1>7, <1>8

\* QueueDataChange: a value held back leaves the queue alone, one that passes
\* becomes the last value reported and the end of the queue.
LEMMA QueueDataChangeStep ==
    ASSUME NEW v \in DataValues, DeadbandInvariant, QueueDataChange(v)
    PROVE  DeadbandInvariant'
<1>1. TypeOK /\ ReportedIsClose /\ QueueEndsWithReported
  BY DEF DeadbandInvariant
<1>2. /\ latest' = v /\ tolerance' = parameters.deadband
      /\ monitoring_mode' = monitoring_mode /\ parameters' = parameters
      /\ known' = known
  BY DEF QueueDataChange
<1>3. parameters.deadband \in Nat \cup {NaN}
  BY <1>1, ParametersAssumption DEF TypeOK
<1>4. CASE PassesDeadband(v)
  <2>1. last_reported_value' = v /\ QueueNotification(v)
    BY <1>4 DEF QueueDataChange
  <2>2. /\ pending' \in Seq(DataValues)
        /\ overflowed' \in BOOLEAN
        /\ ~overflowed' => pending' # <<>> /\ pending'[Len(pending')] = v
    BY <1>1, <2>1, QueueKeepsNewest
  <2>3. TypeOK'
    BY <1>1, <1>2, <1>3, <2>1, <2>2 DEF TypeOK
  <2>4. ReportedIsClose'
    BY <1>2, <2>1 DEF ReportedIsClose, Close
  <2>5. QueueEndsWithReported'
    BY <2>1, <2>2 DEF QueueEndsWithReported
  <2> QED
    BY <2>3, <2>4, <2>5 DEF DeadbandInvariant
<1>5. CASE ~PassesDeadband(v)
  <2>1. /\ last_reported_value' = last_reported_value /\ pending' = pending
        /\ overflowed' = overflowed
    BY <1>5 DEF QueueDataChange
  <2>2. TypeOK'
    BY <1>1, <1>2, <1>3, <2>1 DEF TypeOK
  <2>3. \/ Close(last_reported_value, v, parameters.deadband)
        \/ NotCompared(last_reported_value, v, parameters.deadband)
    BY <1>5, HeldBackIsClose
  <2>4. ReportedIsClose'
    BY <1>2, <2>1, <2>3 DEF ReportedIsClose, Close, NotCompared, Within, Unordered
  <2>5. QueueEndsWithReported'
    BY <1>1, <1>2, <2>1 DEF QueueEndsWithReported
  <2> QED
    BY <2>2, <2>4, <2>5 DEF DeadbandInvariant
<1> QED
  BY <1>4, <1>5

\* TryPublish takes the oldest values: what is left ends as before, and when
\* nothing is left the client knows the last one.
LEMMA TryPublishStep ==
    ASSUME DeadbandInvariant, TryPublish
    PROVE  DeadbandInvariant'
<1>1. TypeOK /\ ReportedIsClose /\ QueueEndsWithReported
  BY DEF DeadbandInvariant
<1>2. /\ monitoring_mode' = monitoring_mode /\ parameters' = parameters
      /\ last_reported_value' = last_reported_value /\ latest' = latest
      /\ tolerance' = tolerance /\ overflowed' = overflowed
  BY DEF TryPublish
<1>3. PICK n \in 1..Len(pending) :
          /\ known' = pending[n]
          /\ pending' = SubSeq(pending, n + 1, Len(pending))
  BY DEF TryPublish
<1>4. pending \in Seq(DataValues)
  BY <1>1 DEF TypeOK
<1>5. Len(pending) \in Nat \ {0} /\ n \in Nat
  BY <1>3, <1>4
<1>6. /\ pending' \in Seq(DataValues) /\ known' \in DataValues
      /\ Len(pending') = Len(pending) - n
      /\ \A i \in 1..Len(pending') : pending'[i] = pending[n + i]
  BY <1>3, <1>4, <1>5
<1>7. TypeOK'
  BY <1>1, <1>2, <1>6 DEF TypeOK
<1>8. ReportedIsClose'
  BY <1>1, <1>2 DEF ReportedIsClose, Close, NotCompared, Within, Unordered
<1>9. QueueEndsWithReported'
  <2> SUFFICES ASSUME ~overflowed'
               PROVE  IF pending' = <<>> THEN known' = last_reported_value
                      ELSE pending'[Len(pending')] = last_reported_value
    BY <1>2 DEF QueueEndsWithReported
  <2>1. pending # <<>> /\ pending[Len(pending)] = last_reported_value
    BY <1>1, <1>2, <1>4, <1>5 DEF QueueEndsWithReported
  <2>2. CASE n = Len(pending)
    <3>1. pending' = <<>>
      BY <1>5, <1>6, <2>2
    <3> QED
      BY <1>3, <2>1, <2>2, <3>1
  <2>3. CASE n < Len(pending)
    <3>1. Len(pending') \in 1..Len(pending') /\ n + Len(pending') = Len(pending)
      BY <1>5, <1>6, <2>3
    <3>2. pending' # <<>>
      BY <3>1
    <3>3. pending'[Len(pending')] = pending[Len(pending)]
      BY <1>6, <3>1
    <3> QED
      BY <2>1, <3>2, <3>3
  <2>4. n = Len(pending) \/ n < Len(pending)
    BY <1>3, <1>5
  <2> QED
    BY <2>2, <2>3, <2>4
<1> QED
  BY <1>7, <1>8, <1>9 DEF DeadbandInvariant

\* Before anything is sampled nothing is queued and nothing is known.
LEMMA DeadbandInvariantInit == Init => DeadbandInvariant
<1> SUFFICES ASSUME Init PROVE DeadbandInvariant
  OBVIOUS
<1>1. TypeOK
  <2>1. pending \in Seq(DataValues) /\ tolerance \in Nat
    BY DEF Init
  <2>2. overflowed \in BOOLEAN
    BY DEF Init
  <2>3. /\ last_reported_value \in DataValues \cup {Nothing}
        /\ known \in DataValues \cup {Nothing} /\ latest \in DataValues \cup {Nothing}
    BY DEF Init
  <2> QED
    BY <2>1, <2>2, <2>3 DEF Init, TypeOK
<1>2. ReportedIsClose
  BY DEF Init, ReportedIsClose, Close
<1>3. QueueEndsWithReported
  BY DEF Init, QueueEndsWithReported
<1> QED
  BY <1>1, <1>2, <1>3 DEF DeadbandInvariant

\* Every step of the server keeps the invariant, whatever the backend reports
\* and however the client modifies the item in between.
LEMMA DeadbandInvariantNext == DeadbandInvariant /\ [Next]_vars => DeadbandInvariant'
<1> SUFFICES ASSUME DeadbandInvariant, [Next]_vars PROVE DeadbandInvariant'
  OBVIOUS
<1>1. CASE OnNotifications
  BY <1>1, QueueDataChangeStep DEF OnNotifications, DataValues
<1>2. CASE QueueItemStatus
  BY <1>2, QueueDataChangeStep DEF QueueItemStatus, DataValues
<1>3. CASE ModifyMonitoredItems
  <2>1. /\ parameters' \in MonitoringParameters
        /\ UNCHANGED <<monitoring_mode, last_reported_value, pending, known, latest,
                       tolerance, overflowed>>
    BY <1>3 DEF ModifyMonitoredItems
  <2>2. TypeOK'
    BY <2>1 DEF DeadbandInvariant, TypeOK
  <2>3. ReportedIsClose' /\ QueueEndsWithReported'
    BY <2>1 DEF DeadbandInvariant, ReportedIsClose, Close, NotCompared, Within, Unordered,
               QueueEndsWithReported
  <2> QED
    BY <2>2, <2>3 DEF DeadbandInvariant
<1>4. CASE SetMonitoringMode
  <2>1. /\ monitoring_mode' \in Modes
        /\ UNCHANGED <<parameters, last_reported_value, pending, known, latest,
                       tolerance, overflowed>>
    BY <1>4 DEF SetMonitoringMode
  <2>2. TypeOK'
    BY <2>1 DEF DeadbandInvariant, TypeOK
  <2>3. ReportedIsClose' /\ QueueEndsWithReported'
    BY <2>1 DEF DeadbandInvariant, ReportedIsClose, Close, NotCompared, Within, Unordered,
               QueueEndsWithReported
  <2> QED
    BY <2>2, <2>3 DEF DeadbandInvariant
<1>5. CASE TryPublish
  BY <1>5, TryPublishStep
<1>6. CASE UNCHANGED vars
  BY <1>6 DEF vars, item_vars, DeadbandInvariant, TypeOK, ReportedIsClose, Close, Within,
              NotCompared, Unordered, QueueEndsWithReported
<1> QED
  BY <1>1, <1>2, <1>3, <1>4, <1>5, <1>6 DEF Next

\* QueueDataChange, EnforceQueueLimit and TryPublish together: the last value
\* reported is close to the last sample, or NaN keeps them from being compared,
\* and it is what the queue ends with, for any values, filters and queue sizes.
THEOREM DeadbandHolds == Spec => []DeadbandInvariant
<1>1. Init => DeadbandInvariant
  BY DeadbandInvariantInit
<1>2. DeadbandInvariant /\ [Next]_vars => DeadbandInvariant'
  BY DeadbandInvariantNext
<1> QED
  BY <1>1, <1>2, PTL DEF Spec

\* A client that was sent everything queued for an item knows the last sample
\* up to the deadband it was judged under, unless the item discards the newest
\* value and its queue was full, or one of the two numbers or the deadband is NaN.
THEOREM ClientStaysClose == Spec => []ClientIsClose
<1>1. DeadbandInvariant => ClientIsClose
  BY DEF DeadbandInvariant, ReportedIsClose, QueueEndsWithReported, ClientIsClose
<1> QED
  BY <1>1, DeadbandHolds, PTL

(***************************************************************************)
(* Conversions.                                                            *)
(***************************************************************************)
LEMMA Ranges ==
    ASSUME NEW type \in Integral
    PROVE  /\ Modulus[type] \in Nat \ {0} /\ Least(type) \in Int /\ Greatest(type) \in Int
           /\ Greatest(type) = Least(type) + Modulus[type] - 1
           /\ \A n : Holds(type, n) <=> n \in Int /\ Least(type) <= n /\ n <= Greatest(type)
<1>1. Modulus[type] \in Nat \ {0}
  BY ModulusAssumption
<1>2. Least(type) \in Int
  BY <1>1 DEF Least
<1> QED
  BY <1>1, <1>2 DEF Greatest, Holds

\* A cast ends in the range of its type, and leaves a value of the type alone.
LEMMA CastHolds ==
    ASSUME NEW type \in Integral, NEW n \in Int
    PROVE  /\ Holds(type, Cast(type, n))
           /\ Holds(type, n) => Cast(type, n) = n
<1>0. /\ Modulus[type] \in Nat \ {0} /\ Least(type) \in Int
      /\ Greatest(type) = Least(type) + Modulus[type] - 1
      /\ \A k : Holds(type, k) <=> k \in Int /\ Least(type) <= k /\ k <= Greatest(type)
  BY Ranges
<1> DEFINE m == Modulus[type]  low == Least(type)
<1>1. (n - low) % m \in 0..(m - 1)
  BY <1>0
<1>2. (n - low) \in 0..(m - 1) => (n - low) % m = n - low
  BY <1>0
<1>3. Cast(type, n) = low + ((n - low) % m)
  BY DEF Cast
<1> HIDE DEF m, low
<1> QED
  BY <1>0, <1>1, <1>2, <1>3 DEF m, low

\* A number of the application's, read as an Int64, is the number.
LEMMA NumberAsInt64 ==
    ASSUME NEW v \in Variants, IsNumber(v), Holds("INT64", Number(v))
    PROVE  Number(v) \in Int /\ GetInt64(v) = {Number(v)}
<1>0. "INT64" \in Integral /\ "UINT64" \in Integral
  BY DEF Integral, Signed, Unsigned
<1>1. Number(v) \in Int /\ Number(v) \in Least("INT64")..Greatest("INT64")
  BY <1>0, Ranges DEF Holds
<1>2. CASE v.type = "DOUBLE"
  <2>1. Number(v) = Truncate(v.value)
    BY <1>2 DEF Number
  <2>2. GetInt64(v) = {n \in Least("INT64")..Greatest("INT64") :
                          CastIsDefined(v.value) => n = Truncate(v.value)}
    BY <1>2 DEF GetInt64, IsNumber, Integral, Signed, Unsigned
  <2>3. CastIsDefined(v.value)
    BY <2>1 DEF CastIsDefined, IsNumber
  <2> QED
    BY <1>1, <2>1, <2>2, <2>3
<1>3. CASE v.type = "UINT64"
  <2>1. Number(v) = v.value
    BY <1>3 DEF Number
  <2>2. GetInt64(v) = {Cast("INT64", v.value)}
    BY <1>3 DEF GetInt64, IsNumber
  <2>3. Cast("INT64", v.value) = v.value
    BY <1>0, <1>1, <2>1, CastHolds
  <2> QED
    BY <1>1, <2>1, <2>2, <2>3
<1>4. CASE v.type \notin {"DOUBLE", "UINT64"}
  <2>1. Number(v) = v.value
    BY <1>4 DEF Number
  <2>2. GetInt64(v) = {v.value}
    BY <1>4 DEF GetInt64, IsNumber
  <2> QED
    BY <1>1, <2>1, <2>2
<1> QED
  BY <1>2, <1>3, <1>4

\* get_int's comparison: narrowing and widening gives the number back exactly
\* when the type holds it.
LEMMA NarrowingIsChecked ==
    ASSUME NEW type \in Integral, NEW n, Holds("INT64", n), type = "UINT64" => n >= 0
    PROVE  Cast("INT64", Cast(type, n)) = n <=> Holds(type, n)
<1>0. "INT64" \in Integral /\ "UINT64" \in Integral
  BY DEF Integral, Signed, Unsigned
<1>1. n \in Int /\ Least("INT64") <= n /\ n <= Greatest("INT64")
  BY <1>0, Ranges
<1>2. /\ Holds(type, Cast(type, n)) /\ (Holds(type, n) => Cast(type, n) = n)
      /\ Cast("INT64", n) = n
  BY <1>0, <1>1, CastHolds
<1>3. CASE type = "UINT64"
  <2>1. Least("UINT64") = 0 /\ Least("INT64") <= 0
    <3>1. Modulus["INT64"] \in Nat
      BY <1>0, Ranges
    <3> QED
      BY <3>1 DEF Least, Signed
  <2>2. Greatest("INT64") <= Greatest("UINT64")
    BY <1>0, <2>1, Ranges, ModulusAssumption
  <2>3. Holds(type, n)
    BY <1>0, <1>1, <1>3, <2>1, <2>2, Ranges
  <2> QED
    BY <1>2, <2>3
<1>4. CASE type # "UINT64"
  <2>1. Least("INT64") <= Least(type) /\ Greatest(type) <= Greatest("INT64")
    BY <1>4, ModulusAssumption
  <2>2. Cast(type, n) \in Int /\ Holds("INT64", Cast(type, n))
    BY <1>0, <1>2, <2>1, Ranges
  <2>3. Cast("INT64", Cast(type, n)) = Cast(type, n)
    BY <1>0, <2>2, CastHolds
  <2> QED
    BY <1>2, <2>3
<1> QED
  BY <1>3, <1>4

\* The values of what a conversion made of a set of values are those values.
LEMMA ValuesOfVariants ==
    ASSUME NEW v, NEW type, NEW S,
           ChangeType(v, type) = {[type |-> type, array |-> FALSE, value |-> k] : k \in S}
    PROVE  ValuesAs(v, type) = S
<1> DEFINE made == ChangeType(v, type)
<1>0. made = {[type |-> type, array |-> FALSE, value |-> k] : k \in S}
  OBVIOUS
<1> HIDE DEF made
<1>1. ASSUME NEW k \in S PROVE k \in {w.value : w \in made}
  <2> DEFINE w == [type |-> type, array |-> FALSE, value |-> k]
  <2>1. w \in made
    BY <1>0
  <2>2. w.value = k
    OBVIOUS
  <2> HIDE DEF w
  <2> QED
    BY <2>1, <2>2
<1>2. ASSUME NEW x \in {w.value : w \in made} PROVE x \in S
  <2>1. PICK w \in made : x = w.value
    BY <1>2
  <2>2. PICK k \in S : w = [type |-> type, array |-> FALSE, value |-> k]
    BY <1>0, <2>1
  <2> QED
    BY <2>1, <2>2
<1>3. {w.value : w \in made} = S
  BY <1>1, <1>2
<1> QED
  BY <1>3 DEF ValuesAs, made

\* ChangeType to an integer type: the number itself, when the type holds it.
LEMMA ConvertsToInteger ==
    ASSUME NEW v \in Variants, NEW type \in Integral, Convertible(v, type)
    PROVE  ValuesAs(v, type) = {n \in {Number(v)} : Holds(type, n)}
<1> DEFINE n == Number(v)
<1>0. /\ IsNumber(v) /\ Holds("INT64", n) /\ (type = "UINT64" => n >= 0) /\ ~v.array
  BY DEF Convertible, IsNumber
<1>1. n \in Int /\ GetInt64(v) = {n}
  BY <1>0, NumberAsInt64
<1>2. type \notin Texts \cup {"BOOL", "DOUBLE", "NODE_ID", "QUALIFIED_NAME"}
  BY DEF Integral, Signed, Unsigned, Texts
<1> HIDE DEF n
<1>3. CASE v.type = type
  <2>1. ChangeType(v, type) = {v}
    BY <1>0, <1>3 DEF ChangeType
  <2>2. n = v.value
    BY <1>2, <1>3 DEF n, Number
  <2>3. Holds(type, n)
    BY <1>0, <1>3, <2>2, VariantsAssumption
  <2> QED
    BY <2>1, <2>2, <2>3 DEF ValuesAs, n
<1>4. CASE v.type # type /\ type = "INT64"
  <2>1. ChangeType(v, type) = {[type |-> type, array |-> FALSE, value |-> k] : k \in GetInt64(v)}
    BY <1>0, <1>2, <1>4 DEF ChangeType
  <2>2. ValuesAs(v, type) = GetInt64(v)
    BY <2>1, ValuesOfVariants
  <2> QED
    BY <1>0, <1>1, <1>4, <2>2 DEF n
<1>5. CASE v.type # type /\ type # "INT64"
  <2>1. ChangeType(v, type) =
          {[type |-> type, array |-> FALSE, value |-> k] : k \in GetInt(type, v)}
    BY <1>0, <1>2, <1>5 DEF ChangeType
  <2>2. ValuesAs(v, type) = GetInt(type, v)
    BY <2>1, ValuesOfVariants
  <2>3. Cast("INT64", Cast(type, n)) = n <=> Holds(type, n)
    BY <1>0, NarrowingIsChecked
  <2>4. Holds(type, n) => Cast(type, n) = n
    BY <1>1, CastHolds
  <2>5. CASE Holds(type, n)
    BY <1>1, <2>2, <2>3, <2>4, <2>5 DEF GetInt, n
  <2>6. CASE ~Holds(type, n)
    BY <1>1, <2>2, <2>3, <2>6 DEF GetInt, n
  <2> QED
    BY <2>5, <2>6
<1> QED
  BY <1>3, <1>4, <1>5

\* ChangeType to a string: the number's own digits, or the double's decimals.
LEMMA ConvertsToText ==
    ASSUME NEW v \in Variants, Convertible(v, "STRING")
    PROVE  ValuesAs(v, "STRING") =
             {IF v.type = "DOUBLE" THEN <<"decimal", v.value>> ELSE <<"digits", Number(v)>>}
<1>1. IsNumber(v) /\ ~v.array /\ v.type # "STRING"
  BY DEF Convertible, IsNumber, Integral, Signed, Unsigned
<1>2. GetInt64(v) = {Number(v)}
  BY <1>1, NumberAsInt64 DEF Convertible
<1>3. v.type \notin Named \cup {"EMPTY"}
  BY <1>1 DEF IsNumber, Integral, Signed, Unsigned, Named, Texts
<1>4. ChangeType(v, "STRING") =
        {[type |-> "STRING", array |-> FALSE, value |-> t] : t \in ToStringHelper("STRING", v)}
  BY <1>1 DEF ChangeType, Integral, Signed, Unsigned, Texts
<1>5. ValuesAs(v, "STRING") = ToStringHelper("STRING", v)
  BY <1>4, ValuesOfVariants
<1>6. CASE v.type = "DOUBLE"
  BY <1>1, <1>3, <1>5, <1>6 DEF ToStringHelper
<1>7. CASE v.type = "BOOL"
  BY <1>1, <1>3, <1>5, <1>7 DEF ToStringHelper, Number
<1>8. CASE v.type \notin {"DOUBLE", "BOOL"}
  BY <1>1, <1>2, <1>3, <1>5, <1>8 DEF ToStringHelper
<1> QED
  BY <1>6, <1>7, <1>8

\* Variant::ChangeType on what a client was told: for integers of any width, a
\* number arrives in an integer type with its value or not at all, and in a text
\* with its value.
THEOREM ConversionsAreChecked == Spec => []ConversionIsChecked
<1>1. TypeOK => ConversionIsChecked
  <2> SUFFICES ASSUME TypeOK PROVE ConversionIsChecked
    OBVIOUS
  <2>1. CASE known.value \in Variants
    BY <2>1, ConvertsToInteger, ConvertsToText DEF ConversionIsChecked
  <2>2. CASE known.value = Empty
    BY <2>2 DEF ConversionIsChecked, Convertible, IsNumber, Empty, Integral, Signed, Unsigned
  <2>3. known.value \in Variants \/ known.value = Empty
    BY DEF TypeOK, DataValues, Samples, ItemStatuses, DataValue, Nothing
  <2> QED
    BY <2>1, <2>2, <2>3
<1> QED
  BY <1>1, DeadbandHolds, PTL DEF DeadbandInvariant
=============================================================================
