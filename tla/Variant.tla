------------------------------- MODULE Variant -------------------------------
(***************************************************************************)
(* The conversions of a Variant (opcua/types/variant.h, variant.cpp).      *)
(*                                                                         *)
(* A variant is a record: its built-in type, whether it holds an array, and *)
(* its value.  A DOUBLE counts halves, so that it can lie between two      *)
(* integers, or is NaN; a BOOL is 0 or 1; of any other type that is not an *)
(* integer type the value is only a name.  A conversion gives the set of   *)
(* values it may produce: none when it fails, one as a rule, and any Int64 *)
(* for a NaN or a DOUBLE outside Int64, where the cast is undefined.       *)
(*                                                                         *)
(* Abstractions.  A DOUBLE holds every Int64 exactly.  A text is what it   *)
(* says: digits, a decimal fraction, one of the two words for a truth      *)
(* value, or the name of another value.                                    *)
(***************************************************************************)
EXTENDS Integers

CONSTANTS Modulus,        \* how many values each integer type has, scaled down
          NaN             \* the double that is not a number

Signed == {"INT8", "INT16", "INT32", "INT64"}
Unsigned == {"UINT8", "UINT16", "UINT32", "UINT64"}

Integral == Signed \cup Unsigned

Least(type) == IF type \in Signed THEN -(Modulus[type] \div 2) ELSE 0
Greatest(type) == Least(type) + Modulus[type] - 1
Holds(type, n) == n \in Least(type)..Greatest(type)

ASSUME NaNAssumption == NaN \notin Int

\* Int64 holds what every other type holds, but for the upper half of UInt64.
ASSUME ModulusAssumption ==
    /\ Modulus \in [Integral -> Nat \ {0}]
    /\ Modulus["INT64"] = Modulus["UINT64"]
    /\ \A type \in Integral \ {"UINT64"} :
          Least("INT64") <= Least(type) /\ Greatest(type) <= Greatest("INT64")

Texts == {"STRING", "LOCALIZED_TEXT"}
\* Other types that have a text.
Named == Texts \cup {"QUALIFIED_NAME", "NODE_ID", "DATE_TIME"}

\* static_cast between integer types.
Cast(type, n) == Least(type) + ((n - Least(type)) % Modulus[type])

\* static_cast from a double towards zero.
Truncate(halves) == IF halves < 0 THEN -((-halves) \div 2) ELSE halves \div 2

\* Whether static_cast from a double to Int64 is defined.
CastIsDefined(halves) == halves # NaN /\ Holds("INT64", Truncate(halves))

GetInt64(v) ==
    IF v.array THEN {}
    ELSE CASE v.type = "BOOL" \/ v.type \in Integral \ {"UINT64"} -> {v.value}
           [] v.type = "UINT64" -> {Cast("INT64", v.value)}
           [] v.type = "DOUBLE" ->
                {n \in Least("INT64")..Greatest("INT64") :
                    CastIsDefined(v.value) => n = Truncate(v.value)}
           [] OTHER -> {}

GetDouble(v) ==
    IF v.array THEN {}
    ELSE CASE v.type = "BOOL" -> {2 * v.value}
           [] v.type = "DOUBLE" -> {v.value}
           [] OTHER -> {2 * n : n \in GetInt64(v)}

GetBool(v) ==
    IF v.array THEN {}
    ELSE IF v.type = "BOOL" THEN {v.value}
    ELSE {IF n = 0 THEN 0 ELSE 1 : n \in GetInt64(v)}

\* Defect: the narrowed value is not compared with the wide one.
GetIntUnchecked(type, v) == {Cast(type, n) : n \in GetInt64(v)}

\* The narrowed value must be the wide one again when widened.
GetInt(type, v) ==
    {Cast(type, n) : n \in {k \in GetInt64(v) : Cast("INT64", Cast(type, k)) = k}}

\* What a text of the given kind says of the value.
ToStringHelper(kind, v) ==
    IF v.array THEN {}
    ELSE CASE v.type = "EMPTY" -> {<<>>}
           [] v.type = "BOOL" ->
                {IF kind = "STRING" THEN <<"digits", v.value>> ELSE <<"word", v.value>>}
           [] v.type = "DOUBLE" -> {<<"decimal", v.value>>}
           [] v.type \in Named -> {<<"name", v.value>>}
           [] OTHER -> {<<"digits", n>> : n \in GetInt64(v)}

\* The values the variant may have after ChangeType; a NODE_ID or a
\* QUALIFIED_NAME comes from its own type only.
ChangeType(v, type) ==
    LET become(values) == {[type |-> type, array |-> FALSE, value |-> n] : n \in values}
    IN  CASE v.array -> {}
          [] ~v.array /\ v.type = type -> {v}
          [] ~v.array /\ v.type # type /\ type = "BOOL" -> become(GetBool(v))
          [] ~v.array /\ v.type # type /\ type = "DOUBLE" -> become(GetDouble(v))
          [] ~v.array /\ v.type # type /\ type = "INT64" -> become(GetInt64(v))
          [] ~v.array /\ v.type # type /\ type \in Integral \ {"INT64"} ->
               become(GetInt(type, v))
          [] ~v.array /\ v.type # type /\ type \in Texts -> become(ToStringHelper(type, v))
          [] ~v.array /\ v.type # type /\ type \in {"NODE_ID", "QUALIFIED_NAME"} -> {}
=============================================================================
