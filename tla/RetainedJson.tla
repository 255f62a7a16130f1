---------------------------- MODULE RetainedJson -----------------------------
(***************************************************************************)
(* The codec of built-in values in the anonymous namespace of              *)
(* opcua/transport/websocket/json_codec.cpp: Variants as {Type, Body},     *)
(* QualifiedNames as {Name, Uri}, bytes as an array of numbers.  The       *)
(* services travel in the form of JsonCodec; of this one only the helpers  *)
(* that read an envelope are still called.  It is modelled as the pair of  *)
(* functions it is, encoder and decoder.                                   *)
(*                                                                         *)
(* JSON values, built-in values and results are those of JsonCodec.  A     *)
(* full status code is the pair of its halves, as everywhere.              *)
(***************************************************************************)
EXTENDS JsonCodec

(***************************************************************************)
(* Reading JSON: what is not of the wanted kind throws.                    *)
(***************************************************************************)
RequireKind(json, kind) == IF json[1] = kind THEN Got(json[2]) ELSE Bad
RequireUInt64(json) ==
    IF json[1] = "number" /\ json[2] >= 0 THEN Got(json[2]) ELSE Bad
RequireField(json, key) == RequireKind(json, "object").ok /\ Member(json, key) # NoMember

\* The cast that follows RequireInt64 or RequireUInt64; the wider types are
\* beyond TLC's integers.
Widths == [SByte |-> 2^8, Byte |-> 2^8, Int16 |-> 2^16, UInt16 |-> 2^16]
Narrowed(name, n) ==
    LET raw == n % Widths[name]
    IN  IF name \notin DOMAIN Widths THEN n
        ELSE IF name \in DOMAIN Modulus THEN AsSigned(name, raw) ELSE raw
Signs == {"SByte", "Int16", "Int32", "Int64"}
RequireNumber(name, json) ==
    LET number == IF name \in Signs \cup {"Float", "Double"}
                  THEN RequireKind(json, "number") ELSE RequireUInt64(json)
    IN  Mapped(number, Narrowed(name, number.value))

(***************************************************************************)
(* Values without members.                                                 *)
(***************************************************************************)
\* The null DateTime is JSON null; the text of the first instant is read as
\* null too.
EncodeDateTime(ticks) ==
    IF ticks = 0 THEN JsonNull ELSE Text(<<"date", UTCExplode(ticks)>>)
DecodeDateTime(json) == DecodeJsonDateTime(json)

EncodeByteStringNumbers(bytes) == <<"array", [i \in DOMAIN bytes |-> Number(bytes[i])]>>
DecodeOctet(json) ==
    LET raw == RequireUInt64(json) IN IF raw.ok /\ raw.value <= 255 THEN raw ELSE Bad
DecodeByteStringNumbers(json) ==
    IF json[1] = "array" THEN DecodeEach([i \in DOMAIN json[2] |-> DecodeOctet(json[2][i])])
    ELSE Bad

\* A number; an object with the number in it is taken too.
EncodeStatus(status) == Number(status)
DecodeStatus(json) ==
    IF json[1] = "number" THEN Got(json[2]) ELSE RequireKind(Member(json, "fullCode"), "number")
\* A StatusCode is the upper half alone.
EncodeStatusCode(code) == Number(code)
DecodeStatusCode(json) == RequireUInt64(json)

\* The text of an ExpandedNodeId, of which a null NodeId must be written out.
DecodeNodeIdText(json) == DecodeJsonNodeId(json)
DecodeExpandedNodeIdText(json) == DecodeJsonExpandedNodeId(json)

(***************************************************************************)
(* Objects.                                                                *)
(***************************************************************************)
EncodeQualifiedName(name) ==
    ObjectOf([Name |-> Text(name[2]), Uri |-> IF name[1] = 0 THEN NoMember ELSE Number(name[1])])
DecodeQualifiedName(json) ==
    LET name == RequireKind(Member(json, "Name"), "text")
        uri == IF Member(json, "Uri") = NoMember THEN Got(0) ELSE RequireUInt64(Member(json, "Uri"))
    IN  IF name.ok /\ uri.ok THEN Got(<<Narrowed("UInt16", uri.value), name.value>>) ELSE Bad

\* A member that is read when it is there.
FindText(json, key) ==
    IF Member(json, key) = NoMember THEN Got(<<>>) ELSE RequireKind(Member(json, key), "text")
DecodeLocalizedTextMembers(json) ==
    IF json[1] = "object" THEN DecodeEach(<<FindText(json, "Locale"), FindText(json, "Text")>>)
    ELSE Bad

\* Only a body that is JSON already has a form.
EncodeTypedBody(object) ==
    Object([TypeId |-> Text(ExpandedNodeIdText(object[1])),
            Body |-> IF object[2][1] = "json" THEN object[2][2] ELSE Throws])
DecodeTypedBody(json) ==
    LET typeId == DecodeExpandedNodeIdText(Member(json, "TypeId"))
    IN  IF typeId.ok /\ RequireField(json, "Body")
        THEN Got(<<typeId.value, <<"json", Member(json, "Body")>> >>) ELSE Bad

RECURSIVE EncodeBody(_, _), DecodeBodyAs(_, _)

DiagnosticTypes == <<"Int32", "Int32", "Int32", "Int32", "String", "StatusCode", "DiagnosticInfo">>
EncodeDiagnosticMembers(info) ==
    LET present == {i \in DOMAIN info : info[i] # <<>>}
    IN  Object([name \in {DiagnosticInfoNames[i] : i \in present} |->
                  LET i == CHOOSE k \in present : DiagnosticInfoNames[k] = name
                  IN  EncodeBody(DiagnosticTypes[i], info[i][1])])
DecodeDiagnosticMembers(json) ==
    IF json[1] # "object" THEN Bad
    ELSE DecodeEach([i \in DOMAIN DiagnosticInfoNames |->
           IF Member(json, DiagnosticInfoNames[i]) = NoMember THEN Got(<<>>)
           ELSE Present(DecodeBodyAs(DiagnosticTypes[i], Member(json, DiagnosticInfoNames[i])))])

\* The qualifier is left out; of the status the code is kept, a good one too.
EncodeDataValueMembers(value) ==
    ObjectOf([Value |-> IF IsNullVariant(value[1]) THEN NoMember ELSE EncodeBody("Variant", value[1]),
              Status |-> IF value[2] = 0 THEN NoMember ELSE EncodeStatusCode(value[2]),
              SourceTimestamp |-> IF value[3] = 0 THEN NoMember ELSE EncodeDateTime(value[3]),
              ServerTimestamp |-> IF value[4] = 0 THEN NoMember ELSE EncodeDateTime(value[4])])
FindAs(json, key, name, default) ==
    IF Member(json, key) = NoMember THEN Got(default) ELSE DecodeBodyAs(name, Member(json, key))
DecodeDataValueMembers(json) ==
    IF json[1] # "object" THEN Bad
    ELSE DecodeEach(<<FindAs(json, "Value", "Variant", NullVariant),
                      FindAs(json, "Status", "Code", 0),
                      FindAs(json, "SourceTimestamp", "DateTime", 0),
                      FindAs(json, "ServerTimestamp", "DateTime", 0), Got(0)>>)

(***************************************************************************)
(* Variants: an array is told from a scalar by its body alone.             *)
(***************************************************************************)
EncodeList(name, values) == <<"array", [i \in DOMAIN values |-> EncodeBody(name, values[i])]>>
DecodeList(name, items) == DecodeEach([i \in DOMAIN items |-> DecodeBodyAs(name, items[i])])

FromBuiltInTypeId(id) ==
    IF id = 0 THEN "Null" ELSE IF id \in DOMAIN BuiltInTypes THEN BuiltInTypes[id] ELSE "COUNT"

EncodeTypedVariant(variant) ==
    IF IsNullVariant(variant) THEN JsonNull
    ELSE Object([Type |-> Number(TypeId(variant[1])),
                 Body |-> IF variant[2] = "scalar" THEN EncodeBody(variant[1], variant[3])
                          ELSE EncodeList(variant[1], variant[3])])

\* An array of nulls has a length only.
DecodeVariantAs(name, body) ==
    LET array == DecodeList(name, body[2])
        scalar == DecodeBodyAs(name, body)
    IN  CASE name = "Null" ->
               Got(IF body[1] = "array" THEN <<name, "array", Len(body[2])>> ELSE NullVariant)
          [] name # "Null" /\ body[1] = "array" -> Mapped(array, <<name, "array", array.value>>)
          [] name # "Null" /\ body[1] # "array" -> Mapped(scalar, <<name, "scalar", scalar.value>>)
\* A body that is null or absent is the empty Variant whatever its type.
DecodeTypedVariant(json) ==
    LET id == RequireUInt64(Member(json, "Type"))
        name == FromBuiltInTypeId(id.value)
        body == Member(json, "Body")
    IN  IF json[1] = "null" THEN Got(NullVariant)
        ELSE IF ~RequireField(json, "Type") \/ ~id.ok \/ name = "COUNT" THEN Bad
        ELSE IF body = NoMember \/ body[1] = "null" THEN Got(NullVariant)
        ELSE DecodeVariantAs(name, body)

\* One value of a built-in type, or a StatusCode ("Code"): the arms of EncodeVariant and DecodeVariant.
EncodeBody(name, value) ==
    CASE name = "Boolean" -> <<"bool", value>>
      [] name = "DateTime" -> EncodeDateTime(value)
      [] name = "StatusCode" -> EncodeStatus(value)
      [] name = "Code" -> EncodeStatusCode(value)
      [] name \in {"Float", "Double"} -> EncodeJsonDouble(value)
      [] name \in DOMAIN Units \ {"Boolean", "DateTime", "StatusCode", "Float", "Double"} -> Number(value)
      [] name \in {"String", "XmlElement"} -> Text(value)
      [] name = "ByteString" -> EncodeByteStringNumbers(value)
      [] name = "Guid" -> Text(GuidText(value))
      [] name = "QualifiedName" -> EncodeQualifiedName(value)
      [] name = "LocalizedText" -> EncodeJsonLocalizedText(value)
      [] name = "NodeId" -> Text(NodeIdText(value))
      [] name = "ExpandedNodeId" -> Text(ExpandedNodeIdText(value))
      [] name = "DiagnosticInfo" -> EncodeDiagnosticMembers(value)
      [] name = "ExtensionObject" -> EncodeTypedBody(value)
      [] name = "Variant" -> EncodeTypedVariant(value)
      [] name = "DataValue" -> EncodeDataValueMembers(value)

DecodeBodyAs(name, json) ==
    CASE name = "Boolean" -> RequireKind(json, "bool")
      [] name = "DateTime" -> DecodeDateTime(json)
      [] name = "StatusCode" -> DecodeStatus(json)
      [] name = "Code" -> DecodeStatusCode(json)
      [] name \in DOMAIN Units \ {"Boolean", "DateTime", "StatusCode"} -> RequireNumber(name, json)
      [] name \in {"String", "XmlElement"} -> RequireKind(json, "text")
      [] name = "ByteString" -> DecodeByteStringNumbers(json)
      [] name = "Guid" -> DecodeJsonGuid(json)
      [] name = "QualifiedName" -> DecodeQualifiedName(json)
      [] name = "LocalizedText" -> DecodeLocalizedTextMembers(json)
      [] name = "NodeId" -> DecodeNodeIdText(json)
      [] name = "ExpandedNodeId" -> DecodeExpandedNodeIdText(json)
      [] name = "DiagnosticInfo" -> DecodeDiagnosticMembers(json)
      [] name = "ExtensionObject" -> DecodeTypedBody(json)
      [] name = "Variant" -> DecodeTypedVariant(json)
      [] name = "DataValue" -> DecodeDataValueMembers(json)

(***************************************************************************)
(* Structures: every member is written and required, but for an Event's    *)
(* SourceName, which earlier peers do not send.  A structure is the list   *)
(* of its members, each <<name, type>> or <<name, "array", type>>.         *)
(***************************************************************************)
EventFilterMembers ==
    << <<"Types", "UInt32">>, <<"OfType", "array", "NodeId">>, <<"ChildOf", "array", "NodeId">> >>
AggregateFilterMembers ==
    << <<"StartTime", "DateTime">>, <<"Interval", "Int64">>, <<"AggregateType", "NodeId">> >>
EventMembers ==
    << <<"EventTypeId", "NodeId">>, <<"EventId", "UInt64">>, <<"Time", "DateTime">>,
       <<"ReceiveTime", "DateTime">>, <<"ChangeMask", "UInt32">>, <<"Severity", "UInt32">>,
       <<"NodeId", "NodeId">>, <<"SourceName", "String">>, <<"UserId", "NodeId">>,
       <<"Value", "Variant">>, <<"Qualifier", "UInt32">>, <<"Message", "LocalizedText">>,
       <<"Acked", "Boolean">>, <<"AcknowledgedTime", "DateTime">>,
       <<"AcknowledgedUserId", "NodeId">> >>
MultiStatusMembers == << <<"Status", "StatusCode">>, <<"Results", "array", "Code">> >>

EncodeMembers(members, value) ==
    Object([key \in {members[i][1] : i \in DOMAIN members} |->
              LET i == CHOOSE k \in DOMAIN members : members[k][1] = key
              IN  IF Len(members[i]) = 3 THEN EncodeList(members[i][3], value[i])
                  ELSE EncodeBody(members[i][2], value[i])])
DecodeMemberAs(json, member) ==
    LET field == Member(json, member[1])
    IN  CASE field = NoMember -> IF member[1] = "SourceName" THEN Got(<<>>) ELSE Bad
          [] field # NoMember /\ Len(member) = 3 ->
                IF field[1] = "array" THEN DecodeList(member[3], field[2]) ELSE Bad
          [] OTHER -> DecodeBodyAs(member[2], field)
DecodeMembers(members, json) ==
    IF json[1] # "object" THEN Bad
    ELSE DecodeEach([i \in DOMAIN members |-> DecodeMemberAs(json, members[i])])
=============================================================================
