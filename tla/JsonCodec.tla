------------------------------ MODULE JsonCodec ------------------------------
(***************************************************************************)
(* The JSON encoding of the built-in types (opcua/ua/ua_json_builtins.cpp) *)
(* and of the structures tools/gen_ua_types.py generates codecs for, with  *)
(* the transcoding of structure bodies in                                  *)
(* opcua/transport/websocket/json_codec.cpp.                               *)
(*                                                                         *)
(* A JSON value is <<"null">>, <<"bool", b>>, <<"number", n>>,             *)
(* <<"text", s>>, <<"array", items>> or <<"object", members>> with members *)
(* a function from names.  What a text says is kept as a tuple of tokens.  *)
(* Values and types are those of BinaryCodec.                              *)
(***************************************************************************)
EXTENDS BinaryCodec, DateTime, TLC

CONSTANT NaN    \* a Float or a Double that is not a number, and equal to none

ASSUME NaNAssumption == NaN \notin Int

JsonNull == <<"null">>
Number(n) == <<"number", n>>
Text(s) == <<"text", s>>
Object(members) == <<"object", members>>
\* What an encoder that throws leaves, and a member that is left out.
Throws == <<"throws">>
NoMember == <<"absent">>

\* The object of the members that are there.
ObjectOf(members) ==
    Object([name \in {n \in DOMAIN members : members[n] # NoMember} |-> members[name]])
Member(json, name) ==
    IF json[1] = "object" /\ name \in DOMAIN json[2] THEN json[2][name] ELSE NoMember

\* Whether encoding `json` ran to its end.
RECURSIVE IsWhole(_)
IsWhole(json) ==
    CASE json[1] = "throws" -> FALSE
      [] json[1] = "array" -> \A i \in DOMAIN json[2] : IsWhole(json[2][i])
      [] json[1] = "object" -> \A n \in DOMAIN json[2] : IsWhole(json[2][n])
      [] OTHER -> TRUE

\* A decoded value, or an exception.
Bad == Failed
Got(value) == Decoded(value, <<>>)

\* RequireObject, RequireArray, RequireString and the ones for numbers: what a
\* JSON value of the kind holds.
Require(kind, json) == IF json[1] = kind THEN Got(json[2]) ELSE Bad

(***************************************************************************)
(* Numbers and texts.                                                      *)
(***************************************************************************)
\* The ranges NarrowSigned and NarrowUnsigned check; wider types have none
\* within TLC's integers.
Limits == [SByte |-> <<-2^7, 2^7 - 1>>, Byte |-> <<0, 2^8 - 1>>,
          Int16 |-> <<-2^15, 2^15 - 1>>, UInt16 |-> <<0, 2^16 - 1>>]

\* The null DateTime has a text of its own.
EncodeJsonDateTime(ticks) == Text(<<"date", IF ticks = 0 THEN NullText ELSE UTCExplode(ticks)>>)

\* What is not a number is written as null.
EncodeJsonDouble(n) == IF n = NaN THEN JsonNull ELSE Number(n)

EncodeJsonNumber(name, n) ==
    CASE name = "Boolean" -> <<"bool", n>>
      [] name \in {"Int64", "UInt64"} -> Text(<<"digits", n>>)
      [] name = "DateTime" -> EncodeJsonDateTime(n)
      [] name \in {"Float", "Double"} -> EncodeJsonDouble(n)
      [] OTHER -> Number(n)

\* JSON null is the null DateTime too.
DecodeJsonDateTime(json) ==
    CASE json[1] = "null" -> Got(0)
      [] json[1] = "text" /\ json[2][2] = NullText -> Got(0)
      [] json[1] = "text" /\ json[2][2] # NullText ->
            LET time == FromUTCString(json[2][2]) IN IF time = NoTime THEN Bad ELSE Got(time[1])
      [] json[1] \notin {"null", "text"} -> Bad

\* 64-bit numbers are also taken as plain numbers.
DecodeJsonNumber(name, json) ==
    CASE name = "Boolean" -> Require("bool", json)
      [] name \in {"Int64", "UInt64"} ->
            IF json[1] = "text" THEN Got(json[2][2]) ELSE Require("number", json)
      [] name = "DateTime" -> DecodeJsonDateTime(json)
      [] OTHER ->
            LET n == Require("number", json)
            IN  IF n.ok /\ name \in DOMAIN Limits
                     /\ (n.value < Limits[name][1] \/ n.value > Limits[name][2])
                THEN Bad ELSE n

\* JSON null is the empty string.
DecodeJsonText(json) ==
    IF json[1] = "null" THEN Got(<<>>) ELSE Require("text", json)

\* Bytes travel as base64.
EncodeBase64(bytes) == Text(<<"base64", bytes>>)
DecodeBase64(json) ==
    IF json[1] = "null" THEN Got(<<>>)
    ELSE IF json[1] = "text" /\ json[2][1] = "base64" THEN Got(json[2][2]) ELSE Bad

\* A Guid travels as its 36 characters; no other text is one.
GuidText(guid) == <<"guid", guid>>
GuidFromText(text) ==
    IF Len(text) = 2 /\ text[1] = "guid" THEN Got(text[2]) ELSE Bad
DecodeJsonGuid(json) ==
    LET text == Require("text", json) IN IF text.ok THEN GuidFromText(text.value) ELSE Bad

(***************************************************************************)
(* Identifiers: the text form "svr=<n>;nsu=<uri>;ns=<n>;<letter>=<id>",    *)
(* in which the prefixes with neutral values are left out.  A text is its  *)
(* parts between semicolons, each with the name before its "=".  A uri is  *)
(* its parts too: one that holds a semicolon has several.                  *)
(***************************************************************************)
Letters == [numeric |-> "i", string |-> "s", guid |-> "g", opaque |-> "b"]
NodeIdText(node) ==
    (IF node[2] # 0 THEN << <<"ns", node[2]>> >> ELSE <<>>)
    \o << <<Letters[node[1]], node[3]>> >>
UriText(uri) == [i \in DOMAIN uri |-> IF i = 1 THEN <<"nsu", <<uri[1]>> >> ELSE <<uri[i], "">>]
ExpandedNodeIdText(value) ==
    (IF value[3] # 0 THEN << <<"svr", value[3]>> >> ELSE <<>>)
    \o UriText(value[2]) \o NodeIdText(value[1])

\* A text without a known letter is a string, and so is all that follows "s=".
\* Any other identifier that goes on after a semicolon is malformed.
NodeIdFromText(text) ==
    LET spaced == text[1][1] = "ns"
        id == IF spaced THEN Tail(text) ELSE text
        namespace == IF spaced THEN text[1][2] ELSE 0
        kinds == {k \in DOMAIN Letters : Letters[k] = id[1][1]}
    IN  CASE Len(id) = 1 /\ kinds # {} -> Got(<<CHOOSE k \in kinds : TRUE, namespace, id[1][2]>>)
          [] kinds \subseteq {"string"} /\ ~(Len(id) = 1 /\ kinds # {}) -> Got(<<"string", namespace, id>>)
          [] OTHER -> Bad

DecodeJsonNodeId(json) ==
    LET text == Require("text", json) IN IF text.ok THEN NodeIdFromText(text.value) ELSE Bad

\* The prefixes are taken off up to the next semicolon, in any order.
DecodeExpandedText(text) ==
    LET named(name) == {i \in DOMAIN text : text[i][1] = name}
        prefixes == CHOOSE n \in 0..(Len(text) - 1) :
                        /\ \A i \in 1..n : text[i][1] \in {"svr", "nsu"}
                        /\ text[n + 1][1] \notin {"svr", "nsu"}
        prefix(name, default) ==
            LET at == named(name) \cap 1..prefixes
            IN  IF at = {} THEN default ELSE text[CHOOSE i \in at : \A j \in at : j <= i][2]
        node == NodeIdFromText(SubSeq(text, prefixes + 1, Len(text)))
    IN  Mapped(node, <<node.value, prefix("nsu", <<>>), prefix("svr", 0)>>)
DecodeJsonExpandedNodeId(json) ==
    LET text == Require("text", json) IN IF text.ok THEN DecodeExpandedText(text.value) ELSE Bad

(***************************************************************************)
(* QualifiedName: "<ns>:<name>", the index left out when zero.  A name of  *)
(* namespace zero that starts with a number and a colon is read as having  *)
(* that index.                                                             *)
(***************************************************************************)
MaxNumeral == 9
Numerals == [s \in {ToString(n) : n \in 0..MaxNumeral} |->
                CHOOSE n \in 0..MaxNumeral : ToString(n) = s]
EncodeJsonQualifiedName(value) ==
    Text(IF value[1] = 0 THEN value[2]
         ELSE <<ToString(value[1])>> \o (IF value[2] = <<>> THEN <<"">> ELSE value[2]))

QualifiedNameIn(text) ==
    IF Len(text) >= 2 /\ text[1] \in DOMAIN Numerals
    THEN <<Numerals[text[1]], IF Tail(text) = <<"">> THEN <<>> ELSE Tail(text)>>
    ELSE <<0, text>>
\* The object of earlier releases, with a member for the index, is taken too.
QualifiedNameOf(name, uri) ==
    IF name[1] # "text" THEN Bad
    ELSE IF uri = NoMember THEN Got(<<0, name[2]>>)
    ELSE IF uri[1] = "number" /\ uri[2] >= 0 THEN Got(<<uri[2] % 2^16, name[2]>>) ELSE Bad
DecodeJsonQualifiedName(json) ==
    LET text == DecodeJsonText(json)
    IN  IF json[1] = "object" THEN QualifiedNameOf(Member(json, "Name"), Member(json, "Uri"))
        ELSE Mapped(text, QualifiedNameIn(text.value))

(***************************************************************************)
(* The types that contain others.                                          *)
(***************************************************************************)
RECURSIVE EncodeJson(_, _), DecodeJson(_, _)

\* A member that is decoded when it is there.
DecodeMember(json, name, type, default) ==
    IF Member(json, name) = NoMember THEN Got(default) ELSE DecodeJson(type, Member(json, name))
\* One after another, into a tuple.
DecodeEach(results) ==
    IF \A i \in DOMAIN results : results[i].ok
    THEN Got([i \in DOMAIN results |-> results[i].value]) ELSE Bad

EncodeJsonArray(type, values) ==
    <<"array", [i \in DOMAIN values |-> EncodeJson(type, values[i])]>>
DecodeJsonItems(type, items) == DecodeEach([i \in DOMAIN items |-> DecodeJson(type, items[i])])

\* Good is an empty object, and a bare number is taken too.
EncodeJsonStatus(value) ==
    ObjectOf([Code |-> IF value = <<0, 0>> THEN NoMember ELSE Number(value),
              Symbol |-> IF value = <<0, 0>> THEN NoMember ELSE Text(<<"symbol", value[1]>>)])
DecodeJsonStatus(json) ==
    CASE json[1] = "number" -> Got(json[2])
      [] json[1] = "object" ->
            Got(IF Member(json, "Code") = NoMember THEN <<0, 0>> ELSE Member(json, "Code")[2])
      [] OTHER -> Bad

EncodeJsonLocalizedText(value) ==
    ObjectOf([Locale |-> IF value[1] = <<>> THEN NoMember ELSE Text(value[1]),
              Text |-> IF value[2] = <<>> THEN NoMember ELSE Text(value[2])])
DecodeJsonLocalizedText(json) ==
    CASE json[1] = "null" -> Got(<< <<>>, <<>> >>)
      [] json[1] = "object" -> DecodeEach(<<DecodeMember(json, "Locale", <<"String">>, <<>>),
                                            DecodeMember(json, "Text", <<"String">>, <<>>)>>)
      [] OTHER -> Bad

\* UaEncoding 1 marks a body in the Binary encoding; a JSON body is inlined.
EncodeJsonExtensionObject(value) ==
    LET body == value[2]
    IN  ObjectOf([UaTypeId |-> Text(ExpandedNodeIdText(value[1])),
                  UaEncoding |-> IF body[1] = "binary" THEN Number(1) ELSE NoMember,
                  UaBody |-> CASE body[1] = "binary" -> EncodeBase64(body[2])
                               [] body[1] = "json" -> body[2]
                               [] body[1] = "none" -> NoMember])
DecodeJsonExtensionObject(json) ==
    LET typeId == DecodeJsonExpandedNodeId(Member(json, "UaTypeId"))
        body == Member(json, "UaBody")
        bytes == DecodeBase64(body)
    IN  CASE ~typeId.ok -> Bad
          [] typeId.ok /\ body = NoMember -> Got(<<typeId.value, <<"none">> >>)
          [] typeId.ok /\ body # NoMember /\ Member(json, "UaEncoding") = Number(1) ->
                Mapped(bytes, <<typeId.value, <<"binary", bytes.value>> >>)
          [] OTHER -> Got(<<typeId.value, <<"json", body>> >>)

\* A list of the types that nest through a pointer has no JSON form: the
\* scalar alternative is read, and throws.  A list of nulls loses its length.
NestedTypes == {"DataValue", "Variant"}
EncodeVariantPayload(value) ==
    CASE IsNullVariant(value) -> JsonNull
      [] value[2] = "scalar" /\ ~IsNullVariant(value) -> EncodeJson(<<value[1]>>, value[3])
      [] value[2] = "array" /\ ~IsNullVariant(value) ->
            IF value[1] \in NestedTypes THEN Throws ELSE EncodeJsonArray(<<value[1]>>, value[3])
DecodeVariantPayload(id, json) ==
    CASE id = 0 \/ json[1] = "null" -> Got(NullVariant)
      [] id # 0 /\ json[1] = "array" /\ BuiltInTypes[id] \notin NestedTypes ->
            DecodePayload(id, "array", DecodeJsonItems(<<BuiltInTypes[id]>>, json[2]))
      [] OTHER -> DecodePayload(id, "scalar", DecodeJson(<<BuiltInTypes[id]>>, json))

EncodeJsonVariant(value) ==
    IF value = NullVariant THEN JsonNull
    ELSE Object([UaType |-> Number(TypeId(value[1])), Value |-> EncodeVariantPayload(value)])
\* `UaType` and `Value` of a Variant, or of the DataValue it is inlined in.
DecodeInlineVariant(json) ==
    LET id == Member(json, "UaType")  payload == Member(json, "Value")
    IN  IF id = NoMember THEN Got(NullVariant)
        ELSE IF id[1] # "number" \/ id[2] > Len(BuiltInTypes) THEN Bad
        ELSE IF payload = NoMember THEN Got(NullVariant)
        ELSE DecodeVariantPayload(id[2], payload)
DecodeJsonVariant(json) ==
    CASE json[1] = "null" -> Got(NullVariant)
      [] json[1] = "object" -> DecodeInlineVariant(json)
      [] OTHER -> Bad

EncodeJsonDataValue(value) ==
    LET variant == value[1]
        absent == IsNullVariant(variant)
    IN  ObjectOf([UaType |-> IF absent THEN NoMember ELSE Number(TypeId(variant[1])),
                  Value |-> IF absent THEN NoMember ELSE EncodeVariantPayload(variant),
                  StatusCode |-> IF IsGood(value[2]) THEN NoMember
                                 ELSE EncodeJsonStatus(<<value[2], 0>>),
                  SourceTimestamp |-> IF value[3] = 0 THEN NoMember
                                      ELSE EncodeJsonNumber("DateTime", value[3]),
                  ServerTimestamp |-> IF value[4] = 0 THEN NoMember
                                      ELSE EncodeJsonNumber("DateTime", value[4])])
DataValueFrom(members) ==
    Mapped(members, <<members.value[1], members.value[2][1], members.value[3],
                      members.value[4], 0>>)
DecodeJsonDataValue(json) ==
    IF json[1] # "object" THEN Bad
    ELSE DataValueFrom(DecodeEach(
            <<DecodeInlineVariant(json),
              DecodeMember(json, "StatusCode", <<"StatusCode">>, <<0, 0>>),
              DecodeMember(json, "SourceTimestamp", <<"DateTime">>, 0),
              DecodeMember(json, "ServerTimestamp", <<"DateTime">>, 0)>>))

DiagnosticInfoNames == <<"SymbolicId", "NamespaceUri", "Locale", "LocalizedText",
                         "AdditionalInfo", "InnerStatusCode", "InnerDiagnosticInfo">>
EncodeJsonDiagnosticInfo(value) ==
    LET present == {i \in DOMAIN value : value[i] # <<>>}
    IN  Object([name \in {DiagnosticInfoNames[i] : i \in present} |->
                  LET i == CHOOSE k \in present : DiagnosticInfoNames[k] = name
                  IN  EncodeJson(DiagnosticInfoTypes[i], value[i][1])])
Present(part) == Mapped(part, <<part.value>>)
DecodeJsonDiagnosticInfo(json) ==
    IF json[1] # "object" THEN Bad
    ELSE DecodeEach([i \in DOMAIN DiagnosticInfoNames |->
           IF Member(json, DiagnosticInfoNames[i]) = NoMember THEN Got(<<>>)
           ELSE Present(DecodeJson(DiagnosticInfoTypes[i], Member(json, DiagnosticInfoNames[i])))])

(***************************************************************************)
(* Structures: fields that hold their default are left out, nested         *)
(* structures never are.                                                   *)
(***************************************************************************)
NullNodeId == <<"numeric", 0, 0>>
RECURSIVE Default(_)
Default(type) ==
    CASE type[1] = "struct" -> [i \in DOMAIN type[2] |-> Default(type[2][i][2])]
      [] type[1] \in {"array", "String", "ByteString", "XmlElement"} -> <<>>
      [] type[1] = "Boolean" -> FALSE
      [] type[1] = "StatusCode" -> <<0, 0>>
      [] type[1] \in (DOMAIN Units \cup {"Guid"}) \ {"Boolean", "StatusCode"} -> 0
      [] type[1] = "NodeId" -> NullNodeId
      [] type[1] = "ExpandedNodeId" -> <<NullNodeId, <<>>, 0>>
      [] type[1] = "QualifiedName" -> <<0, <<>> >>
      [] type[1] = "LocalizedText" -> << <<>>, <<>> >>
      [] type[1] = "ExtensionObject" -> << <<NullNodeId, <<>>, 0>>, <<"none">> >>
      [] type[1] = "Variant" -> NullVariant
      [] type[1] = "DataValue" -> <<NullVariant, 0, 0, 0, 0>>
      [] type[1] = "DiagnosticInfo" -> [i \in DOMAIN DiagnosticInfoTypes |-> <<>>]

IsDefault(type, value) ==
    CASE type[1] = "DataValue" ->
            IsNullVariant(value[1]) /\ value[5] = 0 /\ IsGood(value[2])
            /\ value[3] = 0 /\ value[4] = 0
      [] type[1] = "ExtensionObject" -> value[1][1] = NullNodeId /\ value[2] = <<"none">>
      [] OTHER -> value = Default(type)

EncodeJsonStruct(fields, value) ==
    LET sent == {i \in DOMAIN fields :
                    fields[i][2][1] = "struct" \/ ~IsDefault(fields[i][2], value[i])}
    IN  Object([name \in {fields[i][1] : i \in sent} |->
                  LET i == CHOOSE k \in sent : fields[k][1] = name
                  IN  EncodeJson(fields[i][2], value[i])])
DecodeJsonStruct(fields, json) ==
    IF fields # <<>> /\ json[1] # "object" THEN Bad
    ELSE DecodeEach([i \in DOMAIN fields |->
                DecodeMember(json, fields[i][1], fields[i][2], Default(fields[i][2]))])

EncodeJson(type, value) ==
    CASE type[1] = "array" -> EncodeJsonArray(type[2], value)
      [] type[1] = "struct" -> EncodeJsonStruct(type[2], value)
      [] type[1] = "StatusCode" -> EncodeJsonStatus(value)
      [] type[1] \in DOMAIN Units \ {"StatusCode"} -> EncodeJsonNumber(type[1], value)
      [] type[1] \in {"String", "XmlElement"} -> Text(value)
      [] type[1] = "ByteString" -> EncodeBase64(value)
      [] type[1] = "Guid" -> Text(GuidText(value))
      [] type[1] = "QualifiedName" -> EncodeJsonQualifiedName(value)
      [] type[1] = "LocalizedText" -> EncodeJsonLocalizedText(value)
      [] type[1] = "NodeId" -> Text(NodeIdText(value))
      [] type[1] = "ExpandedNodeId" -> Text(ExpandedNodeIdText(value))
      [] type[1] = "DiagnosticInfo" -> EncodeJsonDiagnosticInfo(value)
      [] type[1] = "ExtensionObject" -> EncodeJsonExtensionObject(value)
      [] type[1] = "Variant" -> EncodeJsonVariant(value)
      [] type[1] = "DataValue" -> EncodeJsonDataValue(value)

\* A null array is the empty one.
DecodeJson(type, json) ==
    CASE type[1] = "array" ->
            LET items == Require("array", json)
            IN  IF json[1] = "null" THEN Got(<<>>)
                ELSE IF items.ok THEN DecodeJsonItems(type[2], items.value) ELSE Bad
      [] type[1] = "struct" -> DecodeJsonStruct(type[2], json)
      [] type[1] = "StatusCode" -> DecodeJsonStatus(json)
      [] type[1] \in DOMAIN Units \ {"StatusCode"} -> DecodeJsonNumber(type[1], json)
      [] type[1] \in {"String", "XmlElement"} -> DecodeJsonText(json)
      [] type[1] = "ByteString" -> DecodeBase64(json)
      [] type[1] = "Guid" -> DecodeJsonGuid(json)
      [] type[1] = "QualifiedName" -> DecodeJsonQualifiedName(json)
      [] type[1] = "LocalizedText" -> DecodeJsonLocalizedText(json)
      [] type[1] = "NodeId" -> DecodeJsonNodeId(json)
      [] type[1] = "ExpandedNodeId" -> DecodeJsonExpandedNodeId(json)
      [] type[1] = "DiagnosticInfo" -> DecodeJsonDiagnosticInfo(json)
      [] type[1] = "ExtensionObject" -> DecodeJsonExtensionObject(json)
      [] type[1] = "Variant" -> DecodeJsonVariant(json)
      [] type[1] = "DataValue" -> DecodeJsonDataValue(json)

(***************************************************************************)
(* Structures inside ExtensionObjects: their bodies are built in the       *)
(* Binary encoding (ToExtensionObject) and, where the transport knows the  *)
(* structure, turned into JSON on the way out.  `known` maps the number of *)
(* a Binary encoding to <<number of the JSON encoding, structure>>.        *)
(***************************************************************************)
ToExtensionObject(id, type, value) ==
    << <<<<"numeric", 0, id>>, <<>>, 0>>, <<"binary", Encode(type, value)>> >>
FromExtensionObject(id, type, object) ==
    IF object[1][1] # <<"numeric", 0, id>> \/ object[2][1] # "binary" THEN Failed
    ELSE DecodeWhole(type, object[2][2])
ToJsonExtensionObject(id, type, value) ==
    << <<<<"numeric", 0, id>>, <<>>, 0>>, <<"json", EncodeJson(type, value)>> >>
\* Either encoding's number names the structure; the body must be JSON.
FromJsonExtensionObject(jsonId, binaryId, type, object) ==
    IF object[1][1] \notin {<<"numeric", 0, jsonId>>, <<"numeric", 0, binaryId>>}
       \/ object[2][1] # "json" THEN Bad
    ELSE DecodeJson(type, object[2][2])

AsJson(known, id, body) ==
    ToJsonExtensionObject(known[id][1], known[id][2], body.value)
TranscodeBodyToJson(known, object) ==
    LET bodies == [id \in DOMAIN known |-> FromExtensionObject(id, known[id][2], object)]
        found == {id \in DOMAIN known : bodies[id].ok}
    IN  IF found = {} THEN object
        ELSE LET id == CHOOSE i \in found : TRUE IN AsJson(known, id, bodies[id])
\* A Variant of structures, as a Read response carries it.
WithJsonBodies(known, variant) ==
    IF variant[1] # "ExtensionObject" THEN variant
    ELSE IF variant[2] = "scalar"
    THEN <<variant[1], variant[2], TranscodeBodyToJson(known, variant[3])>>
    ELSE <<variant[1], variant[2],
           [i \in DOMAIN variant[3] |-> TranscodeBodyToJson(known, variant[3][i])]>>
=============================================================================
