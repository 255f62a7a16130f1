----------------------------- MODULE BinaryCodec -----------------------------
(***************************************************************************)
(* The Binary encoding of the built-in types                               *)
(* (opcua/transport/binary/codec_utils.cpp) and of the structures that     *)
(* tools/gen_ua_types.py generates codecs for.                             *)
(*                                                                         *)
(* Bytes are grouped into the units the Encoder writes and the Decoder     *)
(* checks the buffer for: <<"u8", n>>, <<"u16", n>>, <<"u32", n>>,         *)
(* <<"i64", n>>, <<"f32", n>>, <<"f64", n>>, a mask byte <<"mask", bits>>  *)
(* and the content of a string, <<"bytes", s>>.  A decoder finds its unit  *)
(* at the front or fails, so a cut inside a unit is a cut before it.       *)
(*                                                                         *)
(* A type is a tuple: <<name>> for a built-in type, <<"array", type>>, and *)
(* <<"struct", fields>> with fields a sequence of <<name, type>>.  A       *)
(* string is a sequence of segments (what colons separate), a Variant      *)
(* <<type name, "scalar" or "array", payload>>, an ExtensionObject         *)
(* <<type id, body>> with body <<"none">>, <<"binary", bytes>> or          *)
(* <<"json", tree>>; other values are tuples of their parts, in which an   *)
(* optional part is a sequence of at most one element.                     *)
(***************************************************************************)
EXTENDS Integers, Sequences, SequencesExt

Failed == [ok |-> FALSE, value |-> <<>>, rest |-> <<>>]
Decoded(value, rest) == [ok |-> TRUE, value |-> value, rest |-> rest]
\* `Decode(...) && ...`: `value`, made of what was decoded, unless that failed.
Mapped(result, value) == IF result.ok THEN Decoded(value, result.rest) ELSE Failed

\* A value the encoder has no form for: nothing is sent.
Unencodable == << <<"unencodable", 0>> >>
IsEncodable(bytes) == \A i \in DOMAIN bytes : bytes[i][1] # "unencodable"

Put(unit, value) == << <<unit, value>> >>
Take(unit, bytes) ==
    IF bytes # <<>> /\ Head(bytes)[1] = unit
    THEN Decoded(Head(bytes)[2], Tail(bytes)) ELSE Failed

(***************************************************************************)
(* Numbers and strings.                                                    *)
(***************************************************************************)
Units == [Boolean |-> "u8", Byte |-> "u8", SByte |-> "u8", Int16 |-> "u16",
          UInt16 |-> "u16", Int32 |-> "u32", UInt32 |-> "u32", Int64 |-> "i64",
          UInt64 |-> "i64", DateTime |-> "i64", Float |-> "f32",
          Double |-> "f64", StatusCode |-> "u32"]

\* A signed number travels as the unsigned one of its width.
Modulus == [SByte |-> 2^8, Int16 |-> 2^16]
AsUnsigned(name, n) == n % Modulus[name]
AsSigned(name, raw) ==
    IF raw >= Modulus[name] \div 2 THEN raw - Modulus[name] ELSE raw

EncodeNumber(name, n) ==
    Put(Units[name], CASE name = "Boolean" -> IF n THEN 1 ELSE 0
                       [] name \in DOMAIN Modulus -> AsUnsigned(name, n)
                       [] OTHER -> n)
DecodeNumber(name, bytes) ==
    LET raw == Take(Units[name], bytes)
    IN  Mapped(raw, CASE name = "Boolean" -> raw.value # 0
                      [] name \in DOMAIN Modulus -> AsSigned(name, raw.value)
                      [] OTHER -> raw.value)

\* A length and that many bytes; the content is one unit, of length 1.
EncodeString(s) ==
    IF s = <<>> THEN Put("u32", 0) ELSE Put("u32", 1) \o Put("bytes", s)

\* A negative length is the null string, which is not told from the empty one.
DecodeString(bytes) ==
    LET length == Take("u32", bytes)
    IN  IF length.ok /\ length.value > 0 THEN Take("bytes", length.rest)
        ELSE Mapped(length, <<>>)

\* Of bytes there is a null too, read as no bytes.
DecodeByteString(bytes) ==
    LET length == Take("u32", bytes)
    IN  IF length.ok /\ length.value > 0 THEN Take("bytes", length.rest)
        ELSE Mapped(length, <<>>)

(***************************************************************************)
(* The types below contain one another.                                    *)
(***************************************************************************)
RECURSIVE Encode(_, _), Decode(_, _)

\* One value after another, as in `Decode(a) && Decode(b)`.
EncodeAll(types, values) ==
    FlattenSeq([i \in DOMAIN types |-> Encode(types[i], values[i])])
\* `next` read after the values of `result`.
Joined(result, next) == IF result.ok THEN Mapped(next, Append(result.value, next.value)) ELSE Failed
DecodeNext(result, type) == Joined(result, Decode(type, result.rest))
DecodeAll(types, bytes) == FoldLeft(DecodeNext, Decoded(<<>>, bytes), types)

\* Defect: a count that exceeds the buffer is taken for an empty array.
DecodeArrayOrNone(type, bytes) ==
    LET count == Take("u32", bytes)
    IN  IF ~count.ok THEN Failed
        ELSE IF count.value < 0 \/ count.value > Len(count.rest) THEN Mapped(count, <<>>)
        ELSE DecodeAll([i \in 1..count.value |-> type], count.rest)

\* AppendArray and ReadArray: an element count and the elements.  (The elements
\* take a unit each at least, as they take a byte.)
EncodeArray(type, values) ==
    Put("u32", Len(values))
    \o FlattenSeq([i \in DOMAIN values |-> Encode(type, values[i])])
DecodeArray(type, bytes) ==
    LET count == Take("u32", bytes)
    IN  IF ~count.ok \/ count.value < 0 \/ count.value > Len(count.rest) THEN Failed
        ELSE DecodeAll([i \in 1..count.value |-> type], count.rest)

\* A field of a generated structure: its null array is the empty one.
DecodeFieldArray(type, bytes) ==
    LET count == Take("u32", bytes)
    IN  IF count.ok /\ count.value <= 0 THEN Mapped(count, <<>>) ELSE DecodeArray(type, bytes)

\* Optional parts: a mask byte and the parts it names, in the order of
\* `parts`, a sequence of <<bit, type>>.
MaskOf(parts, values) ==
    {parts[i][1] : i \in {j \in DOMAIN parts : values[j] # <<>>}}
EncodePresent(parts, values) ==
    Put("mask", MaskOf(parts, values))
    \o FlattenSeq([i \in DOMAIN parts |->
            IF values[i] = <<>> THEN <<>> ELSE Encode(parts[i][2], values[i][1])])
\* The next of the parts, <<>> when the mask does not name it.
DecodePart(mask, result, part) ==
    IF part[1] \in mask
    THEN LET next == Decode(part[2], result.rest) IN Joined(result, Mapped(next, <<next.value>>))
    ELSE Joined(result, Decoded(<<>>, result.rest))
DecodePresent(parts, mask, bytes) ==
    FoldLeft(LAMBDA result, part : DecodePart(mask, result, part), Decoded(<<>>, bytes), parts)

\* A part that is sent only when it differs from its neutral value.
Unless(neutral, value) == IF value = neutral THEN <<>> ELSE <<value>>
OrElse(neutral, part) == IF part = <<>> THEN neutral ELSE part[1]

(***************************************************************************)
(* Identifiers.  A NodeId is <<kind, namespace index, identifier>>, an     *)
(* ExpandedNodeId <<NodeId, namespace uri, server index>>.                 *)
(***************************************************************************)
KindOfForm == <<"numeric", "numeric", "string", "guid", "opaque">>
FormOfKind == [string |-> 3, guid |-> 4, opaque |-> 5]
PartsOfForm == << << <<"Byte">>, <<"UInt16">> >>, << <<"UInt16">>, <<"UInt32">> >>,
                  << <<"UInt16">>, <<"String">> >>, << <<"UInt16">>, <<"Guid">> >>,
                  << <<"UInt16">>, <<"ByteString">> >> >>

\* The shortest of the three numeric forms that holds the identifier.
NumericForm(namespace, id) ==
    IF namespace = 0 /\ id <= 255 THEN 0
    ELSE IF namespace <= 255 /\ id <= 65535 THEN 1 ELSE 2

FormOf(node) ==
    IF node[1] = "numeric" THEN NumericForm(node[2], node[3]) ELSE FormOfKind[node[1]]

\* What follows encoding byte `form`; the casts narrow to the width.
EncodeIdentifier(form, node) ==
    CASE form = 0 -> Put("u8", node[3] % 2^8)
      [] form = 1 -> Put("u8", node[2] % 2^8) \o Put("u16", node[3] % 2^16)
      [] OTHER -> EncodeAll(PartsOfForm[form], <<node[2], node[3]>>)
DecodeIdentifier(form, bytes) ==
    LET parts == DecodeAll(PartsOfForm[form], bytes)
        id == Take("u8", bytes)
    IN  CASE form = 0 -> Mapped(id, <<"numeric", 0, id.value>>)
          [] form \in 1..5 -> Mapped(parts, <<KindOfForm[form], parts.value[1], parts.value[2]>>)
          [] OTHER -> Failed

EncodeNodeId(node) ==
    Put("u8", FormOf(node)) \o EncodeIdentifier(FormOf(node), node)
DecodeNodeId(bytes) ==
    LET form == Take("u8", bytes)
    IN  IF form.ok THEN DecodeIdentifier(form.value, form.rest) ELSE Failed

\* The two high bits of the encoding byte say what follows the identifier.  A
\* Guid identifier falls through to the opaque form, whose identifier it has
\* not got, and is refused by the decoder.
UriFlag == 128
ServerFlag == 64
EncodeExpandedNodeId(value) ==
    LET node == value[1]  uri == value[2]  server == value[3]
    IN  IF node[1] = "guid" THEN Unencodable
        ELSE Put("u8", FormOf(node) + (IF uri # <<>> THEN UriFlag ELSE 0)
                                    + (IF server # 0 THEN ServerFlag ELSE 0))
             \o EncodeIdentifier(FormOf(node), node)
             \o (IF uri # <<>> THEN EncodeString(uri) ELSE <<>>)
             \o (IF server # 0 THEN Put("u32", server) ELSE <<>>)
ExpansionParts == << <<"uri", <<"String">> >>, <<"server", <<"UInt32">> >> >>
DecodeExpansion(node, mask) ==
    LET parts == DecodePresent(ExpansionParts, mask, node.rest)
    IN  IF ~node.ok THEN Failed
        ELSE Mapped(parts, <<node.value, OrElse(<<>>, parts.value[1]), OrElse(0, parts.value[2])>>)
DecodeExpandedNodeId(bytes) ==
    LET byte == Take("u8", bytes)
        mask == (IF byte.value >= UriFlag THEN {"uri"} ELSE {})
                \cup (IF (byte.value \div ServerFlag) % 2 = 1 THEN {"server"} ELSE {})
    IN  IF ~byte.ok \/ byte.value % ServerFlag = 4 THEN Failed
        ELSE DecodeExpansion(DecodeIdentifier(byte.value % ServerFlag, byte.rest), mask)

(***************************************************************************)
(* Text and diagnostics.                                                   *)
(***************************************************************************)
\* <<locale, text>>, each sent when it is not empty.
LocalizedTextParts == << <<1, <<"String">> >>, <<2, <<"String">> >> >>
EncodeLocalizedText(value) ==
    EncodePresent(LocalizedTextParts, <<Unless(<<>>, value[1]), Unless(<<>>, value[2])>>)
DecodeLocalizedText(bytes) ==
    LET mask == Take("mask", bytes)
        parts == DecodePresent(LocalizedTextParts, mask.value, mask.rest)
    IN  IF ~mask.ok THEN Failed
        ELSE Mapped(parts, <<OrElse(<<>>, parts.value[1]), OrElse(<<>>, parts.value[2])>>)

\* <<symbolic id, namespace uri, locale, localized text, additional info,
\* inner status, inner diagnostic info>>, all optional.
DiagnosticInfoTypes ==
    << <<"Int32">>, <<"Int32">>, <<"Int32">>, <<"Int32">>, <<"String">>,
       <<"StatusCode">>, <<"DiagnosticInfo">> >>
\* LocalizedText owns bit 2 and Locale bit 3, but Locale is written first.
DiagnosticInfoBits == <<0, 1, 3, 2, 4, 5, 6>>
DiagnosticInfoParts ==
    [i \in DOMAIN DiagnosticInfoTypes |-> <<DiagnosticInfoBits[i], DiagnosticInfoTypes[i]>>]

EncodeDiagnosticInfo(value) == EncodePresent(DiagnosticInfoParts, value)

\* Defect: the decoder takes the payload in the order of the mask bits.
DecodeDiagnosticInfoByBit(bytes) ==
    LET byBit == SortSeq(DiagnosticInfoParts, LAMBDA a, b : a[1] < b[1])
        mask == Take("mask", bytes)
        read == DecodePresent(byBit, mask.value, mask.rest)
    IN  IF ~mask.ok THEN Failed
        ELSE Mapped(read, [i \in 1..7 |-> read.value[DiagnosticInfoBits[i] + 1]])

DecodeDiagnosticInfo(bytes) ==
    LET mask == Take("mask", bytes)
    IN  IF mask.ok THEN DecodePresent(DiagnosticInfoParts, mask.value, mask.rest) ELSE Failed

(***************************************************************************)
(* ExtensionObject, Variant and DataValue.                                 *)
(***************************************************************************)
\* Only a body held as bytes can be written; without one the object is sent
\* as having none.
EncodeExtensionObject(value) ==
    EncodeExpandedNodeId(value[1])
    \o (IF value[2][1] = "binary"
        THEN Put("u8", 1) \o EncodeString(value[2][2]) ELSE Put("u8", 0))
\* An object without a body is given an empty one.
DecodeBody(typeId, encoding) ==
    LET body == DecodeString(encoding.rest)
        length == Take("u32", encoding.rest)
    IN  IF ~typeId.ok \/ ~encoding.ok THEN Failed
        ELSE IF encoding.value = 0
        THEN Mapped(encoding, <<typeId.value, <<"binary", <<>> >> >>)
        ELSE IF length.ok /\ length.value < 0 THEN Failed
        ELSE Mapped(body, <<typeId.value, <<"binary", body.value>> >>)
DecodeBodyOf(typeId) == DecodeBody(typeId, Take("u8", typeId.rest))
DecodeExtensionObject(bytes) == DecodeBodyOf(DecodeExpandedNodeId(bytes))

\* Variant::Type: the wire id of each built-in type is its place in this list.
BuiltInTypes ==
    <<"Boolean", "SByte", "Byte", "Int16", "UInt16", "Int32", "UInt32", "Int64",
      "UInt64", "Float", "Double", "String", "DateTime", "Guid", "ByteString",
      "XmlElement", "NodeId", "ExpandedNodeId", "StatusCode", "QualifiedName",
      "LocalizedText", "ExtensionObject", "DataValue", "Variant", "DiagnosticInfo">>
TypeId(name) == IF name = "Null" THEN 0
                ELSE CHOOSE i \in DOMAIN BuiltInTypes : BuiltInTypes[i] = name
\* The constructors: the alternative held is of a type, a scalar or an array.
VariantOf(name, shape, payload) == <<name, shape, payload>>
NullVariant == VariantOf("Null", "scalar", 0)
IsNullVariant(variant) == variant[1] = "Null"
IsScalar(variant) == variant[2] = "scalar"
ArrayFlag == 128
DimensionsFlag == 64
kMaxNullArrayElements == 2^24

\* An array of nulls carries its length only.
EncodeVariant(value) ==
    LET name == value[1]  payload == value[3]
    IN  IF IsScalar(value)
        THEN Put("u8", TypeId(name))
             \o (IF name = "Null" THEN <<>> ELSE Encode(<<name>>, payload))
        ELSE Put("u8", TypeId(name) + ArrayFlag)
             \o (IF name = "Null" THEN Put("u32", payload) ELSE EncodeArray(<<name>>, payload))
DecodeNulls(count) ==
    IF count.ok /\ (count.value < 0 \/ count.value > kMaxNullArrayElements) THEN Failed
    ELSE Mapped(count, VariantOf("Null", "array", count.value))
DecodePayload(id, shape, payload) ==
    Mapped(payload, VariantOf(BuiltInTypes[id], shape, payload.value))
DecodeVariantOf(id, isArray, bytes) ==
    CASE id = 0 /\ isArray -> DecodeNulls(Take("u32", bytes))
      [] id = 0 /\ ~isArray -> Decoded(NullVariant, bytes)
      [] id # 0 /\ isArray -> DecodePayload(id, "array", DecodeArray(<<BuiltInTypes[id]>>, bytes))
      [] id # 0 /\ ~isArray -> DecodePayload(id, "scalar", Decode(<<BuiltInTypes[id]>>, bytes))
\* A matrix is refused, not flattened.
DecodeVariant(bytes) ==
    LET byte == Take("u8", bytes)
        id == byte.value % DimensionsFlag
    IN  IF ~byte.ok \/ (byte.value \div DimensionsFlag) % 2 = 1 \/ id > Len(BuiltInTypes)
        THEN Failed ELSE DecodeVariantOf(id, byte.value >= ArrayFlag, byte.rest)

\* <<value, status code, source timestamp, server timestamp, qualifier>>.  A
\* Status is <<code, limit bits>>, a StatusCode its code, whose severity is in
\* the two high bits.
GetSeverity(code) == code \div 2^14
IsGood(code) == GetSeverity(code) = 0
StatusOf(code) == <<code, 0>>
CodeOfStatus(status) == status[1]
DataValueParts ==
    << <<0, <<"Variant">> >>, <<1, <<"StatusCode">> >>, <<2, <<"DateTime">> >>,
       <<4, <<"UInt16">> >>, <<3, <<"DateTime">> >>, <<5, <<"UInt16">> >> >>
\* Neither picoseconds nor the qualifier are ever sent.
EncodeDataValue(value) ==
    EncodePresent(DataValueParts,
        <<IF IsNullVariant(value[1]) THEN <<>> ELSE <<value[1]>>,
          IF IsGood(value[2]) THEN <<>> ELSE <<StatusOf(value[2])>>,
          Unless(0, value[3]), <<>>, Unless(0, value[4]), <<>> >>)

DataValueOf(read) ==
    Mapped(read, <<OrElse(NullVariant, read.value[1]), CodeOfStatus(OrElse(StatusOf(0), read.value[2])),
                   OrElse(0, read.value[3]), OrElse(0, read.value[5]), 0>>)
\* Picoseconds sent by a peer are read and dropped; unknown bits are refused.
DecodeDataValue(bytes) ==
    LET mask == Take("mask", bytes)
    IN  IF ~mask.ok \/ mask.value \cap {6, 7} # {} THEN Failed
        ELSE DataValueOf(DecodePresent(DataValueParts, mask.value, mask.rest))

(***************************************************************************)
(* The overloads of Encode and Decode.                                     *)
(***************************************************************************)
DecodeGuid(data1) ==
    IF data1.ok THEN Mapped(Take("bytes", data1.rest), data1.value) ELSE Failed
FieldTypes(fields) == [i \in DOMAIN fields |-> fields[i][2]]

Encode(type, value) ==
    CASE type[1] = "array" -> EncodeArray(type[2], value)
      [] type[1] = "struct" -> EncodeAll(FieldTypes(type[2]), value)
      [] type[1] \in DOMAIN Units -> EncodeNumber(type[1], value)
      [] type[1] \in {"String", "ByteString", "XmlElement"} -> EncodeString(value)
      [] type[1] = "Guid" -> Put("u32", value) \o Put("bytes", <<"data2..4">>)
      [] type[1] = "QualifiedName" -> Put("u16", value[1]) \o EncodeString(value[2])
      [] type[1] = "LocalizedText" -> EncodeLocalizedText(value)
      [] type[1] = "NodeId" -> EncodeNodeId(value)
      [] type[1] = "ExpandedNodeId" -> EncodeExpandedNodeId(value)
      [] type[1] = "DiagnosticInfo" -> EncodeDiagnosticInfo(value)
      [] type[1] = "ExtensionObject" -> EncodeExtensionObject(value)
      [] type[1] = "Variant" -> EncodeVariant(value)
      [] type[1] = "DataValue" -> EncodeDataValue(value)

Decode(type, bytes) ==
    CASE type[1] = "array" -> DecodeFieldArray(type[2], bytes)
      [] type[1] = "struct" -> DecodeAll(FieldTypes(type[2]), bytes)
      [] type[1] \in DOMAIN Units -> DecodeNumber(type[1], bytes)
      [] type[1] \in {"String", "XmlElement"} -> DecodeString(bytes)
      [] type[1] = "ByteString" -> DecodeByteString(bytes)
      [] type[1] = "Guid" -> DecodeGuid(Take("u32", bytes))
      [] type[1] = "QualifiedName" -> DecodeAll(<< <<"UInt16">>, <<"String">> >>, bytes)
      [] type[1] = "LocalizedText" -> DecodeLocalizedText(bytes)
      [] type[1] = "NodeId" -> DecodeNodeId(bytes)
      [] type[1] = "ExpandedNodeId" -> DecodeExpandedNodeId(bytes)
      [] type[1] = "DiagnosticInfo" -> DecodeDiagnosticInfo(bytes)
      [] type[1] = "ExtensionObject" -> DecodeExtensionObject(bytes)
      [] type[1] = "Variant" -> DecodeVariant(bytes)
      [] type[1] = "DataValue" -> DecodeDataValue(bytes)

(***************************************************************************)
(* Messages: the id of the structure's encoding and the structure, up to   *)
(* the end of the reassembled chunks.                                      *)
(***************************************************************************)
AppendMessage(typeId, payload) == EncodeNodeId(<<"numeric", 0, typeId>>) \o payload
NumericId(node) ==
    IF node.ok /\ node.value[1] = "numeric" /\ node.value[2] = 0
    THEN Mapped(node, node.value[3]) ELSE Failed
ReadMessage(bytes) == NumericId(DecodeNodeId(bytes))

\* `Decode(decoder, value) && decoder.consumed()`.
Consumed(result) == IF result.rest = <<>> THEN result ELSE Failed
DecodeWhole(type, bytes) == Consumed(Decode(type, bytes))
=============================================================================
