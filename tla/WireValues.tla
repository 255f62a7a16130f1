----------------------------- MODULE WireValues ------------------------------
(***************************************************************************)
(* A value that clients read from a server and write back to it, some over *)
(* the Binary transport and some over the WebSocket one.                   *)
(*                                                                         *)
(* The server holds one DataValue, each client the last one it read or     *)
(* composed, and `wire` the one message under way: a ReadResponse on its   *)
(* way to a client or a WriteRequest on its way to the server.  A Binary   *)
(* message travels in chunks: this stack sends one, a peer of another      *)
(* stack several, and it may abort a message it began.  `sent` is the      *)
(* value that message was made of, kept for the properties.                *)
(***************************************************************************)
EXTENDS ValueTypes

CONSTANTS
    Known,              \* the structures the WebSocket transport transcodes
    BackendValues,      \* what the server's data source may produce
    ComposedValues,     \* ComposedValues[c]: what client c's user may compose
    PeerPicoseconds,    \* what a peer may add to its timestamps
    PeerChunks,         \* into how many chunks a peer may cut a message
    MaxChunkCount,      \* max_chunk_count, kMaxResponseChunks
    MaxMessageSize      \* max_message_size, kMaxResponseBytes

VARIABLES stored, held, wire, sent

vars == <<stored, held, wire, sent>>

Transports == {"binary", "json"}
Nothing == <<>>
Idle == <<"idle">>

ReadResponse ==
    <<"struct", << <<"Results", <<"array", <<"DataValue">> >> >>,
                   <<"DiagnosticInfos", <<"array", <<"DiagnosticInfo">> >> >> >> >>
WriteValue ==
    <<"struct", << <<"NodeId", <<"NodeId">> >>, <<"AttributeId", <<"UInt32">> >>,
                   <<"IndexRange", <<"String">> >>, <<"Value", <<"DataValue">> >> >> >>
WriteRequest == <<"struct", << <<"NodesToWrite", <<"array", WriteValue>> >> >> >>
MessageType == [read |-> ReadResponse, write |-> WriteRequest]
EncodingId == [read |-> 634, write |-> 673]

NodeToWrite == <<"string", 2, <<"Setpoint">> >>
MessageOf(kind, value) ==
    IF kind = "read" THEN << <<value>>, <<>> >>
    ELSE << << <<NodeToWrite, 13, <<>>, value>> >> >>
ValueIn(kind, message) == IF kind = "read" THEN message[1][1] ELSE message[1][1][4]

(***************************************************************************)
(* Crossing a transport.                                                   *)
(***************************************************************************)
\* What leaves the server over JSON has the structures it knows transcoded.
Prepared(transport, kind, value) ==
    IF transport = "json" /\ kind = "read"
    THEN [value EXCEPT ![1] = WithJsonBodies(Known, value[1])] ELSE value

Encoded(transport, kind, message) ==
    IF transport = "binary"
    THEN AppendMessage(EncodingId[kind], Encode(MessageType[kind], message))
    ELSE EncodeJson(MessageType[kind], message)
IsSendable(transport, encoded) ==
    IF transport = "binary" THEN IsEncodable(encoded) ELSE IsWhole(encoded)

\* What follows the id of the message, which must be the expected one.
DecodeBodyAfter(id, kind) ==
    IF id.ok /\ id.value = EncodingId[kind] THEN DecodeWhole(MessageType[kind], id.rest) ELSE Failed
Message(transport, kind, encoded) ==
    IF transport = "json" THEN DecodeJson(MessageType[kind], encoded)
    ELSE DecodeBodyAfter(ReadMessage(encoded), kind)
ValueOf(kind, message) == Mapped(message, ValueIn(kind, message.value))

\* A peer of another stack: it sends the same value with picoseconds.
WithPicoseconds(bytes, extra) ==
    LET maskAt == CHOOSE i \in DOMAIN bytes : bytes[i][1] = "mask"
        mask == bytes[maskAt][2]
        dates == SelectSeq([i \in DOMAIN bytes |-> i],
                           LAMBDA i : i > maskAt /\ bytes[i][1] = "i64")
        parts == SubSeq(bytes, maskAt + 1, Len(bytes))
    IN  IF {2, 3} \subseteq mask /\ Len(dates) = 2
        THEN SubSeq(bytes, 1, maskAt - 1) \o Put("mask", mask \cup {4, 5})
             \o SubSeq(bytes, maskAt + 1, dates[1]) \o Put("u16", extra)
             \o SubSeq(bytes, dates[1] + 1, dates[2]) \o Put("u16", extra)
             \o SubSeq(bytes, dates[2] + 1, Len(bytes))
        ELSE bytes

(***************************************************************************)
(* Chunks: a chunk is its type and its payload.                            *)
(***************************************************************************)
Nowhere == [closed |-> FALSE, partial_message |-> <<>>, partial_chunk_count |-> 0,
            dispatched |-> <<>>]

ResetReassembly(state) ==
    [state EXCEPT !.partial_message = <<>>, !.partial_chunk_count = 0]

\* The server's connection, chunk by chunk.
ProcessSecureMessageChunk(state, chunk) ==
    LET message == state.partial_message \o chunk[2]
        refused == \/ chunk[1] \notin {"C", "F"}
                   \/ state.partial_chunk_count + 1 > MaxChunkCount
                   \/ Len(message) > MaxMessageSize
    IN  CASE state.closed -> state
          [] ~state.closed /\ chunk[1] = "A" -> ResetReassembly(state)
          [] ~state.closed /\ chunk[1] # "A" /\ refused ->
               [ResetReassembly(state) EXCEPT !.closed = TRUE]
          [] ~state.closed /\ chunk[1] = "C" /\ ~refused ->
               [state EXCEPT !.partial_message = message, !.partial_chunk_count = @ + 1]
          [] ~state.closed /\ chunk[1] = "F" /\ ~refused ->
               [ResetReassembly(state) EXCEPT !.dispatched = Append(@, message)]

\* What the server dispatches to its services.
ServerReassembles(chunks) ==
    LET after[n \in 0..Len(chunks)] ==
            IF n = 0 THEN Nowhere ELSE ProcessSecureMessageChunk(after[n - 1], chunks[n])
    IN  after[Len(chunks)].dispatched

\* The client reads up to the first chunk that is not an intermediate one.
ReadServiceResponse(chunks) ==
    LET last == CHOOSE i \in DOMAIN chunks :
                    chunks[i][1] # "C" /\ \A j \in 1..(i - 1) : chunks[j][1] = "C"
        body == FlattenSeq([i \in 1..last |-> chunks[i][2]])
    IN  IF last > MaxChunkCount \/ chunks[last][1] # "F" \/ Len(body) > MaxMessageSize
        THEN <<>> ELSE <<body>>

\* The message a receiver makes of the chunks, if any.
Reassembled(kind, chunks) ==
    IF kind = "write" THEN ServerReassembles(chunks) ELSE ReadServiceResponse(chunks)

\* A message cut into n chunks of about the same size.
Chunked(bytes, n) ==
    LET cut(i) == (Len(bytes) * i) \div n
    IN  [i \in 1..n |-> <<IF i = n THEN "F" ELSE "C", SubSeq(bytes, cut(i - 1) + 1, cut(i))>>]

\* What may precede a request: the chunks of one that its sender gave up.
Begun(kind, bytes) ==
    {<<>>} \cup IF kind = "read" THEN {} ELSE {<< <<"C", bytes>>, <<"A", <<>> >> >>}

\* What the receiver makes of the message on the wire.
Received ==
    LET message == IF wire[1] = "json" THEN <<wire[3]>> ELSE Reassembled(wire[2], wire[4] \o wire[5])
    IN  IF message = <<>> THEN Failed
        ELSE ValueOf(wire[2], Message(wire[1], wire[2], message[1]))

(***************************************************************************)
(* Steps.                                                                  *)
(***************************************************************************)
Init ==
    /\ stored \in BackendValues
    /\ held = [c \in Transports |-> Nothing]
    /\ wire = Idle
    /\ sent = Nothing

\* The user of client c has a value of its own to write.
Compose(c) ==
    /\ wire = Idle
    /\ \E value \in ComposedValues[c] : held' = [held EXCEPT ![c] = <<value>>]
    /\ UNCHANGED <<stored, wire, sent>>

\* Put a message on the wire.  A value without a form in this encoding throws
\* in the encoder: nothing is sent.
Send(c, kind, value) ==
    /\ wire = Idle
    /\ \E prepared \in {Prepared(c, kind, value)} :
          \E encoded \in {Encoded(c, kind, MessageOf(kind, prepared))} :
             /\ IsSendable(c, encoded)
             /\ \E bytes \in {encoded}
                    \cup IF c = "binary" THEN {WithPicoseconds(encoded, n) : n \in PeerPicoseconds}
                         ELSE {} :
                  \/ c = "json" /\ wire' = <<c, kind, bytes>>
                  \/ /\ c = "binary"
                     /\ \E begun \in Begun(kind, bytes), n \in PeerChunks :
                           wire' = <<c, kind, bytes, begun, Chunked(bytes, n)>>
             /\ sent' = <<prepared>>
    /\ UNCHANGED <<stored, held>>

Read(c) == Send(c, "read", stored)
Write(c) == held[c] # Nothing /\ Send(c, "write", held[c][1])

\* The receiver decodes the message; one it cannot decode changes nothing.
Accept(c, kind, received) ==
    /\ held' = IF kind = "read" /\ received.ok
               THEN [held EXCEPT ![c] = <<received.value>>] ELSE held
    /\ stored' = IF kind = "write" /\ received.ok THEN received.value ELSE stored
    /\ wire' = Idle
    /\ sent' = Nothing
Deliver ==
    /\ wire # Idle
    /\ Accept(wire[1], wire[2], Received)

Next == Deliver \/ \E c \in Transports : Compose(c) \/ Read(c) \/ Write(c)

Spec == Init /\ [][Next]_vars

(***************************************************************************)
(* Properties.                                                             *)
(***************************************************************************)
Payloads(variant) ==
    IF variant[2] = "array" /\ variant[1] # "Null"
    THEN {variant[3][i] : i \in DOMAIN variant[3]} ELSE {variant[3]}

HasNaN(variant) == variant[1] \in {"Float", "Double"} /\ NaN \in Payloads(variant)
AsVariant(value) == <<"DataValue", "scalar", value>>

\* What a receiver can read.  Over JSON, none of these in a message: a time beyond
\* the years of four digits, or in a millisecond that no double holds; an array
\* with a number that is NaN; a namespace uri with "i=", "g=" or "b=" behind a
\* semicolon.
RECURSIVE IsReadableJson(_)
IsReadableJson(variant) ==
    LET payloads == Payloads(variant)
    IN  /\ variant[1] = "DateTime" => \A ticks \in payloads : IsLegible(ticks)
        /\ variant[2] = "array" => ~HasNaN(variant)
        /\ variant[1] = "ExpandedNodeId" =>
              \A id \in payloads : Len(id[2]) > 1 => id[2][2] \notin {"i", "g", "b"}
        /\ variant[1] = "Variant" => \A v \in payloads : IsReadableJson(v)
        /\ variant[1] = "DataValue" =>
              \A v \in payloads : IsLegible(v[3]) /\ IsLegible(v[4]) /\ IsReadableJson(v[1])
IsReadable(transport, value) == transport = "json" => IsReadableJson(AsVariant(value))

\* What a transport is known not to carry: the qualifier and the good
\* sub-codes of a DataValue, an array of nulls in one; the Binary encoding,
\* bodies that are not bytes; the JSON encoding, times beyond the precision
\* of a double and fractions of a millisecond, the first instant of year 1,
\* which stands for the null DateTime, a number that is NaN or a null Variant in
\* a Variant, either of which makes it the null Variant, a name of namespace zero
\* that reads as "<number>:<name>", and a namespace uri with a semicolon, whose
\* rest becomes the identifier.
RECURSIVE Carries(_, _)
Carries(transport, variant) ==
    LET payloads == Payloads(variant)
    IN  /\ variant[1] = "Null" => variant = NullVariant
        /\ variant[1] = "Variant" => \A v \in payloads : Carries(transport, v)
        /\ variant[1] = "DataValue" =>
              \A v \in payloads :
                 /\ v[5] = 0
                 /\ IsGood(v[2]) => v[2] = 0
                 /\ Carries(transport, v[1])
                 /\ transport = "json" => IsSaidExactly(v[3]) /\ IsSaidExactly(v[4])
        /\ transport = "binary" /\ variant[1] = "ExtensionObject" =>
              \A object \in payloads : object[2][1] = "binary"
        /\ transport = "json" =>
              /\ ~HasNaN(variant)
              /\ variant[1] = "Variant" /\ variant[2] = "scalar" => ~IsNullVariant(variant[3])
              /\ variant[1] = "DateTime" => \A ticks \in payloads : IsSaidExactly(ticks)
              /\ variant[1] = "ExpandedNodeId" => \A id \in payloads : Len(id[2]) < 2
              /\ variant[1] = "QualifiedName" =>
                    \A name \in payloads :
                        ~(name[1] = 0 /\ Len(name[2]) > 1 /\ name[2][1] \in DOMAIN Numerals)

Faithful(transport, value, received) ==
    IsReadable(transport, value) =>
        received.ok /\ (Carries(transport, AsVariant(value)) => received.value = value)

\* What the {Type, Body} form is known not to carry: the qualifier, an array of
\* nulls, structures that are not JSON, numbers that are NaN, a namespace uri with a
\* semicolon, and as bodies of their own the null DateTime, a null Variant and a
\* ByteString, which reads as an array of them.
RECURSIVE IsRetained(_)
IsRetained(variant) ==
    LET payloads == Payloads(variant)
        scalar == variant[2] = "scalar"
    IN  CASE variant[1] = "Null" -> variant = NullVariant
          [] variant[1] = "ByteString" -> ~scalar
          [] variant[1] \in {"Float", "Double"} -> ~HasNaN(variant)
          [] variant[1] = "ExpandedNodeId" -> \A id \in payloads : Len(id[2]) < 2
          [] variant[1] = "DateTime" ->
                /\ \A t \in payloads : IsLegible(t) /\ IsSaidExactly(t)
                /\ scalar => variant[3] # 0
          [] variant[1] = "ExtensionObject" -> \A object \in payloads : object[2][1] = "json"
          [] variant[1] = "Variant" ->
                /\ \A inner \in payloads : IsRetained(inner)
                /\ scalar => ~IsNullVariant(variant[3])
          [] variant[1] = "DataValue" ->
                \A v \in payloads : v[5] = 0 /\ IsRetained(v[1])
                                        /\ \A i \in {3, 4} : IsLegible(v[i]) /\ IsSaidExactly(v[i])
          [] OTHER -> TRUE

\* An event with the value, its timestamps and its status code.
EventAbout(value) ==
    <<NodeToWrite, 9, value[3], value[4], 1, 500, NodeToWrite, <<"source">>, NullNodeId,
      value[1], value[5], << <<>>, <<"text">> >>, TRUE, 0, NodeToWrite>>
StructuresAbout(value) ==
    { <<EventMembers, EventAbout(value)>>,
      <<EventFilterMembers, <<3, <<NodeToWrite>>, <<>> >> >>,
      <<AggregateFilterMembers, <<value[3], 60, NodeToWrite>> >>,
      <<MultiStatusMembers, << <<value[2], 1>>, <<value[2]>> >> >> }

\* An event is its fields again but for the time of receipt and the name of the
\* source; AssembleEvent tells which of the two changes it was.
EventsReadBack(value) ==
    LET event == EventAbout(value)
        change == <<NodeToWrite, NullNodeId, value[5]>>
    IN  /\ AssembleSystemEvent(DisassembleSystemEvent(event))
               = [event EXCEPT ![4] = NoEvent[4], ![8] = NoEvent[8]]
        /\ AssembleEvent(DisassembleModelChangeEvent(change)) = Got(change)
        /\ AssembleEvent(DisassembleSemanticChangeEvent(<<NodeToWrite>>)) = Got(<<NodeToWrite>>)

\* An attribute that takes the value holds it, set or by way of an update.
AttributesReadBack(variant) ==
    LET node == [NoAttributes EXCEPT !.data_type = NodeToWrite, !.value = <<NullVariant>>]
    IN  \A id \in DOMAIN NoAttributes :
            LET set == SetAttribute(node, id, variant)
                update == SetAttribute(NoAttributes, id, variant)
            IN  set.ok =>
                  /\ GetAttribute(set.value, id) = Got(variant)
                  /\ update.value # NoAttributes =>
                        UpdateAttributes(node, update.value) = set.value

\* The other JSON form of the value reads as the value again, and so do the
\* objects of the library that it is part of.
ReadsBack(value) ==
    /\ EventsReadBack(value)
    /\ AttributesReadBack(value[1])
    /\ IsRetained(AsVariant(value)) =>
          /\ DecodeDataValueMembers(EncodeDataValueMembers(value)) = Got(value)
          /\ \A s \in StructuresAbout(value) :
                DecodeMembers(s[1], EncodeMembers(s[1], s[2])) = Got(s[2])

\* What a receiver takes; chunks of an aborted message do not count.
WithinLimits ==
    wire[1] = "binary" => Len(wire[3]) <= MaxMessageSize /\ Len(wire[5]) <= MaxChunkCount

\* A message this stack, or a peer that adds picoseconds, cuts the message into
\* chunks and aborts another before it, puts on the wire is understood at the
\* other end if it can be read at all, and the value in it is the one that was
\* sent but for what the transport is known not to carry (codec_utils.cpp's
\* pairs of Encode and Decode, ua_json_builtins.cpp's, UTCExplode and
\* FromUTCString, ProcessSecureMessageChunk, ReadServiceResponse).  The pairs
\* of json_codec.cpp lose no more of it than is known either, nor do those of
\* event_util.cpp and node_attributes.h.
ValueArrives ==
    wire # Idle /\ WithinLimits =>
        Faithful(wire[1], sent[1], Received) /\ ReadsBack(sent[1])

\* A message cut short anywhere is refused, never taken for a shorter one
\* (the buffer checks of Decoder::Decode and ReadArray, `consumed()`), and so
\* is one of more chunks or more bytes than the receiver takes.
CutIsRefused ==
    wire # Idle /\ wire[1] = "binary" =>
        /\ WithinLimits \/ ~Received.ok
        /\ \A n \in 0..(Len(wire[3]) - 1) : ~Message(wire[1], wire[2], SubSeq(wire[3], 1, n)).ok
=============================================================================
