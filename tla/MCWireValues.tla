---------------------------- MODULE MCWireValues -----------------------------
(***************************************************************************)
(* Values for WireValues: every built-in type, scalar and array, at the    *)
(* boundaries of the forms the codecs choose between.                      *)
(***************************************************************************)
EXTENDS WireValues

RangeType == <<"struct", << <<"Low", <<"Double">> >>, <<"High", <<"Double">> >> >> >>
MCKnown == [id \in {886} |-> <<15375, RangeType>>]
UnknownId == 777

Nodes == {<<"numeric", 0, 0>>, <<"numeric", 0, 255>>, <<"numeric", 0, 256>>,
          <<"numeric", 255, 65535>>, <<"numeric", 255, 65536>>, <<"numeric", 256, 1>>,
          <<"string", 2, <<"a">> >>, <<"opaque", 1, <<"blob">> >>}
Diagnostic(inner) == << <<1>>, <<>>, <<3>>, <<4>>, << <<"info">> >>, << <<2^15, 3>> >>, inner >>
NoDiagnostic == [i \in 1..7 |-> <<>>]

Millisecond == TicksPerMillisecond
\* About the origin; the first instant of year 1; 1969; times that a double
\* rounds up, then holds by the millisecond, then no more, with a fraction of a
\* millisecond that is and one that is not in one that a double holds; the first
\* and the last year a text can say, and beyond.
Times ==
    {0, 1, -1, -Millisecond, -240, -360, -361, 19 * Millisecond, 100 * Millisecond - 1,
     169 * Millisecond, 171 * Millisecond, 171 * Millisecond + 4, 172 * Millisecond,
     172 * Millisecond + 4, 173 * Millisecond, 220 * Millisecond, MaxInt64, -MaxInt64 - 1}

Scalars ==
    { <<"Boolean", TRUE>>, <<"SByte", -1>>, <<"SByte", 127>>, <<"Byte", 255>>,
      <<"Int16", -32768>>, <<"UInt16", 65535>>, <<"Int32", -5>>, <<"UInt32", 7>>,
      <<"Int64", -9>>, <<"UInt64", 9>>, <<"Float", 1>>, <<"Double", 2>>,
      <<"Double", NaN>>,
      <<"String", <<>> >>, <<"String", <<"a">> >>, 
      <<"Guid", 4>>, <<"ByteString", <<0, 255>> >>, <<"XmlElement", <<"xml">> >>,
      <<"StatusCode", <<2^15 + 3, 1>> >>, <<"QualifiedName", <<2, <<"x">> >> >>,
      <<"QualifiedName", <<0, <<"x", "y">> >> >>, <<"QualifiedName", <<0, <<"2", "x">> >> >>,
      <<"LocalizedText", << <<"en">>, <<>> >> >>, <<"LocalizedText", << <<>>, <<"t">> >> >>,
      <<"DiagnosticInfo", Diagnostic(<<NoDiagnostic>>)>>,
      <<"NodeId", <<"guid", 1, 4>> >>,
      <<"ExpandedNodeId", << <<"guid", 1, 4>>, <<>>, 0>> >>,
      <<"ExpandedNodeId", << <<"numeric", 0, 5>>, <<"urn">>, 3>> >>,
      <<"ExpandedNodeId", << <<"numeric", 0, 5>>, <<"urn", "x">>, 3>> >>,
      <<"ExpandedNodeId", << <<"numeric", 0, 5>>, <<"urn", "i">>, 0>> >>,
      <<"Variant", <<"Double", "scalar", NaN>> >>,
      <<"Variant", <<"Int32", "scalar", 1>> >>,
      <<"DataValue", << <<"Null", "array", 2>>, 2^15, Millisecond, 0, 0>> >> }
    \cup {<<"DateTime", ticks>> : ticks \in Times}
    \cup {<<"NodeId", node>> : node \in Nodes}
    \cup {<<"ExpandedNodeId", <<node, <<>>, 1>> >> : node \in Nodes}

Structures ==
    { ToExtensionObject(886, RangeType, <<1, 2>>),
      << << <<"numeric", 2, UnknownId>>, <<>>, 0>>, <<"binary", <<"blob">> >> >> }

Variants ==
    {<<s[1], "scalar", s[2]>> : s \in Scalars}
    \cup {<<s[1], "array", <<s[2], s[2]>> >> : s \in Scalars}
    \cup {<<"Null", "array", 3>>, NullVariant, <<"Int32", "array", <<>> >>}
    \cup {<<"ExtensionObject", "scalar", object>> : object \in Structures}
    \cup {<<"ExtensionObject", "array", <<object>> >> : object \in Structures}

MCBackendValues ==
    {<<variant, 0, Millisecond, 2 * Millisecond, 0>> : variant \in Variants}
    \cup { <<NullVariant, 2^15, 0, 2 * Millisecond, 0>>, << <<"Int32", "scalar", 1>>, 2^14, 15, 0, 1>>,
           << <<"Int32", "scalar", 1>>, 5, Millisecond, 15, 0>> }

\* A JSON client composes structures in JSON, any client an object without one.
JsonStructures ==
    { ToJsonExtensionObject(15375, RangeType, <<1, 2>>),
      << << <<"numeric", 2, UnknownId>>, <<>>, 0>>, <<"json", Number(1)>> >> }
NoBody == << << <<"numeric", 2, UnknownId>>, <<>>, 0>>, <<"none">> >>
MCComposedValues ==
    [c \in Transports |->
        {<< <<"ExtensionObject", "scalar", object>>, 0, 0, 0, 0>> :
            object \in {NoBody} \cup IF c = "json" THEN JsonStructures ELSE {}}]
MCPeerPicoseconds == {5}
MCPeerChunks == 1..3
=============================================================================
