------------------------------ MODULE ValueTypes -----------------------------
(***************************************************************************)
(* Objects of the library that are taken apart into Variants and put       *)
(* together again: an event as the list of its fields                      *)
(* (opcua/events/event_util.cpp) and the attributes of a node              *)
(* (opcua/types/node_attributes.h).                                        *)
(*                                                                         *)
(* An event is the tuple of RetainedJson's EventMembers, a model change    *)
(* <<node, type definition, verb>> and a semantic change <<node>>.  `Got`  *)
(* holds what is read, `Bad` stands for the value that is none.            *)
(***************************************************************************)
EXTENDS RetainedJson

Scalar(type, value) == <<type, "scalar", value>>

\* get: the value of a variant of the wanted type, else what was there before.
\* (An integer of another width is converted, module Variant; no field of an
\* event or of a node is one.)
GetOr(variant, type, default) ==
    IF variant[1] = type /\ variant[2] = "scalar" THEN variant[3] ELSE default

SystemEventType == <<"numeric", 0, 2130>>
GeneralModelChangeEventType == <<"numeric", 0, 2133>>
SemanticChangeEventType == <<"numeric", 0, 2738>>

(***************************************************************************)
(* Events.                                                                 *)
(***************************************************************************)
\* The fields of a system event, by the places of EventMembers: its id comes
\* first, then its type; the time of receipt and the source's name are left
\* out.  The value is a variant already.
SystemEventFields == <<2, 1, 3, 5, 6, 7, 9, 10, 11, 12, 13, 14, 15>>
DisassembleSystemEvent(event) ==
    [i \in DOMAIN SystemEventFields |->
        LET at == SystemEventFields[i]
        IN  IF EventMembers[at][2] = "Variant" THEN event[at]
            ELSE Scalar(EventMembers[at][2], event[at])]
DisassembleModelChangeEvent(event) ==
    <<Scalar("NodeId", GeneralModelChangeEventType), Scalar("NodeId", event[1]),
      Scalar("NodeId", event[2]), Scalar("Byte", event[3])>>
DisassembleSemanticChangeEvent(event) ==
    <<Scalar("NodeId", SemanticChangeEventType), Scalar("NodeId", event[1])>>

NoEvent ==
    <<SystemEventType, 0, 0, 0, 0, 500, NullNodeId, <<>>, NullNodeId, NullVariant, 0,
      << <<>>, <<>> >>, FALSE, 0, NullNodeId>>

\* The field each member is read from, none if 0; one that is not of the
\* member's type leaves the member as it was.
FieldOfMember == <<2, 1, 3, 0, 4, 5, 6, 0, 7, 8, 9, 10, 11, 12, 13>>
AssembleSystemEvent(fields) ==
    [at \in DOMAIN EventMembers |->
        CASE FieldOfMember[at] = 0 -> NoEvent[at]
          [] EventMembers[at][2] = "Variant" -> fields[FieldOfMember[at]]
          [] OTHER -> GetOr(fields[FieldOfMember[at]], EventMembers[at][2], NoEvent[at])]
AssembleModelChangeEvent(fields) ==
    <<GetOr(fields[2], "NodeId", NullNodeId), GetOr(fields[3], "NodeId", NullNodeId),
      GetOr(fields[4], "Byte", 0)>>
AssembleSemanticChangeEvent(fields) == <<GetOr(fields[2], "NodeId", NullNodeId)>>

\* The kind of event is looked for in the first field, which of a system event
\* is the id: its own list is not recognised.  In a build without assertions a
\* list that names no kind is no event.
AssembleEvent(fields) ==
    LET type == GetOr(fields[1], "NodeId", NullNodeId)
    IN  CASE type = SystemEventType -> Got(AssembleSystemEvent(fields))
          [] type = GeneralModelChangeEventType -> Got(AssembleModelChangeEvent(fields))
          [] type = SemanticChangeEventType -> Got(AssembleSemanticChangeEvent(fields))
          [] OTHER -> Bad

(***************************************************************************)
(* The attributes of a node; the value may be absent.                      *)
(***************************************************************************)
AttributeTypes ==
    [browse_name |-> "QualifiedName", display_name |-> "LocalizedText", data_type |-> "NodeId"]

NoAttributes ==
    [browse_name |-> <<0, <<>> >>, display_name |-> << <<>>, <<>> >>, data_type |-> NullNodeId,
     value |-> <<>>]

GetAttribute(attributes, id) ==
    IF id = "value"
    THEN IF attributes.value = <<>> THEN Got(NullVariant) ELSE Got(attributes.value[1])
    ELSE IF id \in DOMAIN AttributeTypes THEN Got(Scalar(AttributeTypes[id], attributes[id]))
    ELSE Bad

\* A value of any type is taken for the value attribute, of its own type for
\* another; what is refused changes nothing.
SetAttribute(attributes, id, variant) ==
    CASE id = "value" -> Got([attributes EXCEPT !.value = <<variant>>])
      [] id \in DOMAIN AttributeTypes /\ variant[1] = AttributeTypes[id] /\ variant[2] = "scalar" ->
           Got([attributes EXCEPT ![id] = variant[3]])
      [] OTHER -> Bad

\* What the update says takes the place of what was there; an empty attribute
\* says nothing.
UpdateAttributes(attributes, updated) ==
    [id \in DOMAIN attributes |->
        IF updated[id] = NoAttributes[id] THEN attributes[id] ELSE updated[id]]
=============================================================================
