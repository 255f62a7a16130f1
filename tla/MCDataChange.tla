---------------------------- MODULE MCDataChange ----------------------------
(* DataChange on a small instance: integers of two to five bits.           *)
EXTENDS DataChange

MCModulus ==
    [INT8 |-> 4, UINT8 |-> 4, INT16 |-> 8, UINT16 |-> 8, INT32 |-> 16, UINT32 |-> 16,
     INT64 |-> 32, UINT64 |-> 32]

Scalar(type, n) == [type |-> type, array |-> FALSE, value |-> n]

\* Numbers that creep across zero, one of them an integer that INT8 does not
\* hold, and NaN.  The empty value of an item's status is the one that is no
\* number.
MCVariants == {Scalar("DOUBLE", h) : h \in {-1, 1, NaN}} \cup {Scalar("INT32", 2)}

MCParameters ==
    {[deadband |-> 0, queue_size |-> 0, discard_oldest |-> FALSE],
     [deadband |-> 4, queue_size |-> 2, discard_oldest |-> TRUE],
     [deadband |-> NaN, queue_size |-> 1, discard_oldest |-> TRUE]}
=============================================================================
