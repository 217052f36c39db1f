---------------------------- MODULE MCByteArray ----------------------------
(* Items for TLC.  In the scale of the model a byte has four values, an    *)
(* integer of 32 bits has three groups and one of 64 bits has six.         *)
EXTENDS ByteArrayUse

TestItems ==
    {[kind |-> "fint", v |-> 6], [kind |-> "fuint", v |-> 6],
     [kind |-> "int", v |-> -2], [kind |-> "uint64", v |-> 5],
     [kind |-> "string", v |-> <<>>], [kind |-> "string", v |-> <<3>>]}
ShortItems == {[kind |-> "fint", v |-> 6], [kind |-> "fint", v |-> 1]}
=============================================================================
