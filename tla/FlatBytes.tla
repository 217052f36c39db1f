----------------------------- MODULE FlatBytes -----------------------------
(***************************************************************************)
(* What ByteArray promises: a sequence of bytes with a position, at which  *)
(* bytes are written, over old ones and beyond the end, and read.          *)
(***************************************************************************)
EXTENDS Integers, Sequences

CONSTANTS
    FlatByte,   \* the bytes
    MaxData     \* bound: of how many the data may be

VARIABLES
    data,       \* the bytes
    pos,        \* 0 .. Len(data)
    out         \* the bytes that the last operation returned

vars == <<data, pos, out>>

Init == data = <<>> /\ pos = 0 /\ out = <<>>

(* n bytes from the position on are new; the others are what they were.    *)
Overwritten(n) ==
    /\ data' \in Seq(FlatByte)
    /\ Len(data') = IF pos + n > Len(data) THEN pos + n ELSE Len(data)
    /\ \A i \in DOMAIN data : i \notin pos + 1 .. pos + n => data'[i] = data[i]

Write ==
    \E n \in 0 .. MaxData :
        /\ Overwritten(n)
        /\ pos' = pos + n
        /\ out' = <<>>

(* Bytes that a socket has stored: they wait at the position.              *)
Store ==
    \E n \in 1 .. MaxData :
        /\ Overwritten(n)
        /\ out' = <<>>
        /\ UNCHANGED pos

Read ==
    \E n \in 0 .. Len(data) - pos :
        /\ out' = SubSeq(data, pos + 1, pos + n)
        /\ pos' = pos + n
        /\ UNCHANGED data

Peek ==
    \E n \in 0 .. Len(data) - pos :
        /\ out' = SubSeq(data, pos + 1, pos + n)
        /\ UNCHANGED <<data, pos>>

SetPosition ==
    /\ pos' \in 0 .. Len(data)
    /\ out' = <<>>
    /\ UNCHANGED data

Clear == data' = <<>> /\ pos' = 0 /\ out' = <<>>

Next == Write \/ Store \/ Read \/ Peek \/ SetPosition \/ Clear
Spec == Init /\ [][Next]_vars
=============================================================================
