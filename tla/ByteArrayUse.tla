---------------------------- MODULE ByteArrayUse ----------------------------
(***************************************************************************)
(* A ByteArray and a caller that writes integers and strings, moves the    *)
(* position, and reads what it likes.  A careful caller ends no write at   *)
(* the end of a block, moves the position only from the first block,       *)
(* receives behind the data only, writes a file from the beginning of a    *)
(* block, and writes no integer of more groups than are read: for it the   *)
(* array is a sequence of bytes, FlatBytes.  Any other caller meets the    *)
(* block pointer.                                                          *)
(***************************************************************************)
EXTENDS bytearray

CONSTANTS
    Careful,        \* the caller is careful
    Items,          \* the items it writes: [kind, v]
    Junk,           \* the bytes that a new block may hold
    LenWidth,       \* the bytes of the length of a string
    MaxSize         \* bound: the data it writes

ASSUME UseAssumption ==
    /\ Careful \in BOOLEAN /\ Junk \subseteq Byte
    /\ LenWidth \in Nat \ {0} /\ MaxSize \in Nat

Kinds == {"fint", "fuint", "int", "uint64", "string"}

VARIABLES
    b,          \* the array
    out,        \* the bytes that the last operation returned

    items,      \* history: the items in the data: [kind, v, off, len, endian]
    got         \* history: the item at the position and the value read there

vars == <<b, out, items, got>>
NotRead == [kind |-> "none", v |-> 0, value |-> 0]

Init ==
    /\ \E junk \in Junk : b = NewByteArray(junk)
    /\ out = <<>>
    /\ items = {}
    /\ got = NotRead

-----------------------------------------------------------------------------

(* The bytes of an item; a string is its length, always unsigned, and its  *)
(* characters.                                                             *)
Encode(a, item) ==
    CASE item.kind = "fint" -> Swapped(a, Fixed(item.v, 2), TRUE)
      [] item.kind = "fuint" -> Swapped(a, Fixed(item.v, 2), FALSE)
      [] item.kind = "int" -> Varint(EncodeZigzag(item.v))
      [] item.kind = "uint64" -> Varint(item.v)
      [] item.kind = "string" -> Swapped(a, Fixed(Len(item.v), LenWidth), FALSE)
Characters(item) == IF item.kind = "string" THEN item.v ELSE <<>>
TextOf(a, item) == Encode(a, item) \o Characters(item)

(* How many bytes the item at the beginning of a text takes: two bytes, as *)
(* many as the flags say, or as many as the length says.                   *)
LengthOf(a, kind, text) ==
    CASE kind \in {"fint", "fuint"} -> 2
      [] kind \in {"int", "uint64"} -> VarintLen(text)
      [] kind = "string" ->
            IF Len(text) < LenWidth THEN LenWidth
            ELSE LenWidth + Unfixed(Swapped(a, SubSeq(text, 1, LenWidth), FALSE))

Decode(a, kind, bytes) ==
    CASE kind = "fint" -> Unfixed(Swapped(a, bytes, TRUE))
      [] kind = "fuint" -> Unfixed(Swapped(a, bytes, FALSE))
      [] kind = "int" -> DecodeZigzag(Unvarint(bytes))
      [] kind = "uint64" -> Unvarint(bytes)
      [] kind = "string" -> SubSeq(bytes, LenWidth + 1, Len(bytes))

(* The caller's side of the contract: n bytes do not end with a block.     *)
Fits(n) == Careful /\ n > 0 => (b.position + n) % BaseSize # 0

(* The items that n bytes at the position leave whole.                     *)
Kept(n) == {i \in items : i.off + i.len <= b.position \/ b.position + n <= i.off}

(* An item at the position, of n bytes.                                    *)
Placed(item, n) ==
    [kind |-> item.kind, v |-> item.v, off |-> b.position, len |-> n,
     endian |-> b.endian]

Running == ~b.crashed
Quiet == out' = <<>> /\ got' = NotRead

WriteItem ==
    /\ Running
    /\ \E item \in Items, junk \in Junk :
        LET head == Encode(b, item)
            n == Len(head) + Len(Characters(item))
        IN  /\ b.position + n <= MaxSize
            /\ Fits(n) /\ Fits(Len(head))
            /\ b' = write(write(b, head, junk), Characters(item), junk)
            /\ items' = Kept(n) \cup {Placed(item, n)}
    /\ Quiet

(* read throws in the middle of an item when the data is too short: what   *)
(* was read before it is gone.                                             *)
ReadItem ==
    /\ Running
    /\ \E kind \in {i.kind : i \in Items} :
        LET text == Bytes(b, getReadableSize(b))
            n == LengthOf(b, kind, text)
            at == {i \in items : i.kind = kind /\ i.off = b.position
                                 /\ (i.endian = b.endian \/ kind = "fint")}
            bytes == Bytes(b, n)
        IN  /\ ~Throws(b, n)
            /\ b' = IF kind = "string" THEN read(read(b, LenWidth), n - LenWidth)
                    ELSE read(b, n)
            /\ out' = IF b'.crashed THEN <<>> ELSE bytes
            /\ got' = IF at = {} \/ b'.crashed THEN NotRead
                      ELSE [kind |-> kind, v |-> (CHOOSE i \in at : TRUE).v,
                            value |-> Decode(b, kind, bytes)]
    /\ UNCHANGED items

(* The part of an item that is read before read throws.                    *)
ReadThrows ==
    /\ Running
    /\ \E kind \in {i.kind : i \in Items}, n \in 0 .. getReadableSize(b) :
        /\ Throws(b, LengthOf(b, kind, Bytes(b, getReadableSize(b))))
        /\ n = CASE kind \in {"fint", "fuint"} -> 0
                 [] kind \in {"int", "uint64"} -> getReadableSize(b)
                 [] OTHER -> IF Throws(b, LenWidth) THEN 0 ELSE LenWidth
        /\ b' = IF n = 0 THEN b ELSE read(b, n)
        /\ out' = IF b'.crashed THEN <<>> ELSE Bytes(b, n)
    /\ got' = NotRead
    /\ UNCHANGED items

SetPosition ==
    /\ Running
    /\ Careful => b.curr = 1
    /\ \E pos \in 0 .. b.size : b' = setPosition(b, pos)
    /\ Quiet
    /\ UNCHANGED items

Clear ==
    /\ Running
    /\ b' = clear(b)
    /\ items' = {}
    /\ Quiet

SetEndian ==
    /\ Running
    /\ \E e \in Endian : b' = [b EXCEPT !.endian = e]
    /\ Quiet
    /\ UNCHANGED items

(* SocketStream::read: buffers for len bytes.  The socket fills the first  *)
(* or all of them with something, or delivers an item that a peer encoded  *)
(* in the same byte order.  Position and current block stay where they     *)
(* are, so that what is received, across the blocks too, is read next.     *)
Receive ==
    /\ Running
    /\ \E len \in 1 .. MaxSize, junk \in Junk :
        /\ b.size + len <= MaxSize
        /\ Fits(len) /\ (Careful => b.position = b.size)
        /\ \/ \E n \in {1, len} :
                 /\ b' = addWriteBuffers(b, len, [i \in 1 .. n |-> 1], junk)
                 /\ items' = Kept(len)
           \/ \E item \in Items :
                 LET n == Len(TextOf(b, item))
                 IN  /\ n <= len
                     /\ b' = addWriteBuffers(b, len, TextOf(b, item), junk)
                     /\ items' = Kept(len) \cup {Placed(item, n)}
    /\ Quiet

(* toString, and SocketStream::write of up to len bytes.                   *)
Look ==
    /\ Running
    /\ getReadableSize(b) > 0
    /\ \E len \in {1, getReadableSize(b)} :
        /\ b' = peek(b, addReadBuffers(b, len))
        /\ out' = IF b'.crashed THEN <<>> ELSE Bytes(b, addReadBuffers(b, len))
    /\ got' = NotRead
    /\ UNCHANGED items

WriteToFile ==
    /\ Running
    /\ Careful => b.position % BaseSize = 0
    /\ LET file == writeToFile(b)
       IN  /\ b' = IF file.crashed THEN Crash(b) ELSE b
           /\ out' = file.text
    /\ got' = NotRead
    /\ UNCHANGED items

ReadFromFile ==
    /\ Running
    /\ \E n \in 0 .. 2, junk \in Junk :
        /\ b.position + n <= MaxSize
        /\ Fits(n)
        /\ b' = readFromFile(b, [i \in 1 .. n |-> 1], junk)
        /\ items' = Kept(n)
    /\ Quiet

Next ==
    \/ WriteItem \/ ReadItem \/ ReadThrows
    \/ SetPosition \/ Clear \/ SetEndian
    \/ Receive \/ Look \/ WriteToFile \/ ReadFromFile

Spec == Init /\ [][Next]_vars

-----------------------------------------------------------------------------

TypeOK ==
    /\ \A i \in DOMAIN b.mem : b.mem[i] \in Byte
    /\ Len(b.mem) = b.capacity
    /\ b.curr \in 1 .. Blocks(b) + 1
    /\ b.position \in 0 .. b.size
    /\ b.size <= b.capacity
    /\ b.endian \in Endian

(* A careful caller never meets the end of the list of blocks.             *)
NoCrash == ~b.crashed

(* What is read at the place where an item was written or received, and    *)
(* not overwritten, is the item, also where it crosses into another block: *)
(* the assertion of testByteArray.cpp.                                     *)
ReadBack == got.kind # "none" => got.value = got.v

(* For a careful caller the blocks are a sequence of bytes.                *)
Flat == INSTANCE FlatBytes WITH
            FlatByte <- Byte, MaxData <- MaxSize,
            data <- SubSeq(b.mem, 1, b.size), pos <- b.position, out <- out
IsFlat == Flat!Spec
=============================================================================
