----------------------------- MODULE bytearray -----------------------------
(***************************************************************************)
(* ByteArray: bytes in a singly linked list of blocks of the same size,    *)
(* with a current block and a current position, which every operation      *)
(* takes as one address although they are moved separately.  An array is a *)
(* record, and the operations are functions of it.                         *)
(*                                                                         *)
(* The blocks are put one behind the other in "mem", so that block c has   *)
(* the addresses (c - 1) * BaseSize + 1 .. c * BaseSize; the current block *)
(* is a number, and the null behind the last block is the number after it. *)
(* A loop that copies from block to block copies consecutive addresses,    *)
(* and dereferences null when they go beyond the last block.               *)
(***************************************************************************)
EXTENDS Integers, Sequences, FiniteSetsExt, SequencesExt

CONSTANTS
    BaseSize,       \* m_baseSize
    Radix,          \* 0x80: what a byte of a variable length integer holds
    Groups32,       \* the bytes of such an integer of 32 bits,
    Groups64        \* and of 64 bits

ASSUME ByteArrayAssumption ==
    /\ BaseSize \in Nat \ {0}
    /\ Radix \in Nat /\ Radix >= 2
    /\ Groups32 \in Nat \ {0} /\ Groups64 \in Nat /\ Groups64 >= Groups32

Byte == 0 .. 2 * Radix - 1
Endian == {"little", "big"}
CCZOE_BYTE_ORDER == "little"

(* A new block holds what was in the memory before.                        *)
Block(junk) == [i \in 1 .. BaseSize |-> junk]

NewByteArray(junk) ==
    [mem |-> Block(junk), curr |-> 1, position |-> 0, capacity |-> BaseSize,
     size |-> 0, endian |-> "little", crashed |-> FALSE]

Blocks(b) == Len(b.mem) \div BaseSize
IsNull(b) == b.curr > Blocks(b)
Crash(b) == [b EXCEPT !.crashed = TRUE]
getReadableSize(b) == b.size - b.position
getCapacity(b) == b.capacity - b.position

(* The address that the current block and the position stand for.          *)
Address(b) == (b.curr - 1) * BaseSize + (b.position % BaseSize)
BlockAt(address) == (address \div BaseSize) + 1
Bytes(b, n) == SubSeq(b.mem, Address(b) + 1, Address(b) + n)

-----------------------------------------------------------------------------
(* Memory *)

clear(b) ==
    [b EXCEPT !.mem = SubSeq(@, 1, BaseSize), !.curr = 1, !.position = 0,
              !.capacity = BaseSize, !.size = 0]

(* Fault: a block that is only partly needed is not added.                 *)
addTooFew(b, size, junk) ==
    LET count == size \div BaseSize
    IN  IF size = 0 \/ getCapacity(b) >= size THEN b
        ELSE [b EXCEPT !.mem = @ \o [i \in 1 .. count * BaseSize |-> junk],
                       !.capacity = @ + count * BaseSize]

(* "first" is the last of the old blocks.                                  *)
addCapacity(b, size, junk) ==
    LET old == getCapacity(b)
        count == (size \div BaseSize) + IF size % BaseSize > old THEN 1 ELSE 0
    IN  IF size = 0 \/ old >= size THEN b
        ELSE [b EXCEPT !.mem = @ \o [i \in 1 .. count * BaseSize |-> junk],
                       !.capacity = @ + count * BaseSize,
                       !.curr = IF old = 0 THEN Blocks(b) ELSE @]

(* The blocks with a text from the current address on.                     *)
Stored(b, text) ==
    SubSeq(b.mem, 1, Address(b)) \o text \o
    SubSeq(b.mem, Address(b) + Len(text) + 1, Len(b.mem))

write(b, buf, junk) ==
    LET g == addCapacity(b, Len(buf), junk)
        end == Address(g) + Len(buf)
    IN  CASE buf = <<>> -> b
          [] buf # <<>> /\ end > Len(g.mem) -> Crash(g)
          [] OTHER ->
               [g EXCEPT !.mem = Stored(g, buf),
                         !.curr = BlockAt(end),
                         !.position = @ + Len(buf),
                         !.size = Max({@, g.position + Len(buf)})]

Throws(b, n) == n > getReadableSize(b)

(* Fault: the current block stays when the bytes cross into the next one.  *)
readSameBlock(b, n) ==
    IF IsNull(b) \/ Address(b) + n > Len(b.mem) THEN Crash(b)
    ELSE [b EXCEPT !.position = @ + n]

(* read(buf, size): the array behind it, if it does not throw.             *)
read(b, n) ==
    IF IsNull(b) \/ Address(b) + n > Len(b.mem) THEN Crash(b)
    ELSE [b EXCEPT !.curr = IF n = 0 THEN @ ELSE BlockAt(Address(b) + n),
                   !.position = @ + n]

(* Fault: the position is set, the block is not looked for.                *)
setPositionOnly(b, pos) == [b EXCEPT !.position = pos]

(* setPosition, if it does not throw: the blocks are counted from the      *)
(* current one.                                                            *)
setPosition(b, pos) ==
    IF b.curr + (pos \div BaseSize) > Blocks(b) THEN Crash([b EXCEPT !.position = pos])
    ELSE [b EXCEPT !.position = pos, !.curr = @ + (pos \div BaseSize)]

(* The const operations, read(buf, size, pos) with toString and            *)
(* toHexString, and addReadBuffers with SocketStream::write: they look at  *)
(* the n bytes from the current address on.                                *)
peek(b, n) == IF IsNull(b) \/ Address(b) + n > Len(b.mem) THEN Crash(b) ELSE b
addReadBuffers(b, len) == Min({len, getReadableSize(b)})

(* addWriteBuffers(len), then recvmsg stores text in the buffers.  A       *)
(* buffer that ends with its block is followed by a look at the next one.  *)
addWriteBuffers(b, len, text, junk) ==
    LET g == addCapacity(b, len, junk)
    IN  CASE len = 0 -> b
          [] len # 0 /\ (IsNull(g) \/ Address(g) + len >= Len(g.mem)) -> Crash(g)
          [] OTHER -> [g EXCEPT !.mem = Stored(g, text),
                                !.size = @ + len]

(* What writeToFile has written after i blocks.                            *)
writeToFile(b) ==
    LET File[i \in 0 .. Blocks(b) + 1] ==
            IF i = 0 THEN [pos |-> b.position, left |-> getReadableSize(b),
                           text |-> <<>>, crashed |-> FALSE]
            ELSE LET w == File[i - 1]
                     npos == w.pos % BaseSize
                     len == Min({w.left, BaseSize}) - npos
                     start == (b.curr + i - 2) * BaseSize + npos
                 IN  CASE w.crashed \/ w.left <= 0 -> w
                       [] ~(w.crashed \/ w.left <= 0) /\ b.curr + i - 1 > Blocks(b) ->
                            [w EXCEPT !.crashed = TRUE]
                       [] OTHER -> [w EXCEPT !.pos = @ + len, !.left = @ - len,
                                             !.text = @ \o SubSeq(b.mem, start + 1,
                                                                  start + len)]
    IN  File[Blocks(b) + 1]

(* readFromFile: a file shorter than a block is one write.                 *)
readFromFile(b, text, junk) ==
    LET rest == SubSeq(text, BaseSize + 1, Len(text))
    IN  write(write(b, SubSeq(text, 1, Min({Len(text), BaseSize})), junk), rest, junk)

-----------------------------------------------------------------------------
(* Integers and strings as bytes *)

(* byteswap only knows the unsigned types.                                 *)
Swapped(b, bytes, signed) ==
    IF b.endian # CCZOE_BYTE_ORDER /\ ~signed THEN Reverse(bytes) ELSE bytes

(* base to the power of n.                                                 *)
Power(base, n) ==
    LET power[i \in 0 .. n] == IF i = 0 THEN 1 ELSE base * power[i - 1]
    IN  power[n]

(* The number with the given digits, the lowest first, and a digit.        *)
Number(base, digits) ==
    LET sum[i \in 0 .. Len(digits)] ==
            IF i = 0 THEN 0 ELSE sum[i - 1] + digits[i] * Power(base, i - 1)
    IN  sum[Len(digits)]
Digit(base, v, i) == (v \div Power(base, i - 1)) % base

(* The little endian bytes of a number of "width" bytes.                   *)
Fixed(v, width) == [i \in 1 .. width |-> Digit(2 * Radix, v, i)]
Unfixed(bytes) == Number(2 * Radix, bytes)

(* writeUint32 and writeUint64: seven bits a byte, the flag on all but the *)
(* last one.                                                               *)
GroupsOf(v) ==
    CHOOSE n \in 1 .. Groups64 :
        v < Power(Radix, n) /\ (n > 1 => v >= Power(Radix, n - 1))
Varint(v) ==
    [i \in 1 .. GroupsOf(v) |->
        Digit(Radix, v, i) + IF i < GroupsOf(v) THEN Radix ELSE 0]

(* readUint32, and readUint64, which also stops after the groups of 32     *)
(* bits: the bytes it takes from a text, and their value.                  *)
VarintLen(text) ==
    LET last == {i \in DOMAIN text : text[i] < Radix /\ i <= Groups32}
    IN  IF last = {} THEN Groups32 ELSE Min(last)
Unvarint(bytes) == Number(Radix, [i \in DOMAIN bytes |-> bytes[i] % Radix])

EncodeZigzag(v) == IF v < 0 THEN (-v) * 2 - 1 ELSE v * 2

DecodeZigzag(v) == IF v % 2 = 0 THEN v \div 2 ELSE -((v + 1) \div 2)
=============================================================================
