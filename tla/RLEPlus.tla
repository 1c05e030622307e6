------------------------------ MODULE RLEPlus ------------------------------
(***************************************************************************)
(* Sets of sector ids on the wire: types.IntSet is serialised by the RLE+  *)
(* run length encoding of internal/pkg/rleplus, on top of a vector of bits *)
(* packed into bytes.  A byte is a number in 0..255 and a bit is 0 or 1.   *)
(***************************************************************************)
EXTENDS Integers, Sequences, SequencesExt

LSB0 == "LSB0"
MSB0 == "MSB0"

Byte == 0..255

----------------------------------------------------------------------------
(* internal/pkg/rleplus/internal.  A BitVector that is written is the      *)
(* sequence of its bits, packed into bytes at the end; one that is read is *)
(* its bytes and their packing.                                            *)

\* Where the i-th bit of a byte sits when bits are numbered in this order.
Shift(order, i) == IF order = LSB0 THEN i ELSE 7 - i

BitOf(byte, shift) == (byte \div 2^shift) % 2

Push(bits, val) == Append(bits, val % 2)

Extend(bits, val, count, order) ==
    bits \o [i \in 1..count |-> BitOf(val, Shift(order, i - 1))]

\* The last byte is filled up with zeroes.
Buf(bits, packing) ==
    [k \in 1..((Len(bits) + 7) \div 8) |->
       FoldLeft(LAMBDA byte, i :
                   LET at == 8 * (k - 1) + i
                   IN  IF at > Len(bits) THEN byte
                       ELSE byte + bits[at] * 2^Shift(packing, i - 1),
                0, <<1, 2, 3, 4, 5, 6, 7, 8>>)]

NewBitVector(buf, packing) ==
    [Buf |-> buf, BytePacking |-> packing, Len |-> 8 * Len(buf)]

\* 0 past the end: Take drops the error of Get.
Get(v, idx) ==
    IF idx >= v.Len THEN 0
    ELSE BitOf(v.Buf[idx \div 8 + 1], Shift(v.BytePacking, idx % 8))

Take(v, index, count, order) ==
    FoldLeft(LAMBDA out, i : out + Get(v, index + i - 1) * 2^Shift(order, i - 1),
             0, [i \in 1..count |-> i])

----------------------------------------------------------------------------
(* encoding/binary: seven bits to a byte, least significant group first,   *)
(* the high bit set on every byte but the last.                            *)

RECURSIVE PutUvarint(_)
PutUvarint(x) == IF x < 128 THEN <<x>>
                 ELSE <<128 + (x % 128)>> \o PutUvarint(x \div 128)

RECURSIVE Uvarint(_)
Uvarint(buf) == IF Head(buf) < 128 THEN Head(buf)
                ELSE (Head(buf) % 128) + 128 * Uvarint(Tail(buf))

----------------------------------------------------------------------------
(* internal/pkg/rleplus.                                                   *)

Version == 0

\* A conversion returns its value, or an error (the errors are not told apart).
Ok(value) == [ok |-> TRUE, val |-> value]
Error == [ok |-> FALSE]
\* The next step of a conversion, unless the one before failed.
OnOk(r, Step(_)) == IF r.ok THEN Step(r.val) ELSE Error
AllOk(rs) == IF \E i \in DOMAIN rs : ~rs[i].ok THEN Error
             ELSE Ok([i \in DOMAIN rs |-> rs[i].val])

\* The lengths of the runs of equal bits, duplicates ignored; a set that does
\* not hold 0 starts with a run of zeroes.
RunLengths(ints) ==
    LET sorted == SortSeq(ints, <)
        Extended(acc, cur) ==
            LET delta == cur - acc.prev
                n     == Len(acc.runs)
            IN  [prev |-> cur,
                 runs |-> CASE delta = 1 -> [acc.runs EXCEPT ![n] = @ + 1]
                            [] delta > 1 -> acc.runs \o <<delta - 1, 1>>
                            [] OTHER     -> acc.runs]
        start == [prev |-> sorted[1],
                  runs |-> IF sorted[1] = 0 THEN <<1>> ELSE <<sorted[1], 1>>]
    IN  IF ints = <<>> THEN [firstBit |-> 0, runs |-> <<>>]
        ELSE [firstBit |-> IF sorted[1] = 0 THEN 1 ELSE 0,
              runs     |-> FoldLeft(Extended, start, Tail(sorted)).runs]

\* Off by one: the run of sixteen still goes into four bits.
EncodeRunMutant(v, run) ==
    CASE run = 1  -> Push(v, 1)
      [] run > 1 /\ run <= 16 -> Extend(Push(Push(v, 0), 1), run, 4, LSB0)
      [] run > 16 -> FoldLeft(LAMBDA w, b : Extend(w, b, 8, LSB0),
                              Push(Push(v, 0), 0), PutUvarint(run))

\* "1" for a run of one, "01" and four bits for a short run, "00" and a
\* varint for a long one.
EncodeRun(v, run) ==
    CASE run = 1  -> Push(v, 1)
      [] run > 1 /\ run < 16 -> Extend(Push(Push(v, 0), 1), run, 4, LSB0)
      [] run >= 16 -> FoldLeft(LAMBDA w, b : Extend(w, b, 8, LSB0),
                               Push(Push(v, 0), 0), PutUvarint(run))

EncodeRuns(lengths) ==
    Buf(FoldLeft(EncodeRun, Push(Extend(<<>>, Version, 2, LSB0), lengths.firstBit), lengths.runs),
        LSB0)
Encode(ints) == EncodeRuns(RunLengths(ints))

\* The varint of a long block, read byte by byte from the cursor.
RECURSIVE TakeUvarint(_, _)
TakeUvarint(v, cursor) ==
    LET b == Take(v, cursor, 8, LSB0)
    IN  IF b < 128 THEN <<b>> ELSE <<b>> \o TakeUvarint(v, cursor + 8)

\* One block at the cursor: the run it stands for and the bits it takes.
LongRun(buf) == [run |-> Uvarint(buf), bits |-> 2 + 8 * Len(buf), done |-> Uvarint(buf) = 0]
DecodeRun(v, cursor) ==
    IF Take(v, cursor, 1, LSB0) = 1 THEN [run |-> 1, bits |-> 1, done |-> FALSE]
    ELSE IF Take(v, cursor + 1, 1, LSB0) = 1
         THEN [run |-> Take(v, cursor + 2, 4, LSB0), bits |-> 6, done |-> FALSE]
         ELSE LongRun(TakeUvarint(v, cursor + 2))

\* The end is not stored: past the last byte the vector reads as zeroes,
\* which is a long block of length 0.
RECURSIVE DecodeRuns(_, _, _, _)
RunsFrom(block, v, cursor, curIdx, curBit) ==
    IF block.done THEN <<>>
    ELSE (IF curBit = 1 THEN [j \in 1..block.run |-> curIdx + j - 1] ELSE <<>>)
         \o DecodeRuns(v, cursor + block.bits, curIdx + block.run, 1 - curBit)
DecodeRuns(v, cursor, curIdx, curBit) ==
    RunsFrom(DecodeRun(v, cursor), v, cursor, curIdx, curBit)

Decode(buf) ==
    LET v == NewBitVector(buf, LSB0)
    IN  IF buf = <<>> THEN Ok(<<>>)
        ELSE IF Take(v, 0, 2, LSB0) # Version THEN Error
        ELSE Ok(DecodeRuns(v, 3, 0, Take(v, 2, 1, LSB0)))
============================================================================
