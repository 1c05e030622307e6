---------------------------- MODULE Identifiers ----------------------------
(***************************************************************************)
(* The names of things and their written forms: addresses as bytes and as  *)
(* checksummed text (vm/address), FIL amounts as decimal text              *)
(* (types/atto_fil.go) and tipset keys (block/tipset_key.go).              *)
(*                                                                         *)
(* Text is a sequence of characters, written as numbers: the digits are    *)
(* 0..9, the letters 10..35, and Dot and Minus come after them.  The       *)
(* lengths of hashes and keys are constants, so that a check can use short *)
(* ones.                                                                   *)
(***************************************************************************)
EXTENDS RLEPlus, FiniteSets, FiniteSetsExt

CONSTANTS
    PayloadHashLength,    \* 20
    PublicKeyBytes,       \* 48, of a BLS key
    ChecksumHashLength,   \* 4
    MaxAddressStringLength,
    AttoPower             \* 18

ASSUME LengthsAssumption ==
    /\ PayloadHashLength \in Nat \ {0}
    /\ PublicKeyBytes \in Nat \ {0}
    /\ ChecksumHashLength \in Nat \ {0}
    /\ MaxAddressStringLength \in Nat
    /\ AttoPower \in Nat

\* A conversion that panics ends its request like an error.
Panic == [ok |-> FALSE, panic |-> TRUE]

Dot == 36
Minus == 37
IsNumber(text) == text # <<>> /\ \A i \in DOMAIN text : text[i] <= 9

----------------------------------------------------------------------------
(* go-leb128, as src/ uses it: unsigned numbers, seven bits to a byte.     *)

FromUInt64(n) == PutUvarint(n)
ToUInt64(buf) == Uvarint(buf)

----------------------------------------------------------------------------
(* Addresses: a protocol byte and a payload, or the empty Undef.           *)

ID == 0
SECP256K1 == 1
Actor == 2
BLS == 3

Undef == <<>>
Protocol(a) == a[1]
Payload(a) == Tail(a)

newAddress(protocol, payload) ==
    IF \/ protocol = ID
       \/ protocol \in {SECP256K1, Actor} /\ Len(payload) = PayloadHashLength
       \/ protocol = BLS /\ Len(payload) = PublicKeyBytes
    THEN Ok(<<protocol>> \o payload)
    ELSE Error

NewIDAddress(id) == newAddress(ID, FromUInt64(id))

NewFromBytes(bytes) == CASE Len(bytes) = 0 -> Ok(Undef)
                         [] Len(bytes) = 1 -> Error
                         [] OTHER -> newAddress(bytes[1], Tail(bytes))

\* blake2b, reduced to a digest that tells apart any two inputs that differ
\* in one byte.
Hash(ingest, size) ==
    LET sum == FoldLeft(LAMBDA acc, i : (acc * 7 + ingest[i] + 1) % 251, 3,
                        [i \in 1..Len(ingest) |-> i])
    IN  [i \in 1..size |-> (sum * i) % 251]

Checksum(ingest) == Hash(ingest, ChecksumHashLength)
ValidateChecksum(ingest, expect) == Checksum(ingest) = expect

\* The alphabet "abcdefghijklmnopqrstuvwxyz234567".
AddressEncoding == [s \in 0..31 |-> IF s < 26 THEN s + 10 ELSE s - 24]

\* encoding/base32 without padding: five bits to a symbol, high bits first.
Base32(bytes) ==
    LET v == NewBitVector(bytes, MSB0)
    IN  [i \in 1..((v.Len + 4) \div 5) |->
           AddressEncoding[Take(v, 5 * (i - 1), 5, MSB0) \div 8]]

FromBase32(text) ==
    LET symbol(c) == CHOOSE s \in 0..31 : AddressEncoding[s] = c
        bits == FoldLeft(LAMBDA w, c : Extend(w, 8 * symbol(c), 5, MSB0), <<>>, text)
    IN  IF \E i \in DOMAIN text : text[i] \notin Range(AddressEncoding) THEN Error
        ELSE Ok(SubSeq(Buf(bits, MSB0), 1, Len(bits) \div 8))

\* strconv: the decimal digits of a number and back.
RECURSIVE Digits(_)
Digits(n) == IF n < 10 THEN <<n>> ELSE Append(Digits(n \div 10), n % 10)
NumberOf(digits) == FoldLeft(LAMBDA n, d : 10 * n + d, 0, digits)

\* The text of an address: network prefix, protocol digit and the rest; the
\* text of Undef has its own word.
UndefAddressString == [prefix |-> "empty", protocol |-> 0, raw |-> <<>>]

AddressString(a) ==
    IF a = Undef THEN UndefAddressString
    ELSE [prefix |-> "t", protocol |-> Protocol(a),
          raw |-> IF Protocol(a) = ID THEN Digits(ToUInt64(Payload(a)))
                  ELSE Base32(Payload(a) \o Checksum(a))]

\* What follows the protocol digit of an ID address: any decimal number.
decodeID(raw) == IF IsNumber(raw) THEN newAddress(ID, FromUInt64(NumberOf(raw)))
                 ELSE Error

\* The checksum is cut off but never compared.
decodeChecksummedMutant(protocol, raw) ==
    OnOk(FromBase32(raw), LAMBDA bytes :
         IF Len(bytes) < ChecksumHashLength THEN Error
         ELSE newAddress(protocol, SubSeq(bytes, 1, Len(bytes) - ChecksumHashLength)))

\* Payload and checksum of the other protocols.  Fewer bytes than a checksum
\* are cut at a negative index, which panics.
decodeChecksummed(protocol, raw) ==
    OnOk(FromBase32(raw), LAMBDA bytes :
    LET split   == Len(bytes) - ChecksumHashLength
        payload == SubSeq(bytes, 1, split)
        cksm    == SubSeq(bytes, split + 1, Len(bytes))
    IN  IF split < 0 THEN Panic
        ELSE IF \/ /\ protocol \in {SECP256K1, Actor}
                   /\ Len(payload) # PayloadHashLength
                \/ ~ValidateChecksum(<<protocol>> \o payload, cksm)
             THEN Error
        ELSE newAddress(protocol, payload))

NewFromString(text) ==
    IF text = UndefAddressString THEN Ok(Undef)
    ELSE IF \/ 2 + Len(text.raw) > MaxAddressStringLength
            \/ 2 + Len(text.raw) < 3
            \/ text.prefix \notin {"f", "t"}
            \/ text.protocol \notin {ID, SECP256K1, Actor, BLS}
         THEN Error
    ELSE IF text.protocol = ID THEN decodeID(text.raw)
    ELSE decodeChecksummed(text.protocol, text.raw)

----------------------------------------------------------------------------
(* FIL amounts as text.                                                    *)

\* big.Int.SetString: an optional sign and at least one digit.
SetString(text) ==
    LET negative == text # <<>> /\ text[1] = Minus
        digits   == IF negative THEN Tail(text) ELSE text
    IN  IF ~IsNumber(digits) THEN Error
        ELSE Ok(IF negative THEN -NumberOf(digits) ELSE NumberOf(digits))

Zeroes(n) == [i \in 1..n |-> 0]

\* A part after a second dot, or too many decimals, is an error; missing
\* decimals are zeroes.
NewAttoFILFromFILString(text) ==
    LET dots == SetToSortSeq({i \in DOMAIN text : text[i] = Dot}, <)
        cut  == IF dots = <<>> THEN Len(text) + 1 ELSE dots[1]
        intPart == SubSeq(text, 1, cut - 1)
        decPart == SubSeq(text, cut + 1, Len(text))
    IN  IF Len(dots) > 1 \/ Len(decPart) > AttoPower THEN Error
        ELSE SetString(intPart \o decPart \o Zeroes(AttoPower - Len(decPart)))

RECURSIVE TrimRight(_, _)
TrimRight(text, c) ==
    IF text # <<>> /\ Last(text) = c THEN TrimRight(Front(text), c) ELSE text

\* %0*d pads after the sign, and the sign counts in the width.
AttoFILString(z) ==
    LET sign    == IF z < 0 THEN <<Minus>> ELSE <<>>
        digits  == Digits(IF z < 0 THEN -z ELSE z)
        missing == AttoPower + 1 - Len(sign) - Len(digits)
        padded  == sign \o Zeroes(IF missing > 0 THEN missing ELSE 0) \o digits
        cut     == Len(padded) - AttoPower
    IN  TrimRight(TrimRight(SubSeq(padded, 1, cut) \o <<Dot>>
                              \o SubSeq(padded, cut + 1, Len(padded)), 0), Dot)

----------------------------------------------------------------------------
(* Tipset keys: a sorted sequence of distinct cids; a cid is its key       *)
(* string, a number here.                                                  *)

\* Sort, then keep each cid that differs from the one kept before it.
uniq(cids) ==
    FoldLeft(LAMBDA kept, c : IF kept # <<>> /\ Last(kept) = c THEN kept
                              ELSE Append(kept, c),
             <<>>, SortSeq(cids, <))

NewTipSetKey(ids) == uniq(ids)

NewTipSetKeyFromUnique(ids) ==
    LET s == NewTipSetKey(ids) IN IF Len(s) # Len(ids) THEN Error ELSE Ok(s)

\* The first element that is not smaller, as the binary search finds it.
Has(s, id) ==
    LET idx == Min({i \in 1..(Len(s) + 1) : i > Len(s) \/ s[i] >= id})
    IN  idx <= Len(s) /\ s[idx] = id

KeyEquals(s, other) ==
    Len(s) = Len(other) /\ \A i \in DOMAIN s : s[i] = other[i]

\* One pass over s, advancing in other at every match.
ContainsAll(s, other) ==
    FoldLeft(LAMBDA idx, c : IF idx < Len(other) /\ c = other[idx + 1]
                             THEN idx + 1 ELSE idx,
             0, s) = Len(other)

----------------------------------------------------------------------------
(* Signatures (types/signature.go), of messages and of block headers.      *)

\* An ideal signature: it names the signer and the bytes it covers.
SignBytes(data, addr) == [signer |-> addr, data |-> data]

\* Only key addresses sign.
IsValidSignature(data, addr, sig) ==
    /\ addr # Undef
    /\ Protocol(addr) \in {SECP256K1, BLS}
    /\ sig = SignBytes(data, addr)
============================================================================
