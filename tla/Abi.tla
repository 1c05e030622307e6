-------------------------------- MODULE Abi --------------------------------
(***************************************************************************)
(* The parameters of actor methods (vm/abi and vmcontext/export.go).  A Go *)
(* value is [go |-> its Go type, it |-> its value]; an ABI value pairs    *)
(* one with an ABI type.  Bytes are sequences of numbers in 0..255.  What  *)
(* encoding.Encode makes of a structure is that structure, boxed by Cbor,  *)
(* with every part that has an encoding of its own (IntSet) so encoded.    *)
(***************************************************************************)
EXTENDS Identifiers

Go(type, value) == [go |-> type, it |-> value]

\* encoding.Encode and encoding.Decode over CBOR; Decode fails on bytes that
\* do not hold the wanted shape.
Cbor(shape, value) == [cbor |-> shape, body |-> value]

\* The ABI type of every supported Go type.
typeTable ==
    [Address |-> "address.Address", AttoFIL |-> "types.AttoFIL",
     Bytes |-> "[]byte", BytesAmount |-> "*types.BytesAmount",
     ChannelID |-> "*types.ChannelID", Cid |-> "cid.Cid",
     BlockHeight |-> "*types.BlockHeight", Integer |-> "*big.Int",
     String |-> "string", UintArray |-> "[]types.Uint64",
     PeerID |-> "peer.ID", SectorID |-> "uint64",
     CommitmentsMap |-> "map[string]types.Commitments", Boolean |-> "bool",
     ProofsMode |-> "types.ProofsMode", PoRepProof |-> "types.PoRepProof",
     PoStProof |-> "types.PoStProof", Predicate |-> "*types.Predicate",
     Parameters |-> "[]interface{}", IntSet |-> "types.IntSet",
     MinerPoStStates |-> "*map[string]uint64", FaultSet |-> "types.FaultSet",
     PowerReport |-> "types.PowerReport", FaultReport |-> "types.FaultReport"]

Type == DOMAIN typeTable

TypeMatches(t, go) == t \in Type /\ typeTable[t] = go

\* The value that a missing block height is, which Serialize sends as no
\* bytes at all.
nil == -1

\* Numbers in leb128, text and proofs as their own bytes, the magnitude of an
\* integer high byte first, flags in one byte.
Numbers == {"AttoFIL", "BytesAmount", "ChannelID", "BlockHeight"}
RawBytes == {"Cid", "Bytes", "String"}
RawProofs == {"PeerID", "PoRepProof", "PoStProof"}
Structures == {"UintArray", "CommitmentsMap", "Predicate", "Parameters",
               "MinerPoStStates", "PowerReport", "FaultReport"}

RECURSIVE BigBytes(_)
BigBytes(n) == IF n = 0 THEN <<>> ELSE Append(BigBytes(n \div 256), n % 256)
SetBytes(buf) == FoldLeft(LAMBDA n, b : 256 * n + b, 0, buf)
Abs(n) == IF n < 0 THEN -n ELSE n

\* IntSet.Values: the members in increasing order.
RECURSIVE Values(_)
Values(is) == IF is = {} THEN <<>> ELSE <<Min(is)>> \o Values(is \ {Min(is)})

----------------------------------------------------------------------------
(* Serialize, in the order of its switch: first the scalar types, then the *)
(* rest.  A value whose Go type is not the one of its ABI type is an error. *)

SerializeScalar(t, v) ==
    CASE t = "Address" -> v
      [] t \in Numbers -> IF v = nil THEN <<>> ELSE FromUInt64(v)
      [] t = "Integer" -> BigBytes(Abs(v))
      [] t \in RawBytes -> v

SerializeRest(t, v) ==
    CASE t = "SectorID" -> FromUInt64(v)
      [] t = "Boolean" -> <<IF v THEN 1 ELSE 0>>
      [] t = "ProofsMode" -> <<v % 256>>
      [] t \in RawProofs -> v
      [] t \in Structures -> Cbor(t, v)
      [] t \in {"IntSet", "FaultSet"} -> Cbor(t, Encode(Values(v)))

Scalars == {"Address", "Integer"} \cup Numbers \cup RawBytes

Serialize(av) ==
    IF av.Type \notin Type \/ typeTable[av.Type] # av.Val.go THEN Error
    ELSE Ok(IF av.Type \in Scalars THEN SerializeScalar(av.Type, av.Val.it)
            ELSE SerializeRest(av.Type, av.Val.it))

\* The ABI type of each Go value; a Go type with none is an error.
ToValues(params) ==
    IF \E i \in DOMAIN params : params[i].go \notin Range(typeTable) THEN Error
    ELSE Ok([i \in DOMAIN params |->
               [Type |-> CHOOSE t \in Type : typeTable[t] = params[i].go,
                Val  |-> params[i]]])

FromValues(vals) == [i \in DOMAIN vals |-> vals[i].Val]

DecodeCbor(data, shape) ==
    IF data.cbor = shape THEN Ok(data.body) ELSE Error

\* A block height of no bytes is 0; other numbers of no bytes do not occur,
\* since Serialize writes at least one.
DeserializeScalar(data, t) ==
    CASE t = "Address" -> NewFromBytes(data)
      [] t \in Numbers -> Ok(IF data = <<>> THEN 0 ELSE ToUInt64(data))
      [] t = "Integer" -> Ok(SetBytes(data))
      [] t \in RawBytes -> Ok(data)

DeserializeRest(data, t) ==
    CASE t = "SectorID" -> Ok(ToUInt64(data))
      [] t = "Boolean" -> Ok(data[1] = 1)
      [] t = "ProofsMode" -> Ok(data[1])
      [] t \in RawProofs -> Ok(data)
      [] t \in Structures -> DecodeCbor(data, t)
      [] t \in {"IntSet", "FaultSet"} ->
            OnOk(DecodeCbor(data, t), LAMBDA body :
            OnOk(Decode(body), LAMBDA ints : Ok(ToSet(ints))))

Deserialize(data, t) ==
    IF t \notin Type THEN Error
    ELSE OnOk(IF t \in Scalars THEN DeserializeScalar(data, t) ELSE DeserializeRest(data, t),
              LAMBDA v : Ok([Type |-> t, Val |-> Go(typeTable[t], v)]))

----------------------------------------------------------------------------
(* Lists of values (vm/abi/encode.go).                                     *)

\* No values are no bytes; otherwise an array of byte strings.
EncodeValues(vals) ==
    IF vals = <<>> THEN Ok(<<>>) ELSE AllOk([i \in DOMAIN vals |-> Serialize(vals[i])])

DecodeValues(data, types) ==
    IF types # <<>> /\ data = <<>> THEN Error
    ELSE IF data = <<>> THEN Ok(<<>>)
    ELSE IF Len(data) # Len(types) THEN Error
    ELSE AllOk([i \in DOMAIN data |-> Deserialize(data[i], types[i])])

ToEncodedValues(params) == OnOk(ToValues(params), EncodeValues)

\* What makeTypedExport hands to the implementation of a method with this
\* signature: the arguments, or the revert error of bad parameters.  An
\* implementation whose Go types do not match the signature panics when the
\* export is made, so it is never called.
CallWith(decoded) ==
    IF ~decoded.ok THEN [outcome |-> "revert"]
    ELSE [outcome |-> "called", args |-> FromValues(decoded.val)]
makeTypedExport(signature, implementation, params) ==
    IF \/ Len(implementation) # Len(signature)
       \/ \E i \in DOMAIN signature : ~TypeMatches(signature[i], implementation[i])
    THEN [outcome |-> "panic"]
    ELSE CallWith(DecodeValues(params, signature))
============================================================================
