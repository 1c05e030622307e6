---------------------------- MODULE MessageWire ----------------------------
(***************************************************************************)
(* A message from the words of a request to the call of an actor method:   *)
(* the command parses a target address and an amount and encodes the       *)
(* parameters, the message is signed, marshalled, received, unmarshalled,  *)
(* verified and dispatched.  Next to it, the other values that travel as   *)
(* text or as bytes: addresses and amounts shown to a user, tipset keys,   *)
(* mined blocks, and archives of a chain.  Each behaviour takes one job    *)
(* from the node that makes it to the node that reads it.                  *)
(***************************************************************************)
EXTENDS Abi, Elections, ChainArchive

CONSTANTS
    Requests,   \* messages to send: [to, from, value, method, params]
    Methods,    \* method id -> [signature, implementation]
    Addresses,  \* addresses that are shown and typed back
    Amounts,    \* attoFIL amounts that are shown and typed back
    CidLists,   \* lists of cids that arrive as tipset keys
    Rounds,     \* elections: [chain, view, null, draw, now]
    Samplings,  \* samplings of a chain: [chain, height]
    BlockLists, \* blocks in the order they are checked for double mining
    Archives    \* stores and heads to export: [bs, head]

VARIABLES
    job,    \* what is being converted, never changes
    stage,  \* how far it is
    wire,   \* what travels
    result  \* what came out, once stage is "done"

vars == <<job, stage, wire, result>>

\* The fields of types.UnsignedMessage, in the order of the struct.
Fields == {"To", "From", "CallSeqNum", "Value", "Method", "Params", "GasPrice",
           "GasLimit"}

None == [outcome |-> "none"]

Init ==
    /\ job \in [kind : {"message"}, req : Requests]
               \cup [kind : {"address"}, addr : Addresses]
               \cup [kind : {"amount"}, z : Amounts]
               \cup [kind : {"key"}, cids : CidLists]
               \cup [kind : {"election"}, round : Rounds]
               \cup [kind : {"sample"}, of : Samplings]
               \cup [kind : {"check"}, blocks : BlockLists]
               \cup [kind : {"archive"}, source : Archives]
    /\ stage = "start"
    /\ wire = <<>>
    /\ result = None

----------------------------------------------------------------------------
(* Messages (types/message.go and types/signed_message.go).                *)

NewMeteredMessage(from, to, nonce, value, method, params, price, limit) ==
    [To |-> to, From |-> from, CallSeqNum |-> nonce, Value |-> value,
     Method |-> method, Params |-> params, GasPrice |-> price,
     GasLimit |-> limit]

\* Every field in its own encoding; the bytes of Params are an array already.
Marshal(msg) ==
    [To |-> msg.To, From |-> msg.From,
     CallSeqNum |-> FromUInt64(msg.CallSeqNum), Value |-> FromUInt64(msg.Value),
     Method |-> FromUInt64(msg.Method), Params |-> msg.Params,
     GasPrice |-> FromUInt64(msg.GasPrice), GasLimit |-> FromUInt64(msg.GasLimit)]

\* An address of one byte or of a wrong length fails the whole message.
Unmarshal(b) ==
    OnOk(NewFromBytes(b.To), LAMBDA to :
    OnOk(NewFromBytes(b.From), LAMBDA from :
         Ok([To |-> to, From |-> from,
             CallSeqNum |-> ToUInt64(b.CallSeqNum), Value |-> ToUInt64(b.Value),
             Method |-> ToUInt64(b.Method), Params |-> b.Params,
             GasPrice |-> ToUInt64(b.GasPrice), GasLimit |-> ToUInt64(b.GasLimit)])))

NewSignedMessage(msg) ==
    [Message |-> msg, Signature |-> SignBytes(Marshal(msg), msg.From)]

VerifySignature(smsg) ==
    IsValidSignature(Marshal(smsg.Message), smsg.Message.From, smsg.Signature)

MarshalSigned(smsg) ==
    [Message |-> Marshal(smsg.Message), Signature |-> smsg.Signature]

UnmarshalSigned(b) ==
    OnOk(Unmarshal(b.Message), LAMBDA msg : Ok([Message |-> msg, Signature |-> b.Signature]))

----------------------------------------------------------------------------
(* The steps of a message.                                                 *)

Finish(outcome) == /\ stage' = "done"
                   /\ result' = outcome
                   /\ UNCHANGED <<job, wire>>

\* The bytes of a request's message, when all its words parse.
Published(req) ==
    OnOk(NewFromString(req.to), LAMBDA target :
    OnOk(NewAttoFILFromFILString(req.value), LAMBDA value :
    OnOk(ToEncodedValues(req.params), LAMBDA params :
         Ok(MarshalSigned(NewSignedMessage(
              NewMeteredMessage(req.from, target, req.nonce, value, req.method, params, 1, 300)))))))

\* message send: parse the words, build and sign the message, publish its
\* bytes.  The first word that does not parse ends the command.
Send ==
    /\ job.kind = "message" /\ stage = "start"
    /\ \E bytes \in {Published(job.req)} :
           IF ~bytes.ok THEN Finish([outcome |-> "refused"])
           ELSE /\ wire' = bytes.val
                /\ stage' = "sent"
                /\ UNCHANGED <<job, result>>

\* The bytes of one field are not the ones that were signed: the field of
\* another message, or a damaged one.
Damage ==
    /\ job.kind = "message" /\ stage = "sent"
    /\ \/ \E f \in Fields \ {"Params"}, bytes \in {<<1>>, <<0, 5>>, <<1, 1, 2>>} :
             /\ bytes # wire.Message[f]
             /\ wire' = [wire EXCEPT !.Message[f] = bytes]
       \/ /\ wire.Message.Params # <<>>
          /\ wire' = [wire EXCEPT !.Message.Params = Front(@)]
    /\ stage' = "damaged"
    /\ UNCHANGED <<job, result>>

\* The topic's validator: what does not decode or verify goes no further.
Receive ==
    /\ job.kind = "message" /\ stage \in {"sent", "damaged"}
    /\ \E smsg \in {UnmarshalSigned(wire)} :
           IF ~smsg.ok THEN Finish([outcome |-> "undecodable"])
           ELSE IF ~VerifySignature(smsg.val) THEN Finish([outcome |-> "unverified"])
           ELSE stage' = "accepted" /\ UNCHANGED <<job, wire, result>>

\* Once mined: call the method that the message names on its actor.
Dispatch ==
    /\ job.kind = "message" /\ stage = "accepted"
    /\ \E m \in {UnmarshalSigned(wire).val.Message} :
           IF m.Method \notin DOMAIN Methods THEN Finish([outcome |-> "noexport"])
           ELSE Finish([call |-> makeTypedExport(Methods[m.Method].signature,
                                   Methods[m.Method].implementation, m.Params),
                        to |-> m.To, value |-> m.Value, outcome |-> "dispatched"])

----------------------------------------------------------------------------
(* Addresses and amounts shown and typed back, keys on the wire.           *)

ShowAddress ==
    /\ job.kind = "address" /\ stage = "start"
    /\ wire' = AddressString(job.addr)
    /\ stage' = "sent"
    /\ UNCHANGED <<job, result>>

\* One symbol of the text, or its protocol digit, is mistyped.
Mistype ==
    /\ job.kind = "address" /\ stage = "sent" /\ wire # UndefAddressString
    /\ \/ \E i \in DOMAIN wire.raw, c \in {0, 7, 10, 35} :
             c # wire.raw[i] /\ wire' = [wire EXCEPT !.raw[i] = c]
       \/ \E p \in 0..4 \ {wire.protocol} : wire' = [wire EXCEPT !.protocol = p]
       \/ wire' = [wire EXCEPT !.raw = Front(@)]
    /\ stage' = "damaged"
    /\ UNCHANGED <<job, result>>

TypeAddress ==
    /\ job.kind = "address" /\ stage \in {"sent", "damaged"}
    /\ Finish([addr |-> NewFromString(wire), outcome |-> "typed"])

ShowAmount ==
    /\ job.kind = "amount" /\ stage = "start"
    /\ wire' = AttoFILString(job.z)
    /\ stage' = "sent"
    /\ UNCHANGED <<job, result>>

TypeAmount ==
    /\ job.kind = "amount" /\ stage = "sent"
    /\ Finish([z |-> NewAttoFILFromFILString(wire), outcome |-> "typed"])

\* The cids of a key are unmarshalled, or parsed from JSON, the same way.
ReceiveKey ==
    /\ job.kind = "key" /\ stage = "start"
    /\ Finish([key |-> NewTipSetKeyFromUnique(job.cids), outcome |-> "key"])

----------------------------------------------------------------------------
(* A mined block, the faults of its miner, samples and archives.           *)

MinedIn(r, null) == Mine(r.chain, r.view, "miner", null, r.draw, r.now)

\* The worker publishes the block of a round it wins.
MineBlock ==
    /\ job.kind = "election" /\ stage = "start"
    /\ \E b \in {MinedIn(job.round, job.round.null)} :
           IF ~b.ok THEN Finish([outcome |-> "lost"])
           ELSE /\ wire' = b.val
                /\ stage' = "sent"
                /\ UNCHANGED <<job, result>>

\* Another header in its place: a field that is not what was mined, under
\* the old signature or signed again by the same worker.
AlterBlock ==
    /\ job.kind = "election" /\ stage = "sent"
    /\ \E other \in {[wire EXCEPT !.Height = @ + 1], [wire EXCEPT !.Timestamp = @ + 1],
                      [wire EXCEPT !.Messages = "other"],
                      [wire EXCEPT !.PoStSectorIDs = Tail(@)],
                      [wire EXCEPT !.PoStRandomness.data = Append(@, 1)],
                      [wire EXCEPT !.Ticket.data = Append(@, 1)]} :
          wire' \in {other, Sealed(SignatureData(other), job.round.view.worker)}
    /\ stage' = "damaged"
    /\ UNCHANGED <<job, result>>

\* The block topic's validator: what is not well formed, is early or is stamped
\* in another epoch goes no further.
ReceiveBlock ==
    /\ job.kind = "election" /\ stage \in {"sent", "damaged"}
    /\ IF ~ValidateSyntax(wire, job.round.now) THEN Finish([outcome |-> "rejected"])
       ELSE stage' = "accepted" /\ UNCHANGED <<job, wire, result>>

\* The syncer, told of the block, fetches it and validates it on its parent.
SyncBlock ==
    /\ job.kind = "election" /\ stage = "accepted"
    /\ LET r == job.round
           valid == /\ ValidateSemantic(wire, r.chain[1])
                    /\ validateMining(wire, r.chain, r.view, r.draw)
       IN  Finish([outcome |-> IF valid THEN "valid" ELSE "rejected"])

\* The randomness at a height, for a client and for a transition on the head.
Sample ==
    /\ job.kind = "sample" /\ stage = "start"
    /\ LET s == job.of
           ancestors == syncAncestors(s.chain, s.chain[1].height + 1)
       IN  Finish([client |-> SampleRandomness(s.chain, s.height),
                   actor |-> SampleChainRandomness(s.height, ancestors),
                   outcome |-> "sampled"])

\* The syncer hands the blocks of a valid tipset to the detector.
StartChecks ==
    /\ job.kind = "check" /\ stage = "start"
    /\ wire' = [checked |-> 0, index |-> <<>>, faults |-> {}]
    /\ stage' = "sent"
    /\ UNCHANGED <<job, result>>

CheckNextBlock ==
    /\ job.kind = "check" /\ stage = "sent"
    /\ IF wire.checked = Len(job.blocks) THEN Finish([outcome |-> "checked"])
       ELSE LET n == wire.checked + 1
                check == CheckBlock(wire.index, job.blocks[n])
            IN  /\ wire' = [checked |-> n, index |-> check.index,
                            faults |-> wire.faults \cup check.faults]
                /\ UNCHANGED <<job, stage, result>>

\* chain export, and the import of its archive into an empty store.
ExportChain ==
    /\ job.kind = "archive" /\ stage = "start"
    /\ \E archive \in {Export(job.source.bs, job.source.head)} :
           IF ~archive.ok THEN Finish([outcome |-> "refused"])
           ELSE /\ wire' = archive.val
                /\ stage' = "sent"
                /\ UNCHANGED <<job, result>>

ImportChain ==
    /\ job.kind = "archive" /\ stage = "sent"
    /\ Finish([copy |-> Import(<<>>, wire), outcome |-> "imported"])

Done == stage = "done" /\ UNCHANGED vars

Next == \/ Send \/ Damage \/ Receive \/ Dispatch
        \/ ShowAddress \/ Mistype \/ TypeAddress
        \/ ShowAmount \/ TypeAmount
        \/ ReceiveKey
        \/ MineBlock \/ AlterBlock \/ ReceiveBlock \/ SyncBlock
        \/ Sample \/ StartChecks \/ CheckNextBlock
        \/ ExportChain \/ ImportChain
        \/ Done

Spec == Init /\ [][Next]_vars

----------------------------------------------------------------------------
(* What the conversions promise.  A request says in "target" and "amount"  *)
(* what its words mean.                                                    *)

\* Whatever travels is made of bytes or of characters: addresses, numbers and
\* the run length encoded sets of sectors of a message, the text of an address.
TypeOK ==
    /\ stage \in {"start", "sent", "damaged", "accepted", "done"}
    /\ job.kind = "message" /\ stage \in {"sent", "damaged", "accepted"} =>
         /\ \A f \in Fields \ {"Params"} : wire.Message[f] \in Seq(Byte)
         /\ \A i \in DOMAIN wire.Message.Params :
               job.req.params[i].go \in {"types.IntSet", "types.FaultSet"} =>
                  wire.Message.Params[i].body \in Seq(Byte)
    /\ job.kind = "address" /\ stage \in {"sent", "damaged"} =>
         wire.raw \in Seq(0..35)

\* The value that an argument has when it arrives: a missing block height
\* arrives as height 0.
Arrives(param) == IF param.go = "*types.BlockHeight" /\ param.it = nil
                  THEN [param EXCEPT !.it = 0] ELSE param

\* A request fits a method that expects exactly the types of its parameters.
Fits(req) ==
    /\ req.method \in DOMAIN Methods
    /\ LET m == Methods[req.method]
       IN  /\ Len(m.signature) = Len(req.params)
           /\ \A i \in DOMAIN m.signature :
                 /\ typeTable[m.signature[i]] = req.params[i].go
                 /\ m.implementation[i] = req.params[i].go

\* What travels still reads as the message that was signed.
Intact == Unmarshal(wire.Message) = Unmarshal(Published(job.req).val.Message)

\* End to end, the method of the target is called with the arguments and the
\* value that the request's words mean, for every request that fits its
\* method; no other request, and no message that is not the signed one, makes
\* a call.
CalledAsRequested ==
    stage = "done" /\ job.kind = "message" /\ result.outcome # "refused" =>
        LET called == result.outcome = "dispatched" /\ result.call.outcome = "called"
        IN  /\ called <=> Intact /\ Fits(job.req)
            /\ called => /\ result.call.args =
                                [i \in DOMAIN job.req.params |->
                                    Arrives(job.req.params[i])]
                         /\ result.to = job.req.target
                         /\ result.value = job.req.amount

\* A message that differs from the signed one in any field is never
\* dispatched, whatever its parameters say.
DamagedIsNotDispatched ==
    stage = "done" /\ job.kind = "message" /\ result.outcome = "dispatched" => Intact

\* The text of an address reads back as that address, and a mistyped text is
\* refused or names the same address: it never names another one, except
\* that ID addresses carry no checksum.
AddressTextExact ==
    stage = "done" /\ job.kind = "address" =>
        LET typed == result.addr
        IN  /\ wire = AddressString(job.addr) => typed = Ok(job.addr)
            /\ typed.ok /\ wire.protocol # ID => typed.val = job.addr

\* The text of an amount of FIL reads back as the same number of attoFIL.
AmountTextExact ==
    stage = "done" /\ job.kind = "amount" => result.z = Ok(job.z)

\* A list of cids is a tipset key exactly when they are distinct; the key is
\* then the set of its cids, in whatever order they came: lookups, inclusion
\* and equality of keys are those of the sets.
KeyIsItsSet ==
    stage = "done" /\ job.kind = "key" =>
        LET cids == ToSet(job.cids)
            key  == result.key.val
        IN  /\ result.key.ok <=> Cardinality(cids) = Len(job.cids)
            /\ result.key.ok =>
                 \A list \in CidLists :
                    LET other == NewTipSetKey(list)
                    IN  /\ ContainsAll(key, other) <=> ToSet(list) \subseteq cids
                        /\ KeyEquals(key, other) <=> ToSet(list) = cids
                        /\ \A c \in ToSet(list) : Has(key, c) <=> c \in cids

\* A block mined in the epoch of its height is accepted by a node that has the
\* same chain.  Whatever is accepted is signed as a whole by the worker, and
\* its ticket, its randomness and its claim to each winning ticket are the
\* ones the chain fixes for its height: a worker can choose none of them.
AcceptedAsMined ==
    stage = "done" /\ job.kind = "election" /\ result.outcome # "lost" =>
        LET r == job.round
            mined == MinedIn(r, r.null).val
            fixed == MinedIn(r, wire.Height - r.chain[1].height - 1).val
            accepted == result.outcome = "valid"
        IN  /\ wire = mined /\ EpochAtTime(r.now) = mined.Height => accepted
            /\ accepted => /\ wire = Sealed(SignatureData(wire), r.view.worker)
                           /\ wire.PoStRandomness = fixed.PoStRandomness
                           /\ wire.Ticket = fixed.Ticket
                           /\ wire.PoStSectorIDs = fixed.PoStSectorIDs
                           /\ EpochAtTime(r.now) >= wire.Height

\* Sampling gives the ticket of the highest tipset at or below the height,
\* over any number of null rounds, and an actor that looks back at most the
\* ancestor rounds of a transition sees what every client sees.
SampleIsCanonical ==
    stage = "done" /\ job.kind = "sample" =>
        LET s == job.of
            low == {i \in DOMAIN s.chain : s.chain[i].height <= s.height}
        IN  /\ result.client = IF low = {} THEN Error
                               ELSE Ok(Min(s.chain[Min(low)].tickets))
            /\ s.height >= s.chain[1].height + 1 - AncestorRoundsNeeded =>
                  result.actor = result.client

\* Every block that shares an epoch with a different block its miner signed
\* before is reported when it is first checked, and only such pairs are.
DoubleMiningReported ==
    stage = "done" /\ job.kind = "check" =>
        LET blocks == job.blocks
            Clash(b, c) == /\ b.miner = c.miner /\ b.id # c.id
                           /\ b.parent < c.height /\ c.parent < b.height
        IN  /\ \A i \in DOMAIN blocks :
                  /\ \A k \in 1..i - 1 : blocks[k].id # blocks[i].id
                  /\ \E k \in 1..i - 1 : Clash(blocks[i], blocks[k])
                  => \E f \in wire.faults : f[1] = blocks[i]
            /\ \A f \in wire.faults : Clash(f[1], f[2])

\* What can be read of a chain from a store.
Readable(bs, head) ==
    LET tips == IterAncestors(bs, head)
    IN  [i \in DOMAIN tips |->
            {[block |-> b, msgs |-> LoadMessages(bs, b.messages),
              receipts |-> LoadReceipts(bs, b.receipts),
              state |-> IF b.height = 0 THEN collectState(bs, b.state) ELSE Error] :
                b \in tips[i]}]

\* Everything that could be read of the chain in the store it was exported
\* from can be read from a store its archive was imported into, down to the
\* messages, the receipts and the genesis state; a chain of which a message,
\* a receipt or a state node is missing is not exported.
ArchiveIsComplete ==
    stage = "done" /\ job.kind = "archive" =>
        LET source == Readable(job.source.bs, job.source.head)
            whole == /\ source # <<>>
                     /\ \A i \in DOMAIN source : \A x \in source[i] :
                           /\ x.msgs.ok /\ x.receipts.ok
                           /\ x.block.height = 0 => x.state.ok
        IN  /\ result.outcome = "imported" <=> whole
            /\ whole => Readable(result.copy.bs, result.copy.head) = source

\* What is dispatched is what was signed, and the call it makes is the one the
\* request asked for, through encoding, gossip, validation and decoding; what
\* is accepted as a block is what an elected worker signed.
DispatchedAsSigned == CalledAsRequested /\ DamagedIsNotDispatched /\ AcceptedAsMined

\* What is written reads back: bytes are bytes, the texts of addresses and
\* amounts and the keys of tipsets stand for the values they were made from,
\* an archive for its chain, samples for the chain's tickets, and the fault
\* detector's index for the blocks it was shown.
ReadBackExact == /\ TypeOK /\ AddressTextExact /\ AmountTextExact /\ KeyIsItsSet
                 /\ SampleIsCanonical /\ DoubleMiningReported /\ ArchiveIsComplete
============================================================================
