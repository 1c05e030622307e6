---------------------------- MODULE ChainArchive ----------------------------
(***************************************************************************)
(* The content-addressed store of messages and receipts, and the export of *)
(* a chain to an archive that another repository imports.                  *)
(*                                                                         *)
(* The content id of a value is the value itself, so a store is the        *)
(* sequence of the values put into it and an id is found when it was put:  *)
(*   [item]                 a message or a receipt                         *)
(*   [amt]                  an AMT root: the sequence of its ids           *)
(*   [node, links]          a node of a state tree                         *)
(*   [hdr, height, parents, messages, receipts, state]    a block          *)
(* where messages is [secp, bls], two AMT roots.                           *)
(***************************************************************************)
EXTENDS Identifiers

\* blockstore.Has, Get and Put.
Stored(bs, id) == id \in ToSet(bs)
Put(bs, value) == Append(bs, value)

\* makeBlock: the id of what is stored.
makeBlock(obj) == [item |-> obj]

storeBlock(bs, obj) == Put(bs, makeBlock(obj))

\* Unsigned messages, signed messages and receipts are stored alike.
storeItems(bs, objs) == FoldLeft(storeBlock, bs, objs)

\* The AMT of the ids of a sequence of objects.
AMTOf(objs) == [amt |-> [i \in DOMAIN objs |-> makeBlock(objs[i])]]
storeAMTCids(bs, objs) == Put(bs, AMTOf(objs))

StoreMessages(bs, secp, bls) ==
    LET withSecp == storeAMTCids(storeItems(bs, secp), secp)
    IN  [bs   |-> storeAMTCids(storeItems(withSecp, bls), bls),
         meta |-> [secp |-> AMTOf(secp), bls |-> AMTOf(bls)]]

StoreReceipts(bs, receipts) ==
    [bs |-> storeAMTCids(storeItems(bs, receipts), receipts),
     root |-> AMTOf(receipts)]

\* The objects of an AMT, when its root and all of them are stored.
loadAMTCids(bs, root) == IF Stored(bs, root) THEN Ok(root.amt) ELSE Error

loadItems(bs, root) ==
    OnOk(loadAMTCids(bs, root), LAMBDA ids :
         IF \E i \in DOMAIN ids : ~Stored(bs, ids[i]) THEN Error
         ELSE Ok([i \in DOMAIN ids |-> ids[i].item]))

LoadMessages(bs, meta) ==
    OnOk(loadItems(bs, meta.secp), LAMBDA secp :
    OnOk(loadItems(bs, meta.bls), LAMBDA bls : Ok([secp |-> secp, bls |-> bls])))

LoadReceipts(bs, root) == loadItems(bs, root)

----------------------------------------------------------------------------
(* The blocks and the state of a chain.  A tipset key is a set of blocks.  *)

LoadTipSetBlocks(bs, key) ==
    IF key # {} /\ \A b \in key : Stored(bs, b) THEN Ok(key) ELSE Error

\* The tipsets from key back to genesis.  The loops over this iterator look
\* at its error only while it is not complete, and a tipset that fails to
\* load completes it: the walk then ends there as it ends at genesis.
RECURSIVE IterAncestors(_, _)
IterAncestors(bs, key) ==
    IF ~LoadTipSetBlocks(bs, key).ok THEN <<>>
    ELSE <<key>> \o IterAncestors(bs, (CHOOSE b \in key : TRUE).parents)

\* The nodes below and including a state root, depth first.
RECURSIVE collectState(_, _)
collectState(bs, root) ==
    IF ~Stored(bs, root) THEN Error
    ELSE OnOk(AllOk([i \in DOMAIN root.links |-> collectState(bs, root.links[i])]), LAMBDA below :
              Ok(<<root>> \o FlattenSeq(below)))

----------------------------------------------------------------------------
(* Archives: [roots, body].  An export in progress is [body, written] or   *)
(* an error, written being the ids that are not written a second time.     *)

Write(x, id, values) ==
    IF id \in x.written THEN x
    ELSE [x EXCEPT !.body = @ \o values, !.written = @ \cup {id}]

\* What writing an AMT of messages or receipts and its items appends.
exportAMT(objs) == storeAMTCids(storeItems(<<>>, objs), objs)

\* One block: its header, its messages, its receipts and, for genesis, its
\* state tree.
WithParts(x, b, msgs, receipts) ==
    Write(Write(Write(Write(x, b, <<b>>),
                      b.messages.secp, exportAMT(msgs.secp)),
                b.messages.bls, exportAMT(msgs.bls)),
          b.receipts, exportAMT(receipts))

exportBlock(bs, export, b) ==
    OnOk(export, LAMBDA x :
    OnOk(LoadMessages(bs, b.messages), LAMBDA msgs :
    OnOk(LoadReceipts(bs, b.receipts), LAMBDA receipts :
    OnOk(IF b.height = 0 THEN collectState(bs, b.state) ELSE Ok(<<>>), LAMBDA state :
         Ok([WithParts(x, b, msgs, receipts) EXCEPT !.body = @ \o state])))))

Export(bs, head) ==
    LET BlocksOf(tips) == FlattenSeq([i \in DOMAIN tips |-> SetToSeq(tips[i])])
        Step(export, b) == exportBlock(bs, export, b)
    IN  OnOk(LoadTipSetBlocks(bs, head), LAMBDA key :
        OnOk(FoldLeft(Step, Ok([body |-> <<>>, written |-> {}]), BlocksOf(IterAncestors(bs, key))),
             LAMBDA done : Ok([roots |-> head, body |-> done.body])))

\* Everything in the archive is put into the store, and its roots are the head.
Import(bs, archive) == [bs |-> bs \o archive.body, head |-> archive.roots]
=============================================================================
