--------------------------- MODULE MCMessageWire ---------------------------
(* Inputs of MessageWire: one or more parameters of every ABI type, the    *)
(* sector sets at the boundaries of the run length encoding, addresses of  *)
(* every protocol, amounts around the decimal point, short lists of cids.  *)
EXTENDS MessageWire

\* Runs of 1, 15, 16, 17, 127 and more than 128 zeroes or ones.
MCSectorSets ==
    {base \cup tail : base \in SUBSET {0, 1, 3, 19, 36},
                      tail \in {{}, 4..18, 4..19, 20..36, {164}, {165, 293}}}

MCSender == <<SECP256K1, 9, 8>>
MCTarget == <<Actor, 4, 200>>

MCRequest(method, params) ==
    [to |-> AddressString(MCTarget), target |-> MCTarget, from |-> MCSender,
     value |-> <<1, Dot, 5>>, amount |-> 150, nonce |-> 200,
     method |-> method, params |-> params]

MCParams ==
    {<<Go("types.IntSet", s)>> : s \in MCSectorSets}
    \cup {<<Go("uint64", n), Go("types.AttoFIL", z)>> : n, z \in {0, 127, 128, 300}}
    \cup {<<Go("address.Address", a), Go("*types.BlockHeight", h)>> :
             a \in {Undef, NewIDAddress(300).val, MCTarget}, h \in {nil, 0, 128}}
    \cup {<<>>, <<Go("int", 5)>>}

MCSignature(params) ==
    CASE params = <<>> -> 0
      [] Len(params) = 1 -> IF params[1].go = "types.IntSet" THEN 1 ELSE 9
      [] Len(params) = 2 -> IF params[1].go = "uint64" THEN 2 ELSE 3

\* Every value with its own method and with methods of other signatures: too
\* many parameters, too few, and none of that number.
MCRequests ==
    {MCRequest(MCSignature(p), p) : p \in MCParams}
    \cup {MCRequest(m, p) : m \in {0, 2, 4, 7, 9},
                            p \in {<<>>, <<Go("types.IntSet", {3})>>}}
    \cup {MCRequest(5, <<Go("*big.Int", 70000), Go("bool", TRUE),
                         Go("types.FaultSet", {1, 17}),
                         Go("[]types.Uint64", <<1, 2>>),
                         Go("types.ProofsMode", 1), Go("types.PoStProof", <<7>>),
                         Go("string", <<10, 11>>)>>)}
    \cup {[MCRequest(0, <<>>) EXCEPT !.value = v] :
             v \in {<<1, Dot, Dot>>, <<1, Dot, 2, 3, 4>>, <<1, Minus>>}}
    \cup {[MCRequest(0, <<>>) EXCEPT !.to.raw = Front(@)]}

MCMethod(types) == [signature |-> types,
                    implementation |-> [i \in DOMAIN types |-> typeTable[types[i]]]]

MCMethods ==
    0 :> MCMethod(<<>>)
    @@ 1 :> MCMethod(<<"IntSet">>)
    @@ 2 :> MCMethod(<<"SectorID", "AttoFIL">>)
    @@ 3 :> MCMethod(<<"Address", "BlockHeight">>)
    @@ 4 :> [MCMethod(<<"IntSet">>) EXCEPT !.implementation = <<"uint64">>]
    @@ 5 :> MCMethod(<<"Integer", "Boolean", "FaultSet", "UintArray",
                       "ProofsMode", "PoStProof", "String">>)

MCAddresses ==
    {Undef, NewIDAddress(0).val, NewIDAddress(99).val, NewIDAddress(300).val}
    \cup {<<p, x, y>> : p \in {SECP256K1, Actor}, x \in {0, 131}, y \in {5, 255}}
    \cup {<<BLS, 1, 2, 250>>}

MCAmounts == -250..250

MCCidLists == UNION {[1..n -> 1..4] : n \in 0..4}

\* Chains with every pattern of null rounds up to height 5, and their tickets.
MCChain(heights) ==
    LET down == SetToSortSeq(heights, >)
    IN  [i \in DOMAIN down |-> [height |-> down[i],
                                tickets |-> {10 - down[i], 20 + down[i]}]]

MCChains == {MCChain({0} \cup hs) : hs \in SUBSET (1..5)}

\* One to three sectors that draw every number, in networks in which one
\* winning draw is rare, likely or certain; blocks stamped in their epoch, an
\* epoch early and late, in seconds that two epochs share.
MCView(sectors, power) ==
    [worker |-> MCSender, sectors |-> sectors, size |-> 1, power |-> power,
     weight |-> 7, stateRoot |-> "state", receipts |-> "receipts",
     messages |-> "messages", aggregate |-> "aggregate"]

MCRounds ==
    {[chain |-> MCChain(hs), view |-> MCView(1..n, power), null |-> null,
      draw |-> draw, now |-> (Max(hs) + null + 1) * EpochDuration + late] :
        hs \in {{0}, {0, 2, 3}}, n \in 1..3, power \in {2, 4, 8},
        null \in {0, 1, 130}, draw \in [1..3 -> 0..3], late \in {-1, 0, 2}}

MCSamplings == [chain : MCChains, height : -1..6]

\* Blocks of two miners that cover one epoch or several.
MCBlockSet ==
    {[id |-> 1, miner |-> "a", height |-> 1, parent |-> 0],
     [id |-> 2, miner |-> "a", height |-> 2, parent |-> 1],
     [id |-> 3, miner |-> "a", height |-> 2, parent |-> 0],
     [id |-> 4, miner |-> "a", height |-> 3, parent |-> 1],
     [id |-> 5, miner |-> "b", height |-> 2, parent |-> 0]}

MCBlockLists == UNION {[1..n -> MCBlockSet] : n \in 1..4}

\* A chain of three tipsets, the middle one of two blocks that share messages,
\* and its store with nothing or any one value missing.
MCState == LET leaf == [node |-> "leaf", links |-> <<>>]
               left == [node |-> "left", links |-> <<leaf>>]
           IN  [node |-> "root", links |-> <<left, leaf>>]

MCHeader(name, height, parents, secp, bls, receipts) ==
    [hdr |-> name, height |-> height, parents |-> parents,
     messages |-> [secp |-> AMTOf(secp), bls |-> AMTOf(bls)],
     receipts |-> AMTOf(receipts), state |-> MCState]

MCGenesis == MCHeader("g", 0, {}, <<>>, <<>>, <<>>)
MCMiddle(secp, bls) == {MCHeader("a", 1, {MCGenesis}, secp, <<"m">>, <<>>),
                        MCHeader("b", 1, {MCGenesis}, <<"m", "n">>, bls, <<"r">>)}
MCHead(secp, bls) == {MCHeader("c", 3, MCMiddle(secp, bls), bls, secp, <<"r", "s">>)}

MCStored(blocks) ==
    LET Items(amt) == [i \in DOMAIN amt.amt |-> amt.amt[i].item]
        StoreOne(bs, b) ==
            LET msgs == StoreMessages(bs, Items(b.messages.secp), Items(b.messages.bls))
            IN  Append(StoreReceipts(msgs.bs, Items(b.receipts)).bs, b)
    IN  FoldLeft(StoreOne, collectState(<<MCState, MCState.links[1], MCState.links[2]>>,
                                        MCState).val,
                 SetToSeq(blocks))

MCArchives ==
    UNION {LET mid  == MCMiddle(secp, bls)
               head == MCHead(secp, bls)
               full == MCStored({MCGenesis} \cup mid \cup head)
           IN  {[bs |-> full, head |-> head]}
               \cup {[bs |-> SelectSeq(full, LAMBDA v : v # missing), head |-> head] :
                        missing \in ToSet(full)} :
           secp, bls \in {<<>>, <<"m">>, <<"n", "p">>}}
============================================================================
