----------------------------- MODULE Elections -----------------------------
(***************************************************************************)
(* Mining an elected block and validating it.  A worker samples tickets    *)
(* from the chain, draws election candidates from its sectors and signs a  *)
(* header around the winners; every node samples the same tickets again    *)
(* and checks the header against them.  Next to it: sampling the chain for *)
(* actors and clients, the epochs of the chain clock, and the detector of  *)
(* miners that sign two blocks for one epoch.                              *)
(*                                                                         *)
(* A chain is a sequence of tipsets [height, tickets], head first and      *)
(* genesis last, with gaps in the heights where rounds had no block.       *)
(***************************************************************************)
EXTENDS Identifiers

CONSTANTS
    ChallengeBits,            \* challengeBits: 256
    ExpectedLeadersPerEpoch,  \* expectedLeadersPerEpoch: 5
    SectorChallengeRatioDiv,  \* sectors per candidate ticket: 25
    ElectionLookback,         \* tipsets back to the election ticket: 1
    AncestorRoundsNeeded,     \* rounds of ancestors a transition may look at
    TicksPerSecond,           \* the clock is finer than block timestamps
    EpochDuration             \* in ticks

----------------------------------------------------------------------------
(* Looking back along the chain.                                           *)

MinTicket(ts) == Min(ts.tickets)

\* Down to and including the first tipset at or below minHeight.
CollectTipSetsPastHeight(chain, minHeight) ==
    LET past == {i \in DOMAIN chain : chain[i].height <= minHeight}
    IN  IF past = {} THEN chain ELSE SubSeq(chain, 1, Min(past))

GetRecentAncestors(chain, minHeight) == CollectTipSetsPastHeight(chain, minHeight)

\* The worker's look back from the block it wants to mine on the chain.
getAncestors(chain, newBlockHeight) ==
    GetRecentAncestors(chain, newBlockHeight - AncestorRoundsNeeded)

\* The syncer's look back from a tipset at height h whose parent heads chain.
syncAncestors(chain, h) == GetRecentAncestors(chain, h - AncestorRoundsNeeded)

\* Before there are n tipsets the genesis ticket stands in.
SampleNthTicket(n, tips) ==
    IF tips = <<>> THEN Error
    ELSE IF n < Len(tips) THEN Ok(MinTicket(tips[n + 1]))
    ELSE IF Last(tips).height = 0 THEN Ok(MinTicket(Last(tips)))
    ELSE Error

\* The ticket of the highest tipset at or below sampleHeight.
SampleChainRandomness(sampleHeight, tips) ==
    LET low == {i \in DOMAIN tips : tips[i].height <= sampleHeight}
    IN  IF sampleHeight < 0 \/ low = {} THEN Error
        ELSE Ok(MinTicket(tips[Min(low)]))

\* What a client is told of the head's chain.
SampleRandomness(chain, sampleHeight) ==
    SampleChainRandomness(sampleHeight, GetRecentAncestors(chain, sampleHeight))

----------------------------------------------------------------------------
(* The chain clock: times are ticks since genesis, timestamps seconds.     *)

EpochAtTime(t) == t \div EpochDuration

EpochRangeAtTimestamp(seconds) ==
    EpochAtTime(seconds * TicksPerSecond)..EpochAtTime((seconds + 1) * TicksPerSecond)

----------------------------------------------------------------------------
(* Tickets and elections.  The bytes of a ticket are one byte; a partial   *)
(* ticket is an ideal hash, and draw gives the number each one hashes to.  *)

NextTicket(parent, addr) == SignBytes(<<parent>>, addr)
IsValidTicket(parent, ticket, addr) == IsValidSignature(<<parent>>, addr, ticket)

GeneratePoStRandomness(ticket, addr, nullBlkCount) ==
    SignBytes(<<ticket>> \o PutUvarint(nullBlkCount), addr)

VerifyPoStRandomness(rand, ticket, addr, nullBlkCount) ==
    IsValidSignature(<<ticket>> \o PutUvarint(nullBlkCount), addr, rand)

\* One candidate per sector, in the order of the sectors.
GenerateEPostCandidates(sectors, rand) ==
    LET ids == SetToSortSeq(sectors, <)
    IN  [i \in DOMAIN ids |->
            [SectorID |-> ids[i], SectorChallengeIndex |-> 0,
             PartialTicket |-> <<ids[i], rand>>]]

ElectionPostChallengeCount(sectorNum, faults) ==
    IF sectorNum - faults = 0 THEN 0
    ELSE (sectorNum - faults - 1) \div SectorChallengeRatioDiv + 1

CandidateWins(challenge, sectorNum, networkPower, sectorSize) ==
    challenge * networkPower * ElectionPostChallengeCount(sectorNum, 0)
        < sectorSize * 2^ChallengeBits * sectorNum * ExpectedLeadersPerEpoch

\* The proof of the winners is a placeholder, and verifying it succeeds.
ComputeElectionPoSt == <<14>>
VerifyElectionPost(proof) == TRUE

----------------------------------------------------------------------------
(* Headers.  A view is what the power table of the parent state says: the  *)
(* worker's address, the miner's sectors, their size and the total power.  *)
(* With it go the roots and the weight of the parent, and the messages and *)
(* aggregate signature of the block, which module Processor chooses.       *)

HeaderFields ==
    {"Miner", "Ticket", "Parents", "ParentWeight", "Height", "Messages", "StateRoot",
     "MessageReceipts", "DeprecatedElectionProof", "PoStRandomness",
     "PoStPartialTickets", "PoStSectorIDs", "PoStChallengeIDXs", "PoStProof",
     "Timestamp", "BlockSig", "BLSAggregateSig"}

\* All fields but the signature.
SignatureData(b) == [f \in HeaderFields \ {"BlockSig"} |-> b[f]]

Sealed(b, addr) ==
    [f \in HeaderFields |->
        IF f = "BlockSig" THEN SignBytes(SignatureData(b), addr) ELSE b[f]]

\* The header around the winners, for a base tipset that heads the chain.
Generate(chain, view, miner, nullBlkCount, rand, winners, now) ==
    IF view.sectors = {} THEN Error
    ELSE LET Field(f) == [i \in DOMAIN winners |-> winners[i][f]]
         IN  Ok(Sealed(
               [Miner |-> miner, Height |-> chain[1].height + nullBlkCount + 1,
                Parents |-> chain[1], ParentWeight |-> view.weight,
                Messages |-> view.messages, BLSAggregateSig |-> view.aggregate,
                DeprecatedElectionProof |-> <<>>,
                StateRoot |-> view.stateRoot, MessageReceipts |-> view.receipts,
                PoStRandomness |-> rand, PoStPartialTickets |-> Field("PartialTicket"),
                PoStSectorIDs |-> Field("SectorID"),
                PoStChallengeIDXs |-> Field("SectorChallengeIndex"),
                PoStProof |-> ComputeElectionPoSt,
                Ticket |-> NextTicket(MinTicket(chain[1]), view.worker),
                Timestamp |-> now \div TicksPerSecond],
               view.worker))

\* The worker's run on the head of the chain: no block without a winner.
Mine(chain, view, miner, nullBlkCount, draw, now) ==
    LET ancestors == getAncestors(chain, chain[1].height + nullBlkCount + 1)
        ticket == SampleNthTicket(ElectionLookback - 1, ancestors)
        rand == GeneratePoStRandomness(ticket.val, view.worker, nullBlkCount)
        Wins(c) == CandidateWins(draw[c.SectorID], Cardinality(view.sectors),
                                 view.power, view.size)
        winners == SelectSeq(GenerateEPostCandidates(view.sectors, rand), Wins)
    IN  IF ~ticket.ok \/ winners = <<>> THEN Error
        ELSE Generate(chain, view, miner, nullBlkCount, rand, winners, now)

NotFutureBlock(b, now) == b.Height <= EpochAtTime(now)
TimeMatchesEpoch(b) == b.Height \in EpochRangeAtTimestamp(b.Timestamp)

ValidateSyntax(b, now) ==
    \/ b.Height = 0
    \/ /\ NotFutureBlock(b, now)
       /\ TimeMatchesEpoch(b)
       /\ Len(b.PoStPartialTickets) = Len(b.PoStSectorIDs)
       /\ Len(b.PoStSectorIDs) = Len(b.PoStChallengeIDXs)

ValidateSemantic(b, parent) == b.Height > parent.height

\* One block of a tipset against the chain its parent heads; the signatures
\* of its messages are checked in module Processor.
validateMining(b, chain, view, draw) ==
    LET ticket == SampleNthTicket(ElectionLookback - 1, syncAncestors(chain, b.Height))
    IN  /\ ticket.ok
        /\ b.StateRoot = view.stateRoot
        /\ b.MessageReceipts = view.receipts
        /\ b.ParentWeight = view.weight
        /\ IsValidSignature(SignatureData(b), view.worker, b.BlockSig)
        /\ VerifyPoStRandomness(b.PoStRandomness, ticket.val, view.worker,
                                b.Height - chain[1].height - 1)
        /\ \A i \in DOMAIN b.PoStPartialTickets :
              CandidateWins(draw[b.PoStPartialTickets[i][1]],
                            Cardinality(view.sectors), view.power, view.size)
        /\ VerifyElectionPost(b.PoStProof)
        /\ IsValidTicket(MinTicket(chain[1]), b.Ticket, view.worker)

----------------------------------------------------------------------------
(* Two blocks of one miner for one epoch.  A block is [id, miner, height,  *)
(* parent]; the index holds, for a miner and an epoch, the latest block    *)
(* whose rounds, the null ones included, cover that epoch.                 *)

Epochs(b) == b.parent + 1..b.height

\* The faults that checking b reports, and the index after it.
CheckBlock(index, b) ==
    LET hit == {e \in Epochs(b) : <<b.miner, e>> \in DOMAIN index
                                  /\ index[<<b.miner, e>>].id # b.id}
    IN  [faults |-> {<<b, index[<<b.miner, e>>]>> : e \in hit},
         index |-> [p \in DOMAIN index \cup ({b.miner} \X Epochs(b)) |->
                       IF p \in {b.miner} \X Epochs(b) THEN b ELSE index[p]]]
============================================================================
