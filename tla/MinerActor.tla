----------------------------- MODULE MinerActor -----------------------------
(***************************************************************************)
(* The storage miner actor's state and what its methods do to it.  A       *)
(* method body is an operator from the state to an outcome: an error code  *)
(* ("" for none) and the state to write.  The calls a method makes to      *)
(* other actors are in module VM.                                          *)
(***************************************************************************)
EXTENDS Integers, FiniteSets, SequencesExt

CONSTANTS
    ProvingPeriod,      \* LargestSectorSizeProvingPeriodBlocks
    ChallengeWindow,    \* PoStChallengeWindowBlocks
    SectorCollateral,   \* MinimumCollateralPerSector
    SectorSize,         \* bytes in a sector, in the model's units
    WordSize            \* the modulus of uint64, scaled

ASSUME MinerAssumption ==
    /\ ProvingPeriod \in Nat \ {0} /\ ChallengeWindow \in Nat
    /\ SectorCollateral \in Nat /\ SectorSize \in Nat /\ WordSize \in Nat \ {0}

Outcome(err, s) == [err |-> err, st |-> s]
Fails(err, s) == Outcome(err, s)
Writes(s) == Outcome("", s)
Answer(err, v) == [err |-> err, ret |-> v]

NewState(owner, worker, pid) ==
    [Owner |-> owner, Worker |-> worker, PeerID |-> pid,
     ActiveCollateral |-> 0, Asks |-> <<>>, NextAskID |-> 0,
     SectorCommitments |-> {}, LastUsedSectorID |-> 0, ProvingSet |-> {},
     CurrentFaultSet |-> {}, NextFaultSet |-> {}, NextDoneSet |-> {},
     ProvingPeriodEnd |-> 0, Power |-> 0, SectorSize |-> SectorSize,
     SlashedSet |-> {}, SlashedAt |-> 0]

\* SectorSet.Drop refuses an id that is not in the set.
Drop(S, ids) == [err |-> IF ids \subseteq S THEN "" ELSE "InvalidSector", left |-> S \ ids]

-----------------------------------------------------------------------------
(* Deadlines *)

ProvingPeriodDuration == ProvingPeriod
LatePoStGracePeriod == ProvingPeriodDuration
CollateralForSector == SectorCollateral
getPledgeCollateralRequirement(s) == s.ActiveCollateral

PoStStates == {"NoStorage", "WithinProvingPeriod", "AfterProvingPeriod", "Unrecoverable"}

lateState(end, height) ==
    IF height - end >= LatePoStGracePeriod THEN "Unrecoverable"
    ELSE IF height > end THEN "AfterProvingPeriod"
    ELSE "WithinProvingPeriod"

latePoStFee(collateral, end, height) ==
    CASE lateState(end, height) = "Unrecoverable" -> collateral
      [] lateState(end, height) = "AfterProvingPeriod" ->
             (collateral * (height - end)) \div LatePoStGracePeriod
      [] OTHER -> 0

provingWindowStart(s) ==
    IF s.ProvingPeriodEnd = 0 THEN 0 ELSE s.ProvingPeriodEnd - ChallengeWindow

-----------------------------------------------------------------------------
(* Methods without calls to other actors *)

AddAsk(s, caller, price, expiry, epoch) ==
    LET unexpired == SelectSeq(s.Asks, LAMBDA a : epoch < a.Expiry)
        ask == [Price |-> price, Expiry |-> epoch + expiry, ID |-> s.NextAskID]
    IN  IF caller # s.Worker THEN Fails("CallerUnauthorized", s)
        ELSE Writes([s EXCEPT !.NextAskID = @ + 1, !.Asks = Append(unexpired, ask)])

ChangeWorker(s, caller, worker) ==
    IF caller # s.Owner THEN Fails("CallerUnauthorized", s)
    ELSE Writes([s EXCEPT !.Worker = worker])

UpdatePeerID(s, caller, pid) ==
    IF caller # s.Worker THEN Fails("CallerUnauthorized", s)
    ELSE Writes([s EXCEPT !.PeerID = pid])

\* No caller is refused: faults are merged into one of the two sets.
AddFaults(s, faults, epoch) ==
    IF epoch < provingWindowStart(s)
    THEN Writes([s EXCEPT !.CurrentFaultSet = @ \cup faults])
    ELSE Writes([s EXCEPT !.NextFaultSet = @ \cup faults])

\* Mutant: the collateral in use is not taken off the balance.
CommitSectorMutant(s, bootstrap, caller, id, sealed, balance, epoch) ==
    IF ~bootstrap /\ ~sealed THEN Fails("InvalidSealProof", s)
    ELSE IF caller # s.Worker THEN Fails("CallerUnauthorized", s)
    ELSE IF id \in s.SectorCommitments THEN Fails("SectorIDInUse", s)
    ELSE IF CollateralForSector > balance THEN Fails("InsufficientCollateral", s)
    ELSE Writes([s EXCEPT !.ActiveCollateral = @ + CollateralForSector,
                          !.ProvingSet = IF @ = {} THEN {id} ELSE @,
                          !.ProvingPeriodEnd = IF s.ProvingSet = {} THEN epoch + ProvingPeriodDuration ELSE @,
                          !.LastUsedSectorID = id, !.SectorCommitments = @ \cup {id}])

\* The sector is proved from now on if no other is, or during genesis.
CommitSector(s, bootstrap, caller, id, sealed, balance, epoch) ==
    LET proveNow == s.ProvingSet = {} \/ epoch = 0
    IN  IF ~bootstrap /\ ~sealed THEN Fails("InvalidSealProof", s)
        ELSE IF caller # s.Worker THEN Fails("CallerUnauthorized", s)
        ELSE IF id \in s.SectorCommitments THEN Fails("SectorIDInUse", s)
        ELSE IF CollateralForSector > balance - s.ActiveCollateral
             THEN Fails("InsufficientCollateral", s)
        ELSE Writes([s EXCEPT
                 !.ActiveCollateral = @ + CollateralForSector,
                 !.ProvingSet = IF proveNow THEN @ \cup {id} ELSE @,
                 !.ProvingPeriodEnd = IF proveNow THEN epoch + ProvingPeriodDuration ELSE @,
                 !.LastUsedSectorID = id,
                 !.SectorCommitments = @ \cup {id}])

-----------------------------------------------------------------------------
(* SubmitPoSt, by its stretches between the calls it makes *)

NextPeriodEnd(s) == s.ProvingPeriodEnd + ProvingPeriodDuration

PoStFee(s, height) ==
    latePoStFee(getPledgeCollateralRequirement(s), s.ProvingPeriodEnd, height)

\* The checks before the late fee is burnt.
PoStAdmitted(s, caller, value, height) ==
    IF caller # s.Worker THEN "CallerUnauthorized"
    ELSE IF height >= NextPeriodEnd(s) THEN "PoStTooLate"
    ELSE IF value < PoStFee(s, height) THEN "PoStFeeNotCovered"
    ELSE ""

\* The checks after the overpayment is refunded.
PoStVerified(s, bootstrap, proved, height) ==
    LET end == IF height < s.ProvingPeriodEnd THEN s.ProvingPeriodEnd ELSE NextPeriodEnd(s)
    IN  IF bootstrap THEN ""
        ELSE IF height < end - ChallengeWindow THEN "InvalidPoSt"
        ELSE IF ~(s.ProvingSet \subseteq s.SectorCommitments) THEN "fault"
        ELSE IF ~proved THEN "InvalidPoSt"
        ELSE ""

\* The power is the sectors proved, in a conversion to uint64.
PoStPower(s, faults) ==
    ((Cardinality(s.ProvingSet) - Cardinality(faults)) % WordSize) * s.SectorSize

PoStAdvanced(s, faults) ==
    [s EXCEPT !.ProvingPeriodEnd = NextPeriodEnd(s), !.Power = PoStPower(s, faults)]

PoStSettled(s, faults, done) ==
    LET d == Drop(s.SectorCommitments, done)
        f == Drop(d.left, faults)
    IN  IF d.err # "" \/ f.err # "" THEN Fails("InvalidSector", s)
        ELSE Writes([s EXCEPT !.SectorCommitments = f.left, !.ProvingSet = f.left,
                              !.NextDoneSet = done])

-----------------------------------------------------------------------------
(* SlashStorageFault *)

SlashAdmitted(s, height) ==
    IF s.SlashedAt # 0 THEN "MinerAlreadySlashed"
    ELSE IF s.ProvingSet = {} THEN "MinerNotSlashable"
    ELSE IF height <= s.ProvingPeriodEnd + LatePoStGracePeriod THEN "MinerNotSlashable"
    ELSE ""

\* The drop's error is ignored; every proved sector is committed.
Slashed(s, height) ==
    [s EXCEPT !.Power = 0, !.SlashedSet = s.ProvingSet,
              !.SectorCommitments = Drop(@, s.ProvingSet).left, !.ProvingSet = {},
              !.SlashedAt = height]

-----------------------------------------------------------------------------
(* Methods that only answer *)

GetAsks(s) == Answer("", [i \in DOMAIN s.Asks |-> s.Asks[i].ID])
GetAsk(s, id) ==
    LET found == SelectSeq(s.Asks, LAMBDA a : a.ID = id)
    IN  IF found = <<>> THEN Answer("AskNotFound", <<>>) ELSE Answer("", Head(found))
GetOwner(s) == Answer("", s.Owner)
GetWorker(s) == Answer("", s.Worker)
GetPeerID(s) == Answer("", s.PeerID)
GetPower(s) == Answer("", s.Power)
GetSectorSize(s) == Answer("", s.SectorSize)
GetLastUsedSectorID(s) == Answer("", s.LastUsedSectorID)
GetActiveCollateral(s) == Answer("", s.ActiveCollateral)
IsBootstrapMiner(code) == Answer("", code = "bootstrapMiner")

GetPoStState(s, height) ==
    Answer("", IF s.ProvingSet = {} THEN "NoStorage" ELSE lateState(s.ProvingPeriodEnd, height))

\* A sector to prove that is not committed is a fault.
GetProvingSetCommitments(s) ==
    Answer(IF s.ProvingSet \subseteq s.SectorCommitments THEN "" ELSE "fault", s.ProvingSet)

VerifyPieceInclusion(s, sector, included, height) ==
    Answer(IF sector \notin s.SectorCommitments THEN "NotCommitted"
           ELSE IF s.ProvingPeriodEnd = 0 THEN "NotActive"
           ELSE IF height > s.ProvingPeriodEnd + LatePoStGracePeriod THEN "Tardy"
           ELSE IF ~included THEN "InvalidPieceInclusionProof"
           ELSE "", TRUE)

GetProvingWindow(s) == Answer("", <<provingWindowStart(s), s.ProvingPeriodEnd>>)
CalculateLateFee(s, height) == Answer("", PoStFee(s, height))
=============================================================================
