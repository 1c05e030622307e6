---------------------------- MODULE StorageMining ---------------------------
(***************************************************************************)
(* A miner node on a chain: the deals of module StorageDeals lead to       *)
(* commitSector messages, these are mined into the miner actor, and the    *)
(* node proves the actor's sectors as in module PoStSchedule.              *)
(***************************************************************************)
EXTENDS StorageDeals

CONSTANTS
    ProvingPeriod, ChallengeWindow, SectorCollateral, SectorSize, WordSize,
    ChallengeDelay, SubmissionBuffer, MaxLag

VARIABLES actor, pool, events, reading, inProcess, jobs, outcome

PoSt == INSTANCE PoStSchedule

postVars == <<actor, pool, events, reading, inProcess, jobs, outcome>>
allVars == <<vars, postVars>>

MiningInit == Init /\ PoSt!PostInit

Other == <<workload, price, ask, channels, dealVars, restarts, sbVars>>

\* A block holds at most one of the node's messages; none is mined in a
\* workload without proofs, and a workload with proofs starts when the first
\* sector is ready, all its deals settled.
Block ==
    /\ height < workload.until
    /\ workload.proofs => commits # {} /\ loop.at = "idle" /\ \A c \in Calls : call[c].at = "done"
    /\ \/ ChangeWorker(PoSt!MineChangeWorker("w2"))
       \/ /\ \/ PoSt!EmptyBlock
             \/ /\ workload.proofs
                /\ \/ \E post \in pool : PoSt!MinePoSt(post)
                   \/ \E m \in commits : /\ m.sector \notin actor.SectorCommitments
                                         /\ PoSt!MineCommit(m.sector)
          /\ UNCHANGED <<worker, Other>>

Prove == PoSt!NodeStep(Fault("send")) /\ UNCHANGED <<height, worker, Other>>

RestartNode == Restart /\ PoSt!PostRestart

\* A step of the deals' side leaves the proofs alone.
DealsOnly(step) == step /\ UNCHANGED postVars

MiningNext == Block \/ Prove \/ RestartNode \/ DealsOnly(Next)

\* What ends by itself: the processing of a deal, the handling of a sealing
\* result, and sealing, which the node's timer starts.
Work ==
    \/ \E c \in Calls : ProcStep(c)
    \/ LoopStep \/ AutoSeal
    \/ \E id \in Sectors : SectorSealed(id)

\* The goroutines of a node run, the poller's among them, and sealing ends.  A
\* goroutine that waits for the poller's lock gets it in the end.
MiningSpec ==
    /\ MiningInit /\ [][MiningNext]_allVars
    /\ WF_allVars(DealsOnly(Work))
    /\ WF_allVars(DealsOnly(PollerStep))
    /\ SF_allVars(DealsOnly(\E c \in Calls : PollerAdds(c)))

\* Types, of the deals' side and of the proofs'.
TypeOK == DealsTypeOK /\ PoSt!PostTypeOK

\* A proof that is mined before its window ends is accepted: the window, the
\* sectors and the fee that the node read at different heads are the ones the
\* actor checks.
ProofInTimeAccepted ==
    outcome # PoSt!NoOutcome /\ outcome.at < outcome.post.end =>
        outcome.err = "" \/ outcome.post.from # actor.Worker

\* The late fee the prover pays suffices for a proof that is mined at most
\* SubmissionBuffer rounds after the height the prover saw.
FeeCoversLateness ==
    outcome.err = "PoStFeeNotCovered" => outcome.at > outcome.post.seen + SubmissionBuffer

\* One proof is under way for a window: postInProcess keeps the callback from
\* starting another while the first is computed or waits to be mined.  A
\* restart forgets it.
OneProofPerWindow ==
    restarts = 0 =>
    /\ \A a, b \in jobs : a.end = b.end => a = b
    /\ \A a \in jobs, b \in pool : a.end # b.end
    /\ \A a, b \in pool : a.end = b.end => a = b

\* Every proving period is proved once, in time and at the right price: the
\* state stays well formed, one proof is under way for a window, and the actor
\* accepts what the node computed from several heads when it is mined in time.
WindowsProved == TypeOK /\ OneProofPerWindow /\ ProofInTimeAccepted /\ FeeCoversLateness
=============================================================================
