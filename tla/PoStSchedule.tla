---------------------------- MODULE PoStSchedule ----------------------------
(***************************************************************************)
(* When a miner node proves its storage: OnNewHeaviestTipSet at every new  *)
(* head, the prover it starts, and the SubmitPoSt and commitSector         *)
(* messages of the node, mined one per block into the miner actor of       *)
(* module MinerActor.                                                      *)
(***************************************************************************)
EXTENDS MinerActor

CONSTANTS
    ChallengeDelay,     \* challengeDelayRounds
    SubmissionBuffer,   \* postSubmissionDelayBufferRounds
    MaxLag              \* bound on head events not yet handled

VARIABLES
    height,     \* of the chain's head
    actor,      \* the miner actor's state at the head
    pool,       \* the node's SubmitPoSt messages not yet mined
    events,     \* heads the node has not handled yet
    reading,    \* the head being handled and the commitments read for it
    inProcess,  \* postInProcess
    jobs,       \* running submitPoSt goroutines
    outcome     \* what became of the last SubmitPoSt mined

NotReading == [ts |-> 0, inputs |-> {}]
NoOutcome == [err |-> "", at |-> 0, post |-> [end |-> 0, start |-> 0, sectors |-> {}, fee |-> 0, seen |-> 0, from |-> ""]]

PostInit ==
    /\ actor = NewState("o", "w1", "p")
    /\ pool = {} /\ events = <<>> /\ reading = NotReading
    /\ inProcess = 0 /\ jobs = {} /\ outcome = NoOutcome

-----------------------------------------------------------------------------
(* The miner protocol's callback *)

\* A queue of heads; the callback reads the chain's head of now.
ReadCommitments ==
    /\ events # <<>> /\ reading = NotReading
    /\ events' = Tail(events)
    /\ reading' = IF GetProvingSetCommitments(actor).ret = {} THEN NotReading
                  ELSE [ts |-> Head(events), inputs |-> GetProvingSetCommitments(actor).ret]
    /\ UNCHANGED <<height, actor, pool, inProcess, jobs, outcome>>

getProvingWindow == GetProvingWindow(actor).ret

\* Mutant: the proof under way is not looked at.
OnNewHeaviestTipSetMutant ==
    LET start == getProvingWindow[1]
        end == getProvingWindow[2]
        h == reading.ts
    IN  /\ reading # NotReading
        /\ reading' = NotReading
        /\ IF h >= start + ChallengeDelay /\ h < end
           THEN /\ inProcess' = end
                /\ jobs' = jobs \cup {[start |-> start, end |-> end, inputs |-> reading.inputs]}
           ELSE UNCHANGED <<inProcess, jobs>>
        /\ UNCHANGED <<height, actor, pool, events, outcome>>

OnNewHeaviestTipSet ==
    LET start == getProvingWindow[1]
        end == getProvingWindow[2]
        h == reading.ts
    IN  /\ reading # NotReading
        /\ reading' = NotReading
        /\ IF inProcess # end /\ h >= start + ChallengeDelay /\ h < end
           THEN /\ inProcess' = end
                /\ jobs' = jobs \cup {[start |-> start, end |-> end, inputs |-> reading.inputs]}
           ELSE UNCHANGED <<inProcess, jobs>>
        /\ UNCHANGED <<height, actor, pool, events, outcome>>

-----------------------------------------------------------------------------
(* The prover *)

calculateFee(end) ==
    IF height >= end + LatePoStGracePeriod THEN Answer("too slow", 0)
    ELSE CalculateLateFee(actor, height + SubmissionBuffer)

\* The seed is the chain's randomness at the start of the window.
CalculatePoSt(job) ==
    IF height < job.start THEN Answer("before proving period start", <<>>)
    ELSE IF calculateFee(job.end).err # "" THEN Answer("too slow", <<>>)
    ELSE Answer("", [start |-> job.start, end |-> job.end, sectors |-> job.inputs,
                     fee |-> calculateFee(job.end).ret, seen |-> height, from |-> actor.Worker])

\* A proof that cannot be made or sent is given up.
submitPoSt(job, sendFails) ==
    LET post == CalculatePoSt(job)
    IN  /\ job \in jobs
        /\ jobs' = jobs \ {job}
        /\ \/ /\ post.err = ""
              /\ pool' = pool \cup {post.ret}
           \/ /\ post.err # "" \/ sendFails
              /\ UNCHANGED pool
        /\ UNCHANGED <<height, actor, events, reading, inProcess, outcome>>

-----------------------------------------------------------------------------
(* The chain *)

\* The proof is good for the sectors the actor expects and for its seed.
Proved(s, post, at) ==
    LET end == IF at < s.ProvingPeriodEnd THEN s.ProvingPeriodEnd ELSE NextPeriodEnd(s)
    IN  post.sectors = s.ProvingSet /\ post.start = end - ChallengeWindow

SubmitPoSt(s, post, at) ==
    LET err1 == PoStAdmitted(s, post.from, post.fee, at)
        err2 == PoStVerified(s, FALSE, Proved(s, post, at), at)
        err == IF err1 # "" THEN err1 ELSE err2
    IN  IF err # "" THEN Outcome(err, s) ELSE PoStSettled(PoStAdvanced(s, {}), {}, {})

NewBlock == height' = height + 1 /\ Len(events) < MaxLag /\ events' = Append(events, height + 1)

EmptyBlock ==
    /\ NewBlock
    /\ UNCHANGED <<actor, pool, reading, inProcess, jobs, outcome>>

MinePoSt(post) ==
    LET out == SubmitPoSt(actor, post, height + 1)
    IN  /\ post \in pool
        /\ NewBlock
        /\ pool' = pool \ {post}
        /\ actor' = out.st
        /\ outcome' = [err |-> out.err, at |-> height + 1, post |-> post]
        /\ UNCHANGED <<reading, inProcess, jobs>>

MineCommit(id) ==
    /\ NewBlock
    /\ actor' = CommitSector(actor, FALSE, actor.Worker, id, TRUE, 100 * SectorCollateral, height + 1).st
    /\ UNCHANGED <<pool, reading, inProcess, jobs, outcome>>

MineChangeWorker(w) ==
    /\ NewBlock
    /\ actor' = ChangeWorker(actor, actor.Owner, w).st
    /\ UNCHANGED <<pool, reading, inProcess, jobs, outcome>>

NodeStep(sendFails) ==
    \/ ReadCommitments \/ OnNewHeaviestTipSet
    \/ \E job \in jobs : submitPoSt(job, sendFails)

\* What a restart of the node forgets.
PostRestart ==
    /\ events' = <<>> /\ reading' = NotReading
    /\ inProcess' = 0 /\ jobs' = {}
    /\ UNCHANGED <<actor, pool, outcome>>

-----------------------------------------------------------------------------
\* Types: the node works on one head at a time and on windows of the actor.
PostTypeOK ==
    /\ Len(events) <= MaxLag
    /\ \A job \in jobs : job.start < job.end /\ job.inputs # {}
    /\ \A post \in pool : post.fee \in Nat /\ post.sectors # {}
=============================================================================
