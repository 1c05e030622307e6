------------------------------- MODULE Mining -------------------------------
(***************************************************************************)
(* Block mining: the scheduler's loop that starts a mining run each epoch, *)
(* the runs, the handler of their outputs, and the node's start and stop   *)
(* of it all, held together by contexts and a wait group.                  *)
(*                                                                         *)
(* Each successful StartMining opens a session, with a context, a wait     *)
(* group and an output channel of its own.  The node has pointers to those *)
(* of the latest session only.                                             *)
(***************************************************************************)
EXTENDS Integers, FiniteSets

CONSTANTS
    MaxSessions,   \* bound: times mining is started
    MaxEpoch,      \* bound: epochs of the chain clock
    MaxFaults      \* bound: mining runs that end in an error

ASSUME MiningAssumption == MaxSessions \in Nat /\ MaxEpoch \in Nat /\ MaxFaults \in Nat

Sessions == 1..MaxSessions
Epochs == 1..MaxEpoch

VARIABLES
    epoch,       \* the chain clock
    api,         \* the caller of StartMining and StopMining
    isMining,
    session,     \* the session the node's pointers are to, 0 if there is none
    skipping,    \* the scheduler's flags
    isStarted,
    cancelled,   \* sessions whose context is cancelled
    wg,          \* the wait groups' counters
    loop,        \* the scheduler's loop in each session,
    wakeAt,      \*   the epoch it waits for
    work,        \*   and the run whose context it holds, 0 if there is none
    run,         \* the mining run of each epoch,
    owner,       \*   the session it belongs to
    late,        \*   and the runs the loop has cancelled
    outCh,       \* the output channels, with room for one
    handler,     \* handleNewMiningOutput in each session
    adders,      \* its goroutines that add a mined block
    faults

flags == <<isMining, session, skipping, isStarted>>
loops == <<loop, wakeAt, work>>
runs == <<run, owner, late>>
outputs == <<outCh, handler, adders>>
vars == <<epoch, api, isMining, session, skipping, isStarted, cancelled, wg, loop, wakeAt,
          work, run, owner, late, outCh, handler, adders, faults>>

Init ==
    /\ epoch = 0
    /\ api = "stopped"
    /\ isMining = FALSE
    /\ session = 0
    /\ skipping = FALSE
    /\ isStarted = FALSE
    /\ cancelled = {}
    /\ wg = [s \in Sessions |-> 0]
    /\ loop = [s \in Sessions |-> "off"]
    /\ wakeAt = [s \in Sessions |-> 0]
    /\ work = [s \in Sessions |-> 0]
    /\ run = [e \in Epochs |-> "none"]
    /\ owner = [e \in Epochs |-> 0]
    /\ late = {}
    /\ outCh = [s \in Sessions |-> "empty"]
    /\ handler = [s \in Sessions |-> "off"]
    /\ adders = [s \in Sessions |-> 0]
    /\ faults = 0

\* A run's context is the loop's for the epoch, within the session's.
Cancelled(e) == e \in late \/ owner[e] \in cancelled

-----------------------------------------------------------------------------
(* The node's start and stop *)

\* An error is returned if the node is mining or the scheduler is started.
StartMining ==
    /\ api \in {"stopped", "mining"}
    /\ ~isMining
    /\ ~isStarted
    /\ session < MaxSessions
    /\ LET s == session + 1
       IN  /\ session' = s
           /\ loop' = [loop EXCEPT ![s] = "enter"]
           /\ handler' = [handler EXCEPT ![s] = "receive"]
           /\ wg' = [wg EXCEPT ![s] = 2]
    /\ isStarted' = TRUE
    /\ api' = "starting"
    /\ UNCHANGED <<epoch, isMining, skipping, cancelled, wakeAt, work, runs, outCh, adders,
                   faults>>

SetIsMining ==
    /\ api = "starting"
    /\ isMining' = TRUE
    /\ api' = "mining"
    /\ UNCHANGED <<epoch, session, skipping, isStarted, cancelled, wg, loops, runs, outputs,
                   faults>>

StopMining ==
    /\ api = "mining"
    /\ isMining' = FALSE
    /\ cancelled' = cancelled \union {session}
    /\ api' = "stopping"
    /\ UNCHANGED <<epoch, session, skipping, isStarted, wg, loops, runs, outputs, faults>>

\* Mutant: StopMining does not wait for the group.
StopMiningReturnsMutant ==
    /\ api = "stopping"
    /\ api' = "stopped"
    /\ UNCHANGED <<epoch, flags, cancelled, wg, loops, runs, outputs, faults>>

StopMiningReturns ==
    /\ api = "stopping"
    /\ wg[session] = 0
    /\ api' = "stopped"
    /\ UNCHANGED <<epoch, flags, cancelled, wg, loops, runs, outputs, faults>>

-----------------------------------------------------------------------------
(* The scheduler *)

\* Pause and Continue, called as the dispatcher switches its mode.
Pause ==
    /\ session # 0
    /\ skipping' = ~skipping
    /\ UNCHANGED <<epoch, api, isMining, session, isStarted, cancelled, wg, loops, runs,
                   outputs, faults>>

ClockTicks ==
    /\ epoch < MaxEpoch
    /\ epoch' = epoch + 1
    /\ UNCHANGED <<api, flags, cancelled, wg, loops, runs, outputs, faults>>

WaitNextEpoch(s) ==
    /\ loop[s] = "enter"
    /\ loop' = [loop EXCEPT ![s] = "wait"]
    /\ wakeAt' = [wakeAt EXCEPT ![s] = epoch + 1]
    /\ UNCHANGED <<epoch, api, flags, cancelled, wg, work, runs, outputs, faults>>

MineLoopEnds(s) ==
    /\ loop[s] = "wait"
    /\ s \in cancelled
    /\ loop' = [loop EXCEPT ![s] = "ended"]
    /\ isStarted' = FALSE
    /\ wg' = [wg EXCEPT ![s] = @ - 1]
    /\ UNCHANGED <<epoch, api, isMining, session, skipping, cancelled, wakeAt, work, runs,
                   outputs, faults>>

\* Mutant: late work from the last epoch is not cancelled.
MineLoopMutant(s) ==
    /\ loop[s] = "wait"
    /\ s \notin cancelled
    /\ epoch >= wakeAt[s]
    /\ loop' = [loop EXCEPT ![s] = "enter"]
    /\ IF skipping
       THEN UNCHANGED <<work, run, owner, wg>>
       ELSE /\ work' = [work EXCEPT ![s] = wakeAt[s]]
            /\ run' = [run EXCEPT ![wakeAt[s]] = "start"]
            /\ owner' = [owner EXCEPT ![wakeAt[s]] = s]
            /\ wg' = [wg EXCEPT ![s] = @ + 1]
    /\ UNCHANGED <<epoch, api, flags, cancelled, late, wakeAt, outputs, faults>>

\* A new epoch: the last run's context is cancelled and, unless the scheduler
\* skips, a run starts on the head.
MineLoop(s) ==
    /\ loop[s] = "wait"
    /\ s \notin cancelled
    /\ epoch >= wakeAt[s]
    /\ loop' = [loop EXCEPT ![s] = "enter"]
    /\ late' = late \union ({work[s]} \ {0})
    /\ IF skipping
       THEN UNCHANGED <<work, run, owner, wg>>
       ELSE /\ work' = [work EXCEPT ![s] = wakeAt[s]]
            /\ run' = [run EXCEPT ![wakeAt[s]] = "start"]
            /\ owner' = [owner EXCEPT ![wakeAt[s]] = s]
            /\ wg' = [wg EXCEPT ![s] = @ + 1]
    /\ UNCHANGED <<epoch, api, flags, cancelled, wakeAt, outputs, faults>>

-----------------------------------------------------------------------------
(* A mining run *)

RunGoesOn(e, step) ==
    /\ run' = [run EXCEPT ![e] = step]
    /\ UNCHANGED <<wg, faults>>

RunReturns(e) ==
    /\ run' = [run EXCEPT ![e] = "returned"]
    /\ wg' = [wg EXCEPT ![owner[e]] = @ - 1]
    /\ UNCHANGED faults

RunFails(e) ==
    /\ faults < MaxFaults
    /\ faults' = faults + 1
    /\ run' = [run EXCEPT ![e] = "error"]
    /\ UNCHANGED wg

\* A base that is not defined is found out before the context is looked at.
MineStart(e) ==
    /\ run[e] = "start"
    /\ \/ RunFails(e)
       \/ Cancelled(e) /\ RunReturns(e)
       \/ ~Cancelled(e) /\ RunGoesOn(e, "elect")
    /\ UNCHANGED <<epoch, api, flags, cancelled, loops, owner, late, outputs>>

\* A cancelled run has no candidates, so no winner.
MineElect(e) ==
    /\ run[e] = "elect"
    /\ \/ RunFails(e)
       \/ RunReturns(e)
       \/ RunGoesOn(e, "prove")
    /\ UNCHANGED <<epoch, api, flags, cancelled, loops, owner, late, outputs>>

\* A run that is cancelled here goes on without its proof.
MineProve(e) ==
    /\ run[e] = "prove"
    /\ \/ RunFails(e)
       \/ RunGoesOn(e, "block")
    /\ UNCHANGED <<epoch, api, flags, cancelled, loops, owner, late, outputs>>

\* A run waits for room in the channel, cancelled or not.
MineOutput(e) ==
    /\ run[e] \in {"block", "error"}
    /\ outCh[owner[e]] = "empty"
    /\ outCh' = [outCh EXCEPT ![owner[e]] = run[e]]
    /\ RunReturns(e)
    /\ UNCHANGED <<epoch, api, flags, cancelled, loops, owner, late, handler, adders>>

-----------------------------------------------------------------------------
(* handleNewMiningOutput *)

\* It counts itself out of the group the node has now.
HandlerReturns(s) ==
    /\ handler[s] = "receive"
    /\ s \in cancelled
    /\ handler' = [handler EXCEPT ![s] = "ended"]
    /\ wg' = [wg EXCEPT ![session] = @ - 1]
    /\ UNCHANGED <<epoch, api, flags, cancelled, loops, runs, outCh, adders, faults>>

\* After an error it stops mining itself, and waits in StopMining for a group
\* that it is counted in.
HandleError(s) ==
    /\ handler[s] = "receive"
    /\ outCh[s] = "error"
    /\ outCh' = [outCh EXCEPT ![s] = "empty"]
    /\ handler' = [handler EXCEPT ![s] = "stopping"]
    /\ isMining' = FALSE
    /\ cancelled' = cancelled \union {session}
    /\ UNCHANGED <<epoch, api, session, skipping, isStarted, wg, loops, runs, adders, faults>>

HandleBlock(s) ==
    /\ handler[s] = "receive"
    /\ outCh[s] = "block"
    /\ outCh' = [outCh EXCEPT ![s] = "empty"]
    /\ adders' = [adders EXCEPT ![s] = @ + 1]
    /\ wg' = [wg EXCEPT ![session] = @ + 1]
    /\ UNCHANGED <<epoch, api, flags, cancelled, loops, runs, handler, faults>>

\* The block is added if the node still mines; the goroutine counts itself out
\* of the group the node has then.
AddNewlyMinedBlock(s) ==
    /\ adders[s] > 0
    /\ adders' = [adders EXCEPT ![s] = @ - 1]
    /\ wg' = [wg EXCEPT ![session] = @ - 1]
    /\ UNCHANGED <<epoch, api, flags, cancelled, loops, runs, outCh, handler, faults>>

-----------------------------------------------------------------------------
\* A wait group whose counter falls below zero panics.
Panicked == \E s \in Sessions : wg[s] < 0

Next ==
    /\ ~Panicked
    /\ \/ StartMining
       \/ SetIsMining
       \/ StopMining
       \/ StopMiningReturns
       \/ Pause
       \/ ClockTicks
       \/ \E s \in Sessions : WaitNextEpoch(s) \/ MineLoopEnds(s) \/ MineLoop(s)
       \/ \E e \in Epochs : MineStart(e) \/ MineElect(e) \/ MineProve(e) \/ MineOutput(e)
       \/ \E s \in Sessions : HandlerReturns(s) \/ HandleError(s) \/ HandleBlock(s)
       \/ \E s \in Sessions : AddNewlyMinedBlock(s)

Spec == Init /\ [][Next]_vars

-----------------------------------------------------------------------------
(* Properties *)

RunSteps == {"none", "start", "elect", "prove", "block", "error", "returned"}

\* Sessions, runs and wait groups are well formed.
TypeOK ==
    /\ epoch \in 0..MaxEpoch
    /\ api \in {"stopped", "starting", "mining", "stopping"}
    /\ isMining \in BOOLEAN /\ skipping \in BOOLEAN /\ isStarted \in BOOLEAN
    /\ session \in 0..MaxSessions
    /\ cancelled \subseteq 1..session
    /\ wg \in [Sessions -> Int]
    /\ loop \in [Sessions -> {"off", "enter", "wait", "ended"}]
    /\ wakeAt \in [Sessions -> 0..MaxEpoch + 1]
    /\ work \in [Sessions -> 0..MaxEpoch]
    /\ run \in [Epochs -> RunSteps]
    /\ owner \in [Epochs -> 0..session]
    /\ \A e \in Epochs : run[e] # "none" <=> owner[e] # 0
    /\ late \subseteq Epochs
    /\ outCh \in [Sessions -> {"empty", "block", "error"}]
    /\ handler \in [Sessions -> {"off", "receive", "stopping", "ended"}]
    /\ adders \in [Sessions -> Nat]
    /\ faults \in 0..MaxFaults

Running(e) == run[e] \notin {"none", "returned"}

\* At any time at most one mining run has a context that is not cancelled,
\* whatever is paused, stopped or started again.
OneLiveRun ==
    \A e, f \in Epochs : Running(e) /\ Running(f) /\ ~Cancelled(e) /\ ~Cancelled(f) => e = f

\* The wait group of a session counts its goroutines: its loop, its runs, the
\* handler and those that add a block, as long as no run has ended in an error.
WaitGroupExact ==
    faults = 0 =>
        \A s \in Sessions :
            wg[s] = (IF loop[s] \in {"enter", "wait"} THEN 1 ELSE 0)
                  + Cardinality({e \in Epochs : owner[e] = s /\ Running(e)})
                  + (IF handler[s] = "receive" THEN 1 ELSE 0)
                  + adders[s]

\* Once StopMining has returned nothing of the session goes on, no block is
\* added any more, and mining can be started again.
StoppedIsQuiet ==
    api = "stopped" /\ faults = 0 =>
        /\ ~isStarted
        /\ \A s \in Sessions : /\ loop[s] \in {"off", "ended"}
                               /\ handler[s] \in {"off", "ended"}
                               /\ adders[s] = 0
        /\ \A e \in Epochs : ~Running(e)

\* StopMining waits for exactly the goroutines of its session, and leaves none
\* behind: the wait group counts them throughout, and once the call has
\* returned nothing goes on and mining can be started again.
StopIsClean == WaitGroupExact /\ StoppedIsQuiet
=============================================================================
