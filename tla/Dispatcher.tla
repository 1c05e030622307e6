----------------------------- MODULE Dispatcher -----------------------------
(***************************************************************************)
(* The dispatcher of chain sync: one goroutine that takes targets from a   *)
(* channel, queues them by height, has the syncer work on the highest and  *)
(* switches between catching up and following.                             *)
(*                                                                         *)
(* It runs beside the producers of targets, the goroutine that passes its  *)
(* switches on to the mining scheduler, and callers that mine a block and  *)
(* wait until it is synced.                                                *)
(***************************************************************************)
EXTENDS Integers, Sequences, FiniteSets

CONSTANTS
    Heads,           \* tipset keys that targets name
    HeightOf,        \* the height claimed for each of them
    Waiters,         \* callers of addMinedBlockSynchronous
    OwnBlock,        \* the key of the block each of them mined
    InQueueSize,     \* DefaultInQueueSize
    WorkQueueSize,   \* DefaultWorkQueueSize
    MaxEpochGap,
    MaxTargets,      \* bound: targets that arrive from the network
    MaxFaults        \* bound: syncs and head writes that fail

NoHead == "none"
NoWaiter == "nobody"

ASSUME DispatcherAssumption ==
    /\ NoHead \notin Heads
    /\ NoWaiter \notin Waiters
    /\ HeightOf \in [Heads -> Nat]
    /\ OwnBlock \in [Waiters -> Heads]
    /\ InQueueSize \in Nat \ {0}
    /\ WorkQueueSize \in Nat \ {0}
    /\ {MaxEpochGap, MaxTargets, MaxFaults} \subseteq Nat

VARIABLES
    incoming,      \* channel of targets
    control,       \* channel of callbacks, with room for one
    pc,            \* what the dispatcher does next
    last,          \* the target that ended its wait
    ws,            \* targets it has read
    workQueue,     \* targets to sync
    target,        \* the target it syncs
    catchup,
    registeredCb,  \* the caller whose callback is registered
    head,          \* heights of the head and of what the syncer has staged
    staged,
    signal,        \* the switch that doMiningPause has received
    scheduler,     \* the mining scheduler: "nil", "mining" or "skipping"
    waiter,        \* what each caller is doing
    arrived,
    faults

queues == <<incoming, ws, last, workQueue>>
sync == <<head, staged, catchup>>
callbacks == <<control, registeredCb, waiter>>
mining == <<signal, scheduler>>
vars == <<incoming, control, pc, last, ws, workQueue, target, catchup, registeredCb, head,
          staged, signal, scheduler, waiter, arrived, faults>>

Init ==
    /\ incoming = <<>>
    /\ control = <<>>
    /\ pc = "control"
    /\ last = NoHead
    /\ ws = <<>>
    /\ workQueue = {}
    /\ target = NoHead
    /\ catchup = FALSE
    /\ registeredCb = NoWaiter
    /\ head = 0
    /\ staged = 0
    /\ signal = "none"
    /\ scheduler = "nil"
    /\ waiter = [w \in Waiters |-> "start"]
    /\ arrived = 0
    /\ faults = 0

-----------------------------------------------------------------------------
(* Producers *)

\* SendHello and SendGossipBlock; a producer waits while the channel is full.
Enqueue(h) ==
    /\ arrived < MaxTargets
    /\ Len(incoming) < InQueueSize
    /\ incoming' = Append(incoming, h)
    /\ arrived' = arrived + 1
    /\ UNCHANGED <<control, pc, last, ws, workQueue, target, sync, registeredCb, mining,
                   waiter, faults>>

\* addMinedBlockSynchronous: register the callback, propose the block, wait.
WaiterForTarget(w) ==
    /\ waiter[w] = "start"
    /\ control = <<>>
    /\ control' = <<w>>
    /\ waiter' = [waiter EXCEPT ![w] = "propose"]
    /\ UNCHANGED <<incoming, pc, last, ws, workQueue, target, sync, registeredCb, mining,
                   arrived, faults>>

SendOwnBlock(w) ==
    /\ waiter[w] = "propose"
    /\ Len(incoming) < InQueueSize
    /\ incoming' = Append(incoming, OwnBlock[w])
    /\ waiter' = [waiter EXCEPT ![w] = "wait"]
    /\ UNCHANGED <<control, pc, last, ws, workQueue, target, sync, registeredCb, mining,
                   arrived, faults>>

-----------------------------------------------------------------------------
(* The dispatcher's loop *)

\* A callback replaces the one registered before.
ProcessCtrl ==
    /\ pc = "control"
    /\ pc' = "first"
    /\ registeredCb' = IF control = <<>> THEN registeredCb ELSE Head(control)
    /\ control' = <<>>
    /\ UNCHANGED <<queues, target, sync, mining, waiter, arrived, faults>>

ReadFirst ==
    /\ pc = "first"
    /\ LET first == IF incoming = <<>> THEN <<>> ELSE <<Head(incoming)>>
       IN  ws' = (IF last = NoHead THEN <<>> ELSE <<last>>) \o first
    /\ last' = NoHead
    /\ incoming' = IF incoming = <<>> THEN incoming ELSE Tail(incoming)
    /\ pc' = IF incoming = <<>> THEN "toCatchup" ELSE "drain"
    /\ UNCHANGED <<workQueue, target, sync, callbacks, mining, arrived, faults>>

DrainIncoming ==
    /\ pc = "drain"
    /\ ws' = ws \o incoming
    /\ incoming' = <<>>
    /\ pc' = "toCatchup"
    /\ UNCHANGED <<last, workQueue, target, sync, callbacks, mining, arrived, faults>>

\* Targets that will not fit into the queue count as well.
Gap == \E k \in 1..Len(ws) : HeightOf[ws[k]] > head + MaxEpochGap

MaybeTransitionToCatchup ==
    /\ pc = "toCatchup"
    /\ pc' = IF ~catchup /\ Gap THEN "signalCatchup" ELSE "push"
    /\ UNCHANGED <<queues, target, sync, callbacks, mining, arrived, faults>>

\* The channel has no buffer: the dispatcher waits for doMiningPause.
SignalCatchup ==
    /\ pc = "signalCatchup"
    /\ signal = "none"
    /\ signal' = "pause"
    /\ catchup' = TRUE
    /\ pc' = "push"
    /\ UNCHANGED <<queues, target, head, staged, callbacks, scheduler, arrived, faults>>

\* Targets that do not fit are dropped, those queued already are not repeated.
Push ==
    /\ pc = "push"
    /\ ws # <<>>
    /\ IF Cardinality(workQueue) >= WorkQueueSize
       THEN ws' = <<>> /\ UNCHANGED workQueue
       ELSE ws' = Tail(ws) /\ workQueue' = workQueue \union {Head(ws)}
    /\ UNCHANGED <<incoming, pc, last, target, sync, callbacks, mining, arrived, faults>>

Pop(h) ==
    /\ pc = "push"
    /\ ws = <<>>
    /\ \A g \in workQueue : HeightOf[g] <= HeightOf[h]
    /\ workQueue' = workQueue \ {h}
    /\ target' = h
    /\ pc' = "sync"
    /\ UNCHANGED <<incoming, last, ws, sync, callbacks, mining, arrived, faults>>

\* With no work left, the dispatcher waits for a target.
Wait ==
    /\ pc = "push"
    /\ ws = <<>>
    /\ workQueue = {}
    /\ incoming # <<>>
    /\ last' = Head(incoming)
    /\ incoming' = Tail(incoming)
    /\ pc' = "control"
    /\ UNCHANGED <<ws, workQueue, target, sync, callbacks, mining, arrived, faults>>

\* HandleNewTipSet, external here: it may stage the target, in follow mode sets
\* the head to what is staged, and may fail at either.
HandleNewTipSet ==
    /\ pc = "sync"
    /\ staged' \in {staged, HeightOf[target]}
    /\ \/ /\ head' = IF catchup THEN head ELSE staged'
          /\ UNCHANGED faults
       \/ /\ faults < MaxFaults
          /\ faults' = faults + 1
          /\ UNCHANGED head
    /\ pc' = "callback"
    /\ UNCHANGED <<queues, target, catchup, callbacks, mining, arrived>>

\* The callback is called whether or not the sync succeeded.
Callback ==
    /\ pc = "callback"
    /\ waiter' = [w \in Waiters |->
                     IF w = registeredCb /\ OwnBlock[w] = target THEN "done" ELSE waiter[w]]
    /\ target' = NoHead
    /\ pc' = "toFollow"
    /\ UNCHANGED <<queues, sync, control, registeredCb, mining, arrived, faults>>

\* Mutant: the target just synced is counted as outstanding.
MaybeTransitionToFollowMutant ==
    /\ pc = "toFollow"
    /\ pc' = IF catchup /\ Cardinality(workQueue) = 1 THEN "signalFollow" ELSE "control"
    /\ UNCHANGED <<queues, target, sync, callbacks, mining, arrived, faults>>

MaybeTransitionToFollow ==
    /\ pc = "toFollow"
    /\ pc' = IF catchup /\ workQueue = {} THEN "signalFollow" ELSE "control"
    /\ UNCHANGED <<queues, target, sync, callbacks, mining, arrived, faults>>

\* Mutant: doMiningPause is not told that catching up has ended.
SignalFollowMutant ==
    /\ pc = "signalFollow"
    /\ pc' = "setHead"
    /\ UNCHANGED <<queues, target, sync, callbacks, mining, arrived, faults>>

SignalFollow ==
    /\ pc = "signalFollow"
    /\ signal = "none"
    /\ signal' = "continue"
    /\ pc' = "setHead"
    /\ UNCHANGED <<queues, target, sync, callbacks, scheduler, arrived, faults>>

\* When the head cannot be set, the dispatcher stays in catchup mode.
SetStagedHead ==
    /\ pc = "setHead"
    /\ \/ head' = staged /\ catchup' = FALSE /\ UNCHANGED faults
       \/ faults < MaxFaults /\ faults' = faults + 1 /\ UNCHANGED <<head, catchup>>
    /\ pc' = "control"
    /\ UNCHANGED <<queues, target, staged, callbacks, mining, arrived>>

-----------------------------------------------------------------------------
(* Mining *)

\* doMiningPause drops the switch while there is no scheduler.
DoMiningPause ==
    /\ signal # "none"
    /\ signal' = "none"
    /\ scheduler' = CASE scheduler = "nil"    -> "nil"
                      [] signal = "pause"     -> "skipping"
                      [] signal = "continue"  -> "mining"
    /\ UNCHANGED <<queues, pc, target, sync, callbacks, arrived, faults>>

StartMining ==
    /\ scheduler = "nil"
    /\ scheduler' = "mining"
    /\ UNCHANGED <<queues, pc, target, sync, callbacks, signal, arrived, faults>>

Dispatch ==
    \/ ProcessCtrl
    \/ ReadFirst
    \/ DrainIncoming
    \/ MaybeTransitionToCatchup
    \/ SignalCatchup
    \/ Push
    \/ \E h \in workQueue : Pop(h)
    \/ Wait
    \/ HandleNewTipSet
    \/ Callback
    \/ MaybeTransitionToFollow
    \/ SignalFollow
    \/ SetStagedHead

Next ==
    \/ \E h \in Heads : Enqueue(h)
    \/ \E w \in Waiters : WaiterForTarget(w) \/ SendOwnBlock(w)
    \/ Dispatch
    \/ DoMiningPause
    \/ StartMining

Spec == Init /\ [][Next]_vars

\* The dispatcher's and doMiningPause's goroutines keep running, and so do the
\* callers that mined a block.
Fairness ==
    /\ WF_vars(Dispatch)
    /\ WF_vars(DoMiningPause)
    /\ \A w \in Waiters : WF_vars(WaiterForTarget(w)) /\ WF_vars(SendOwnBlock(w))
FairSpec == Spec /\ Fairness

-----------------------------------------------------------------------------
(* Properties *)

Steps == {"control", "first", "drain", "toCatchup", "signalCatchup", "push", "sync",
          "callback", "toFollow", "signalFollow", "setHead"}

\* The dispatcher's queues, modes and channels, the latter within their capacity.
TypeOK ==
    /\ incoming \in Seq(Heads) /\ Len(incoming) <= InQueueSize
    /\ control \in Seq(Waiters) /\ Len(control) <= 1
    /\ pc \in Steps
    /\ last \in Heads \union {NoHead}
    /\ ws \in Seq(Heads)
    /\ workQueue \subseteq Heads
    /\ target \in Heads \union {NoHead}
    /\ pc \in {"sync", "callback"} <=> target # NoHead
    /\ catchup \in BOOLEAN
    /\ registeredCb \in Waiters \union {NoWaiter}
    /\ {head, staged} \subseteq Nat
    /\ signal \in {"none", "pause", "continue"}
    /\ scheduler \in {"nil", "mining", "skipping"}
    /\ waiter \in [Waiters -> {"start", "propose", "wait", "done"}]
    /\ arrived \in 0..MaxTargets
    /\ faults \in 0..MaxFaults

\* Between two switches mining is not left paused: a scheduler that skips its
\* work has a dispatcher that is catching up, however the signals to it and the
\* start of mining interleave, and whatever fails.
NotLeftPaused ==
    scheduler = "skipping" /\ signal = "none" => catchup

\* While the dispatcher follows, the head is what the syncer has staged: what
\* was staged during catchup becomes the head on the way out of it.
StagedReachesHead ==
    ~catchup /\ faults = 0 => head = staged

\* Catching up ends: once targets stop coming, all that were queued are synced
\* and the dispatcher follows, unless the head could not be set.
CatchupEnds ==
    <>[](workQueue = {} /\ pc = "push" /\ (catchup => faults > 0))
=============================================================================
