-------------------------- MODULE DispatcherProofs --------------------------
(***************************************************************************)
(* Proofs about Dispatcher, for any set of targets and of callers, any     *)
(* size of its queues and any number of arrivals and failures.             *)
(***************************************************************************)
EXTENDS Dispatcher, TLAPS

\* Time limits with a wide margin: every leaf takes about a second.
USE SMTT(60), ZenonT(60), SMTT(61)

\* Initially the dispatcher's state has its type.
LEMMA TypeInit == Init => TypeOK
  <1> SUFFICES ASSUME Init
               PROVE  TypeOK
    OBVIOUS
  <1>1. waiter \in [Waiters -> {"start", "propose", "wait", "done"}]
    BY DEF Init
  <1>2. incoming \in Seq(Heads) /\ ws \in Seq(Heads) /\ control \in Seq(Waiters)
    BY DEF Init
  <1>3. Len(incoming) = 0 /\ Len(control) = 0
    BY DEF Init
  <1>4. arrived \in 0..MaxTargets /\ faults \in 0..MaxFaults /\ {head, staged} \subseteq Nat
    BY DispatcherAssumption DEF Init
  <1>5. pc \in Steps /\ pc \notin {"sync", "callback"} /\ target = NoHead
    BY DEF Init, Steps
  <1>6. catchup \in BOOLEAN /\ last = NoHead /\ registeredCb = NoWaiter /\ workQueue = {}
    BY ZenonT(60) DEF Init
  <1> QED
    BY <1>1, <1>2, <1>3, <1>4, <1>5, <1>6, DispatcherAssumption DEF Init, TypeOK

\* Every step of the dispatcher and of the goroutines beside it keeps the types,
\* and with them the bounds of both channels.
LEMMA TypeStep == TypeOK /\ [Next]_vars => TypeOK'
  <1> SUFFICES ASSUME TypeOK, [Next]_vars
               PROVE  TypeOK'
    OBVIOUS
  <1> USE DispatcherAssumption
  <1>1. ASSUME NEW h \in Heads, Enqueue(h)
        PROVE  TypeOK'
    BY SMTT(60), <1>1 DEF TypeOK, Enqueue, sync, mining
  <1>2. ASSUME NEW w \in Waiters, WaiterForTarget(w)
        PROVE  TypeOK'
    BY <1>2 DEF TypeOK, WaiterForTarget, sync, mining
  <1>3. ASSUME NEW w \in Waiters, SendOwnBlock(w)
        PROVE  TypeOK'
    BY SMTT(60), <1>3 DEF TypeOK, SendOwnBlock, sync, mining
  <1>4. CASE ProcessCtrl
    BY <1>4 DEF TypeOK, ProcessCtrl, queues, sync, mining, Steps
  <1>5. CASE ReadFirst
    BY SMTT(60), <1>5 DEF TypeOK, ReadFirst, sync, callbacks, mining, Steps
  <1>6. CASE DrainIncoming
    BY <1>6 DEF TypeOK, DrainIncoming, sync, callbacks, mining, Steps
  <1>7. CASE MaybeTransitionToCatchup
    BY <1>7 DEF TypeOK, MaybeTransitionToCatchup, queues, sync, callbacks, mining, Steps
  <1>8. CASE SignalCatchup
    BY <1>8 DEF TypeOK, SignalCatchup, queues, callbacks, Steps
  <1>9. CASE Push
    <2>1. ws' \in Seq(Heads)
      <3>1. ws' = <<>> \/ ws' = Tail(ws)
        BY <1>9, ZenonT(60) DEF Push
      <3>2. Len(ws) # 0 /\ ws \in Seq(Heads)
        BY <1>9 DEF TypeOK, Push
      <3>3. Tail(ws) \in Seq(Heads)
        BY <3>2
      <3>4. <<>> \in Seq(Heads)
        OBVIOUS
      <3> QED
        BY <3>1, <3>3, <3>4, ZenonT(60)
    <2>2. workQueue' \subseteq Heads
      <3>1. Head(ws) \in Heads
        BY <1>9 DEF TypeOK, Push
      <3> QED
        BY <1>9, <3>1 DEF TypeOK, Push
    <2> QED
      BY <1>9, <2>1, <2>2, ZenonT(60) DEF TypeOK, Push, sync, callbacks, mining
  <1>10. ASSUME NEW h \in workQueue, Pop(h)
         PROVE  TypeOK'
    BY <1>10 DEF TypeOK, Pop, sync, callbacks, mining, Steps
  <1>11. CASE Wait
    <2>1. incoming \in Seq(Heads) /\ incoming # <<>> /\ Len(incoming) <= InQueueSize
      BY <1>11 DEF TypeOK, Wait
    <2>2. incoming' \in Seq(Heads) /\ Len(incoming') <= InQueueSize
      BY <1>11, <2>1 DEF Wait
    <2>3. last' \in Heads
      BY <1>11, <2>1 DEF Wait
    <2>4. pc' \in Steps /\ (pc' \in {"sync", "callback"} <=> target' # NoHead)
      BY <1>11 DEF TypeOK, Wait, Steps
    <2> QED
      BY <1>11, <2>2, <2>3, <2>4 DEF TypeOK, Wait, sync, callbacks, mining
  <1>12. CASE HandleNewTipSet
    <2>1. pc = "sync" /\ target \in Heads
      BY <1>12 DEF TypeOK, HandleNewTipSet
    <2>2. HeightOf[target] \in Nat
      BY <2>1
    <2>3. staged' \in Nat
      BY <1>12, <2>2 DEF TypeOK, HandleNewTipSet
    <2>4. head' \in Nat
      <3>1. head' \in {head, staged'}
        BY <1>12, ZenonT(60) DEF HandleNewTipSet
      <3>2. head \in Nat
        BY DEF TypeOK
      <3> QED
        BY <2>3, <3>1, <3>2
    <2>5. faults' \in 0..MaxFaults
      BY SMTT(60), <1>12 DEF TypeOK, HandleNewTipSet
    <2>6. pc' \in Steps /\ pc' \in {"sync", "callback"} /\ target' = target /\ target # NoHead
      BY <1>12, <2>1 DEF HandleNewTipSet, Steps
    <2> QED
      BY <1>12, <2>3, <2>4, <2>5, <2>6 DEF TypeOK, HandleNewTipSet, queues, callbacks, mining
  <1>13. CASE Callback
    BY <1>13 DEF TypeOK, Callback, queues, sync, mining, Steps
  <1>14. CASE MaybeTransitionToFollow
    BY <1>14 DEF TypeOK, MaybeTransitionToFollow, queues, sync, callbacks, mining, Steps
  <1>15. CASE SignalFollow
    BY <1>15 DEF TypeOK, SignalFollow, queues, sync, callbacks, Steps
  <1>16. CASE SetStagedHead
    <2>1. {head', staged'} \subseteq Nat /\ catchup' \in BOOLEAN
      BY <1>16, ZenonT(60) DEF TypeOK, SetStagedHead
    <2>2. faults' \in 0..MaxFaults
      BY <1>16 DEF TypeOK, SetStagedHead
    <2>3. pc' \in Steps /\ pc' \notin {"sync", "callback"} /\ target' = NoHead
      BY <1>16 DEF TypeOK, SetStagedHead, Steps
    <2> QED
      BY <1>16, <2>1, <2>2, <2>3 DEF TypeOK, SetStagedHead, queues, callbacks, mining
  <1>17. CASE DoMiningPause
    BY <1>17 DEF TypeOK, DoMiningPause, queues, sync, callbacks
  <1>18. CASE StartMining
    BY <1>18 DEF TypeOK, StartMining, queues, sync, callbacks
  <1>19. CASE UNCHANGED vars
    BY <1>19 DEF TypeOK, vars
  <1> QED
    BY <1>1, <1>2, <1>3, <1>4, <1>5, <1>6, <1>7, <1>8, <1>9, <1>10, <1>11, <1>12, <1>13,
       <1>14, <1>15, <1>16, <1>17, <1>18, <1>19 DEF Next, Dispatch

\* The dispatcher's channels, queue and modes always have their types, the
\* channels within their capacity.
THEOREM TypeCorrect == Spec => []TypeOK
  BY TypeInit, TypeStep, PTL DEF Spec

-----------------------------------------------------------------------------
(* Mining is not left paused. *)

\* A scheduler that skips is about to be told to continue when the dispatcher
\* does not catch up; a pause is still to be passed on only in catchup mode; and
\* the head is set after doMiningPause has been told to continue.
PauseInv ==
    /\ scheduler = "skipping" => catchup \/ signal = "continue"
    /\ signal = "pause" => catchup
    /\ pc = "setHead" => signal # "pause" /\ (scheduler = "skipping" => signal = "continue")

\* No step breaks it; only the switches, the pause and the start of mining
\* change what it mentions.
LEMMA PauseStep == TypeOK /\ PauseInv /\ [Next]_vars => PauseInv'
  <1> SUFFICES ASSUME TypeOK, PauseInv, [Next]_vars
               PROVE  PauseInv'
    OBVIOUS
  <1> USE DEF PauseInv
  <1>1. ASSUME UNCHANGED <<scheduler, signal, catchup>>, pc' = pc \/ pc' # "setHead"
        PROVE  PauseInv'
    BY <1>1
  <1>2. ASSUME NEW h \in Heads, Enqueue(h)
        PROVE  PauseInv'
    BY <1>1, <1>2 DEF Enqueue, sync, mining
  <1>3. ASSUME NEW w \in Waiters, WaiterForTarget(w) \/ SendOwnBlock(w)
        PROVE  PauseInv'
    BY <1>1, <1>3 DEF WaiterForTarget, SendOwnBlock, sync, mining
  <1>4. CASE ProcessCtrl \/ ReadFirst \/ DrainIncoming
    BY <1>1, <1>4 DEF ProcessCtrl, ReadFirst, DrainIncoming, sync, mining
  <1>5. CASE MaybeTransitionToCatchup \/ MaybeTransitionToFollow
    BY <1>1, <1>5 DEF MaybeTransitionToCatchup, MaybeTransitionToFollow, sync, mining
  <1>6. CASE SignalCatchup
    BY <1>6 DEF SignalCatchup
  <1>7. CASE Push \/ Wait \/ Callback
    BY <1>1, <1>7 DEF Push, Wait, Callback, sync, mining
  <1>8. ASSUME NEW h \in workQueue, Pop(h)
        PROVE  PauseInv'
    BY <1>1, <1>8 DEF Pop, sync, mining
  <1>9. CASE HandleNewTipSet
    BY <1>1, <1>9 DEF HandleNewTipSet, mining
  <1>10. CASE SignalFollow
    BY <1>10 DEF SignalFollow, sync
  <1>11. CASE SetStagedHead
    BY <1>11 DEF SetStagedHead, mining, TypeOK
  <1>12. CASE DoMiningPause
    BY <1>12 DEF DoMiningPause, sync, TypeOK
  <1>13. CASE StartMining
    BY <1>13 DEF StartMining, sync
  <1>14. CASE UNCHANGED vars
    BY <1>1, <1>14 DEF vars
  <1> QED
    BY <1>2, <1>3, <1>4, <1>5, <1>6, <1>7, <1>8, <1>9, <1>10, <1>11, <1>12, <1>13, <1>14
       DEF Next, Dispatch

\* However the dispatcher's switches, doMiningPause and the start of mining
\* interleave, a scheduler is not left skipping once the dispatcher follows.
THEOREM MiningResumes == Spec => []NotLeftPaused
  <1>1. Init => PauseInv
    BY DEF Init, PauseInv
  <1>2. PauseInv => NotLeftPaused
    BY DEF PauseInv, NotLeftPaused
  <1> QED
    BY <1>1, <1>2, TypeCorrect, PauseStep, PTL DEF Spec

-----------------------------------------------------------------------------
(* What is staged reaches the head. *)

\* Only a sync, the switch to catchup and the one to follow change what
\* StagedReachesHead mentions.
LEMMA StagedStep == TypeOK /\ StagedReachesHead /\ [Next]_vars => StagedReachesHead'
  <1> SUFFICES ASSUME TypeOK, StagedReachesHead, [Next]_vars
               PROVE  StagedReachesHead'
    OBVIOUS
  <1> USE DEF StagedReachesHead
  <1>1. ASSUME UNCHANGED <<sync, faults>>
        PROVE  StagedReachesHead'
    BY <1>1 DEF sync
  <1>2. ASSUME NEW h \in Heads, Enqueue(h)
        PROVE  StagedReachesHead'
    BY <1>1, <1>2 DEF Enqueue
  <1>3. ASSUME NEW w \in Waiters, WaiterForTarget(w) \/ SendOwnBlock(w)
        PROVE  StagedReachesHead'
    BY <1>1, <1>3 DEF WaiterForTarget, SendOwnBlock
  <1>4. CASE ProcessCtrl \/ ReadFirst \/ DrainIncoming
    BY <1>1, <1>4 DEF ProcessCtrl, ReadFirst, DrainIncoming
  <1>5. CASE MaybeTransitionToCatchup \/ MaybeTransitionToFollow \/ SignalFollow
    BY <1>1, <1>5 DEF MaybeTransitionToCatchup, MaybeTransitionToFollow, SignalFollow
  <1>6. CASE SignalCatchup
    BY <1>6 DEF SignalCatchup
  <1>7. CASE Push \/ Wait \/ Callback
    BY <1>1, <1>7 DEF Push, Wait, Callback
  <1>8. ASSUME NEW h \in workQueue, Pop(h)
        PROVE  StagedReachesHead'
    BY <1>1, <1>8 DEF Pop
  <1>9. CASE HandleNewTipSet
    BY <1>9, DispatcherAssumption DEF HandleNewTipSet, TypeOK
  <1>10. CASE SetStagedHead
    BY <1>10, DispatcherAssumption DEF SetStagedHead, TypeOK
  <1>11. CASE DoMiningPause \/ StartMining
    BY <1>1, <1>11 DEF DoMiningPause, StartMining
  <1>12. CASE UNCHANGED vars
    BY <1>1, <1>12 DEF vars, sync
  <1> QED
    BY <1>2, <1>3, <1>4, <1>5, <1>6, <1>7, <1>8, <1>9, <1>10, <1>11, <1>12 DEF Next, Dispatch

\* As long as no sync and no write of the head has failed, a dispatcher that
\* follows has made everything the syncer staged the head.
THEOREM HeadIsStaged == Spec => []StagedReachesHead
  <1>1. Init => StagedReachesHead
    BY DEF Init, StagedReachesHead
  <1> QED
    BY <1>1, TypeCorrect, StagedStep, PTL DEF Spec
=============================================================================
