---------------------------- MODULE MiningProofs ----------------------------
(***************************************************************************)
(* Proofs about Mining, for any number of sessions, epochs and failures.   *)
(***************************************************************************)
EXTENDS Mining, FiniteSetTheorems, TLAPS

\* Time limits with a wide margin: every leaf takes about a second.
USE SMTT(60), ZenonT(60), SMTT(61)

\* Only sessions that were opened have a loop and a handler.
SessionInv ==
    /\ api # "stopped" => session # 0
    /\ \A s \in Sessions : s > session => loop[s] = "off" /\ handler[s] = "off"

TypeInv == TypeOK /\ SessionInv

\* A wait group's counters stay integers when one of them is counted up.
LEMMA CountUp ==
    ASSUME NEW S, NEW f \in [S -> Int], NEW x
    PROVE  [f EXCEPT ![x] = f[x] + 1] \in [S -> Int]
  <1>1. CASE x \in S
    BY <1>1
  <1>2. CASE x \notin S
    BY <1>2, ZenonT(60)
  <1> QED
    BY <1>1, <1>2

\* The same when one is counted down.
LEMMA CountDown ==
    ASSUME NEW S, NEW f \in [S -> Int], NEW x
    PROVE  [f EXCEPT ![x] = f[x] - 1] \in [S -> Int]
  <1>1. CASE x \in S
    BY <1>1
  <1>2. CASE x \notin S
    BY <1>2, ZenonT(60)
  <1> QED
    BY <1>1, <1>2

\* Before mining is started nothing of it exists.
LEMMA TypeInit == Init => TypeInv
  <1> SUFFICES ASSUME Init
               PROVE  TypeInv
    OBVIOUS
  <1>1. TypeOK
    <2>1. /\ wg \in [Sessions -> Int] /\ adders \in [Sessions -> Nat]
          /\ wakeAt \in [Sessions -> 0..MaxEpoch + 1] /\ work \in [Sessions -> 0..MaxEpoch]
      BY MiningAssumption DEF Init
    <2>2. /\ loop \in [Sessions -> {"off", "enter", "wait", "ended"}]
          /\ handler \in [Sessions -> {"off", "receive", "stopping", "ended"}]
          /\ outCh \in [Sessions -> {"empty", "block", "error"}]
      BY DEF Init
    <2>3. /\ run \in [Epochs -> RunSteps] /\ owner \in [Epochs -> 0..session]
          /\ \A e \in Epochs : run[e] # "none" <=> owner[e] # 0
      BY DEF Init, RunSteps
    <2>4. epoch \in 0..MaxEpoch /\ faults \in 0..MaxFaults /\ session \in 0..MaxSessions
      BY MiningAssumption DEF Init
    <2>5. isMining \in BOOLEAN /\ skipping \in BOOLEAN /\ isStarted \in BOOLEAN
      BY ZenonT(60) DEF Init
    <2>6. cancelled = {} /\ late = {} /\ api = "stopped"
      BY DEF Init
    <2> QED
      BY <2>1, <2>2, <2>3, <2>4, <2>5, <2>6 DEF TypeOK
  <1>2. SessionInv
    BY DEF Init, SessionInv
  <1> QED
    BY <1>1, <1>2 DEF TypeInv

\* No step of the node, the scheduler, a run or the handler breaks the types.
LEMMA TypeStep == TypeInv /\ [Next]_vars => TypeInv'
  <1> SUFFICES ASSUME TypeInv, [Next]_vars
               PROVE  TypeInv'
    OBVIOUS
  <1> USE MiningAssumption DEF TypeInv
  <1>1. CASE StartMining
    <2>1. session + 1 \in Sessions /\ session' = session + 1 /\ session' \in 1..MaxSessions
      BY <1>1 DEF TypeOK, StartMining, Sessions
    <2>2. /\ loop' = [loop EXCEPT ![session + 1] = "enter"]
          /\ handler' = [handler EXCEPT ![session + 1] = "receive"]
          /\ wg' = [wg EXCEPT ![session + 1] = 2]
      BY <1>1, ZenonT(60) DEF StartMining
    <2>3. /\ wg' \in [Sessions -> Int]
          /\ loop' \in [Sessions -> {"off", "enter", "wait", "ended"}]
          /\ handler' \in [Sessions -> {"off", "receive", "stopping", "ended"}]
      <3>1. wg' \in [Sessions -> Int]
        <4>1. wg \in [Sessions -> Int] /\ wg' = [wg EXCEPT ![session + 1] = 2]
          BY <2>2 DEF TypeOK
        <4>2. \A x \in Sessions : wg'[x] = IF x = session + 1 THEN 2 ELSE wg[x]
          BY <4>1, ZenonT(60)
        <4>3. wg' = [x \in Sessions |-> wg'[x]]
          BY <4>1, ZenonT(60)
        <4>4. \A x \in Sessions : wg'[x] \in Int
          BY <4>1, <4>2
        <4> QED
          BY <4>3, <4>4, ZenonT(60)
      <3>2. loop' \in [Sessions -> {"off", "enter", "wait", "ended"}]
        BY <2>2, ZenonT(60) DEF TypeOK
      <3>3. handler' \in [Sessions -> {"off", "receive", "stopping", "ended"}]
        BY <2>2, ZenonT(60) DEF TypeOK
      <3> QED
        BY <3>1, <3>2, <3>3
    <2>4. cancelled' \subseteq 1..session' /\ owner' \in [Epochs -> 0..session']
      <3>1. 1..session \subseteq 1..session' /\ 0..session \subseteq 0..session'
        BY <2>1 DEF TypeOK
      <3>2. cancelled' = cancelled /\ owner' = owner
        BY <1>1 DEF StartMining, runs
      <3> QED
        BY <3>1, <3>2 DEF TypeOK
    <2>5. SessionInv'
      <3>1. ASSUME NEW s \in Sessions, s > session'
            PROVE  loop'[s] = "off" /\ handler'[s] = "off"
        <4>1. s > session /\ s # session + 1
          BY <2>1, <3>1 DEF TypeOK, Sessions
        <4> QED
          BY <2>2, <4>1 DEF TypeOK, SessionInv
      <3>2. session' # 0
        BY <2>1
      <3> QED
        BY <3>1, <3>2 DEF SessionInv
    <2> QED
      BY <1>1, <2>1, <2>3, <2>4, <2>5 DEF TypeOK, StartMining, runs
  <1>2. CASE SetIsMining
    BY <1>2 DEF TypeOK, SessionInv, SetIsMining, loops, runs, outputs
  <1>3. CASE StopMining
    <2>1. session \in 1..session
      BY <1>3 DEF TypeOK, SessionInv, StopMining
    <2> QED
      BY <1>3, <2>1, ZenonT(60) DEF TypeOK, SessionInv, StopMining, loops, runs, outputs
  <1>4. CASE StopMiningReturns
    BY <1>4 DEF TypeOK, SessionInv, StopMiningReturns, flags, loops, runs, outputs
  <1>5. CASE Pause
    BY <1>5 DEF TypeOK, SessionInv, Pause, loops, runs, outputs
  <1>6. CASE ClockTicks
    BY <1>6 DEF TypeOK, SessionInv, ClockTicks, flags, loops, runs, outputs
  <1>7. ASSUME NEW s \in Sessions, WaitNextEpoch(s)
        PROVE  TypeInv'
    <2>1. /\ loop' \in [Sessions -> {"off", "enter", "wait", "ended"}]
          /\ wakeAt' \in [Sessions -> 0..MaxEpoch + 1]
      BY <1>7 DEF TypeOK, WaitNextEpoch
    <2>2. SessionInv'
      BY <1>7 DEF TypeOK, SessionInv, WaitNextEpoch, flags, outputs
    <2> QED
      BY <1>7, <2>1, <2>2 DEF TypeOK, WaitNextEpoch, flags, runs, outputs
  <1>8. ASSUME NEW s \in Sessions, MineLoopEnds(s)
        PROVE  TypeInv'
    <2>1. loop' \in [Sessions -> {"off", "enter", "wait", "ended"}]
      BY <1>8 DEF TypeOK, MineLoopEnds
    <2>2. wg' \in [Sessions -> Int]
      BY <1>8, CountDown DEF TypeOK, MineLoopEnds
    <2>3. SessionInv'
      BY <1>8 DEF TypeOK, SessionInv, MineLoopEnds, outputs
    <2> QED
      BY <1>8, <2>1, <2>2, <2>3, ZenonT(60) DEF TypeOK, MineLoopEnds, runs, outputs
  <1>9. ASSUME NEW s \in Sessions, MineLoop(s)
        PROVE  TypeInv'
    <2>1. late' \subseteq Epochs
      <3>1. {work[s]} \ {0} \subseteq Epochs
        BY DEF TypeOK, Epochs
      <3>2. late \subseteq Epochs /\ late' = late \union ({work[s]} \ {0})
        BY <1>9, ZenonT(60) DEF TypeOK, MineLoop
      <3> QED
        BY <3>1, <3>2, ZenonT(60)
    <2>2. work' \in [Sessions -> 0..MaxEpoch] /\ wg' \in [Sessions -> Int]
      <3>1. wakeAt[s] \in 0..MaxEpoch
        BY <1>9 DEF TypeOK, MineLoop
      <3> QED
        BY <1>9, <3>1 DEF TypeOK, MineLoop
    <2>3. /\ run' \in [Epochs -> RunSteps]
          /\ owner' \in [Epochs -> 0..session]
          /\ \A e \in Epochs : run'[e] # "none" <=> owner'[e] # 0
      <3>1. s \in 0..session /\ s # 0
        BY <1>9 DEF TypeOK, SessionInv, MineLoop, Sessions
      <3>2. "start" \in RunSteps
        BY DEF RunSteps
      <3>3. CASE skipping
        BY <1>9, <3>3 DEF TypeOK, MineLoop
      <3>4. CASE ~skipping
        BY <1>9, <3>1, <3>2, <3>4 DEF TypeOK, MineLoop
      <3> QED
        BY <3>3, <3>4
    <2>4. loop' \in [Sessions -> {"off", "enter", "wait", "ended"}] /\ loop'[s] # "off"
      BY <1>9 DEF TypeOK, MineLoop
    <2> QED
      BY <1>9, <2>1, <2>2, <2>3, <2>4 DEF TypeOK, SessionInv, MineLoop, flags, outputs
  <1>10. ASSUME NEW e \in Epochs, MineStart(e) \/ MineElect(e) \/ MineProve(e)
         PROVE  TypeInv'
    <2>1. /\ run' \in [Epochs -> RunSteps] /\ wg' \in [Sessions -> Int]
          /\ faults' \in 0..MaxFaults
      BY <1>10 DEF TypeOK, MineStart, MineElect, MineProve, RunFails, RunReturns, RunGoesOn,
                   RunSteps
    <2>2. run[e] # "none" /\ \A f \in Epochs : (run[f] # "none") <=> (run'[f] # "none")
      BY <1>10 DEF TypeOK, MineStart, MineElect, MineProve, RunFails, RunReturns, RunGoesOn
    <2> QED
      BY <1>10, <2>1, <2>2, ZenonT(60) DEF TypeOK, SessionInv, MineStart, MineElect, MineProve, flags,
                               loops, outputs
  <1>11. ASSUME NEW e \in Epochs, MineOutput(e)
         PROVE  TypeInv'
    <2>1. run' \in [Epochs -> RunSteps] /\ wg' \in [Sessions -> Int]
      <3>1. wg \in [Sessions -> Int] /\ wg' = [wg EXCEPT ![owner[e]] = wg[owner[e]] - 1]
        BY <1>11, ZenonT(60) DEF TypeOK, MineOutput, RunReturns
      <3>2. wg' \in [Sessions -> Int]
        BY <3>1, CountDown, ZenonT(60)
      <3>3. run' \in [Epochs -> RunSteps]
        BY <1>11 DEF TypeOK, MineOutput, RunReturns, RunSteps
      <3> QED
        BY <3>2, <3>3
    <2>2. run[e] # "none" /\ \A f \in Epochs : (run[f] # "none") <=> (run'[f] # "none")
      BY <1>11 DEF TypeOK, MineOutput, RunReturns
    <2>3. outCh' \in [Sessions -> {"empty", "block", "error"}]
      BY <1>11, ZenonT(60) DEF TypeOK, MineOutput
    <2> QED
      BY <1>11, <2>1, <2>2, <2>3 DEF TypeOK, SessionInv, MineOutput, RunReturns, flags, loops
  <1>12. ASSUME NEW s \in Sessions, HandlerReturns(s)
         PROVE  TypeInv'
    <2>1. wg' \in [Sessions -> Int]
      <3>1. wg \in [Sessions -> Int] /\ wg' = [wg EXCEPT ![session] = wg[session] - 1]
        BY <1>12, ZenonT(60) DEF TypeOK, HandlerReturns
      <3> QED
        BY <3>1, CountDown, ZenonT(60)
    <2>2. handler' \in [Sessions -> {"off", "receive", "stopping", "ended"}]
      BY <1>12 DEF TypeOK, HandlerReturns
    <2>3. SessionInv'
      BY <1>12 DEF TypeOK, SessionInv, HandlerReturns, flags, loops
    <2> QED
      BY <1>12, <2>1, <2>2, <2>3 DEF TypeOK, HandlerReturns, flags, loops, runs
  <1>13. ASSUME NEW s \in Sessions, HandleError(s)
         PROVE  TypeInv'
    <2>1. outCh' \in [Sessions -> {"empty", "block", "error"}]
      BY <1>13 DEF TypeOK, HandleError
    <2>2. handler' \in [Sessions -> {"off", "receive", "stopping", "ended"}]
      BY <1>13 DEF TypeOK, HandleError
    <2>3. session \in 1..session
      BY <1>13 DEF TypeOK, SessionInv, HandleError, Sessions
    <2>4. SessionInv'
      BY <1>13 DEF TypeOK, SessionInv, HandleError, loops
    <2> QED
      BY <1>13, <2>1, <2>2, <2>3, <2>4, ZenonT(60) DEF TypeOK, HandleError, loops, runs
  <1>14. ASSUME NEW s \in Sessions, HandleBlock(s)
         PROVE  TypeInv'
    <2>1. outCh' \in [Sessions -> {"empty", "block", "error"}]
      BY <1>14 DEF TypeOK, HandleBlock
    <2>2. wg' \in [Sessions -> Int] /\ adders' \in [Sessions -> Nat]
      <3>1. wg \in [Sessions -> Int] /\ wg' = [wg EXCEPT ![session] = wg[session] + 1]
        BY <1>14, ZenonT(60) DEF TypeOK, HandleBlock
      <3>2. wg' \in [Sessions -> Int]
        BY <3>1, CountUp, ZenonT(60)
      <3>3. adders' \in [Sessions -> Nat]
        BY <1>14 DEF TypeOK, HandleBlock
      <3> QED
        BY <3>2, <3>3
    <2> QED
      BY <1>14, <2>1, <2>2 DEF TypeOK, SessionInv, HandleBlock, flags, loops, runs
  <1>15. ASSUME NEW s \in Sessions, AddNewlyMinedBlock(s)
         PROVE  TypeInv'
    <2>1. wg' \in [Sessions -> Int] /\ adders' \in [Sessions -> Nat]
      <3>1. wg \in [Sessions -> Int] /\ wg' = [wg EXCEPT ![session] = wg[session] - 1]
        BY <1>15, ZenonT(60) DEF TypeOK, AddNewlyMinedBlock
      <3>2. wg' \in [Sessions -> Int]
        BY <3>1, CountDown, ZenonT(60)
      <3>3. adders' \in [Sessions -> Nat]
        BY <1>15 DEF TypeOK, AddNewlyMinedBlock
      <3> QED
        BY <3>2, <3>3
    <2> QED
      BY <1>15, <2>1 DEF TypeOK, SessionInv, AddNewlyMinedBlock, flags, loops, runs
  <1>16. CASE UNCHANGED vars
    BY <1>16 DEF TypeOK, SessionInv, vars
  <1> QED
    BY <1>1, <1>2, <1>3, <1>4, <1>5, <1>6, <1>7, <1>8, <1>9, <1>10, <1>11, <1>12, <1>13,
       <1>14, <1>15, <1>16 DEF Next

\* Everything mining keeps has its type throughout, and the output channels of
\* the sessions never hold more than one output.
THEOREM TypeCorrect == Spec => []TypeOK
  <1>1. TypeInv => TypeOK
    BY DEF TypeInv
  <1> QED
    BY <1>1, TypeInit, TypeStep, PTL DEF Spec

-----------------------------------------------------------------------------
(* One live run *)

\* The loops of earlier sessions have ended, and a loop ends only once its
\* session is cancelled; when the scheduler is not started, the latest has too.
LoopInv ==
    /\ \A s \in Sessions : /\ loop[s] = "ended" => s \in cancelled
                           /\ s < session => loop[s] = "ended"
    /\ ~isStarted /\ session # 0 => loop[session] = "ended"

\* A run whose context is live is the one whose context its loop holds.
WorkInv == \A e \in Epochs : Running(e) /\ ~Cancelled(e) => work[owner[e]] = e

\* Only the start of a session and its loop touch what LoopInv mentions.
LEMMA LoopStep == TypeInv /\ LoopInv /\ [Next]_vars => LoopInv'
  <1> SUFFICES ASSUME TypeInv, LoopInv, [Next]_vars
               PROVE  LoopInv'
    OBVIOUS
  <1>1. ASSUME UNCHANGED <<loop, session, isStarted>>, cancelled \subseteq cancelled'
        PROVE  LoopInv'
    BY <1>1 DEF LoopInv
  <1>2. CASE StartMining
    <2>1. session' = session + 1 /\ session \in Nat /\ isStarted' /\ cancelled' = cancelled
      BY <1>2 DEF TypeInv, TypeOK, StartMining
    <2>2. \A s \in Sessions : s # session + 1 => loop'[s] = loop[s]
      BY <1>2 DEF TypeInv, TypeOK, StartMining
    <2>3. session + 1 \in Sessions /\ loop'[session + 1] = "enter"
      <3>1. session + 1 \in Sessions
        BY <1>2, MiningAssumption DEF TypeInv, TypeOK, StartMining, Sessions
      <3> QED
        BY <1>2, <3>1 DEF TypeInv, TypeOK, StartMining
    <2>4. ASSUME NEW s \in Sessions
          PROVE  (loop'[s] = "ended" => s \in cancelled') /\ (s < session' => loop'[s] = "ended")
      <3>1. CASE s = session + 1
        BY <2>1, <2>3, <3>1
      <3>2. CASE s # session + 1 /\ s < session'
        <4>1. s \in Nat /\ s <= session /\ s # 0
          BY <2>1, <3>2 DEF Sessions
        <4>2. ~isStarted
          BY <1>2 DEF StartMining
        <4>3. loop[s] = "ended"
          BY <2>1, <4>1, <4>2 DEF LoopInv
        <4> QED
          BY <2>1, <2>2, <3>2, <4>3 DEF LoopInv
      <3>3. CASE s # session + 1 /\ ~(s < session')
        BY <2>1, <2>2, <3>3 DEF LoopInv
      <3> QED
        BY <3>1, <3>2, <3>3
    <2> QED
      BY <2>1, <2>4 DEF LoopInv
  <1>3. CASE SetIsMining \/ StopMining \/ StopMiningReturns \/ Pause \/ ClockTicks
    BY <1>1, <1>3 DEF SetIsMining, StopMining, StopMiningReturns, Pause, ClockTicks, flags, loops
  <1>4. ASSUME NEW s \in Sessions, WaitNextEpoch(s) \/ MineLoop(s)
        PROVE  LoopInv'
    <2>1. /\ UNCHANGED <<session, isStarted, cancelled>>
          /\ loop[s] \in {"enter", "wait"} /\ loop'[s] \in {"enter", "wait"}
          /\ \A r \in Sessions : r # s => loop'[r] = loop[r]
      BY <1>4 DEF TypeInv, TypeOK, WaitNextEpoch, MineLoop, flags
    <2>2. ~(s < session)
      BY <2>1 DEF LoopInv
    <2>3. ~isStarted /\ session # 0 => session \in Sessions /\ session # s
      BY <2>1 DEF LoopInv, TypeInv, TypeOK, Sessions
    <2> QED
      BY <2>1, <2>2, <2>3 DEF LoopInv
  <1>5. ASSUME NEW s \in Sessions, MineLoopEnds(s)
        PROVE  LoopInv'
    <2>1. /\ UNCHANGED <<session, cancelled>> /\ s \in cancelled
          /\ loop[s] = "wait" /\ loop'[s] = "ended"
          /\ \A r \in Sessions : r # s => loop'[r] = loop[r]
      BY <1>5 DEF TypeInv, TypeOK, MineLoopEnds
    <2>2. s = session
      BY <2>1 DEF LoopInv, TypeInv, TypeOK, SessionInv, Sessions
    <2> QED
      BY <2>1, <2>2 DEF LoopInv
  <1>6. ASSUME NEW e \in Epochs,
               MineStart(e) \/ MineElect(e) \/ MineProve(e) \/ MineOutput(e)
        PROVE  LoopInv'
    BY <1>1, <1>6 DEF MineStart, MineElect, MineProve, MineOutput, flags, loops
  <1>7. ASSUME NEW s \in Sessions,
               HandlerReturns(s) \/ HandleError(s) \/ HandleBlock(s) \/ AddNewlyMinedBlock(s)
        PROVE  LoopInv'
    BY <1>1, <1>7 DEF HandlerReturns, HandleError, HandleBlock, AddNewlyMinedBlock, flags, loops
  <1>8. CASE UNCHANGED vars
    BY <1>1, <1>8 DEF vars
  <1> QED
    BY <1>2, <1>3, <1>4, <1>5, <1>6, <1>7, <1>8 DEF Next

\* The loop cancels the run whose context it holds before it starts another.
LEMMA WorkStep == TypeInv /\ WorkInv /\ [Next]_vars => WorkInv'
  <1> SUFFICES ASSUME TypeInv, WorkInv, [Next]_vars
               PROVE  WorkInv'
    OBVIOUS
  <1>1. ASSUME UNCHANGED <<work, owner, late>>, cancelled \subseteq cancelled',
               \A e \in Epochs : Running(e)' => Running(e)
        PROVE  WorkInv'
    BY <1>1 DEF WorkInv, Cancelled
  <1>2. CASE StartMining \/ SetIsMining \/ StopMining \/ StopMiningReturns \/ Pause \/ ClockTicks
    BY <1>1, <1>2 DEF StartMining, SetIsMining, StopMining, StopMiningReturns, Pause, ClockTicks,
                      flags, loops, runs, Running
  <1>3. ASSUME NEW s \in Sessions, WaitNextEpoch(s) \/ MineLoopEnds(s)
        PROVE  WorkInv'
    BY <1>1, <1>3 DEF WaitNextEpoch, MineLoopEnds, runs, Running
  <1>4. ASSUME NEW s \in Sessions, MineLoop(s)
        PROVE  WorkInv'
    <2>1. late' = late \union ({work[s]} \ {0}) /\ cancelled' = cancelled
      BY <1>4 DEF MineLoop
    <2>2. CASE skipping
      <3>1. UNCHANGED <<work, run, owner>>
        BY <1>4, <2>2 DEF MineLoop
      <3> QED
        BY <2>1, <3>1 DEF WorkInv, Cancelled, Running
    <2>3. CASE ~skipping
      <3>1. SUFFICES ASSUME NEW e \in Epochs, Running(e)', ~Cancelled(e)'
                     PROVE  work'[owner'[e]] = e
        BY DEF WorkInv
      <3>2. /\ work' = [work EXCEPT ![s] = wakeAt[s]]
            /\ run' = [run EXCEPT ![wakeAt[s]] = "start"]
            /\ owner' = [owner EXCEPT ![wakeAt[s]] = s]
        BY <1>4, <2>3 DEF MineLoop
      <3>3. CASE e = wakeAt[s]
        BY <3>2, <3>3 DEF TypeInv, TypeOK
      <3>4. CASE e # wakeAt[s]
        <4>1. owner'[e] = owner[e] /\ run'[e] = run[e]
          BY <3>2, <3>4 DEF TypeInv, TypeOK
        <4>2. Running(e) /\ ~Cancelled(e) /\ e # 0
          BY <2>1, <3>1, <4>1 DEF Running, Cancelled, Epochs
        <4>3. work[owner[e]] = e
          BY <4>2 DEF WorkInv
        <4>4. owner[e] # s
          BY <2>1, <3>1, <4>2, <4>3 DEF Cancelled
        <4>5. work'[owner[e]] = work[owner[e]]
          BY <3>2, <4>4 DEF TypeInv, TypeOK
        <4> QED
          BY <4>1, <4>3, <4>5, ZenonT(60)
      <3> QED
        BY <3>3, <3>4
    <2> QED
      BY <2>2, <2>3
  <1>5. ASSUME NEW e \in Epochs,
               MineStart(e) \/ MineElect(e) \/ MineProve(e) \/ MineOutput(e)
        PROVE  WorkInv'
    <2>1. UNCHANGED <<work, owner, late, cancelled>>
      BY <1>5 DEF MineStart, MineElect, MineProve, MineOutput, loops
    <2>2. run[e] \notin {"none", "returned"} /\ \A f \in Epochs : f # e => run'[f] = run[f]
      BY <1>5 DEF MineStart, MineElect, MineProve, MineOutput, RunFails, RunReturns, RunGoesOn,
                  TypeInv, TypeOK
    <2> QED
      BY <1>1, <2>1, <2>2 DEF Running
  <1>6. ASSUME NEW s \in Sessions,
               HandlerReturns(s) \/ HandleError(s) \/ HandleBlock(s) \/ AddNewlyMinedBlock(s)
        PROVE  WorkInv'
    BY <1>1, <1>6, ZenonT(60) DEF HandlerReturns, HandleError, HandleBlock, AddNewlyMinedBlock, loops, runs,
                      Running
  <1>7. CASE UNCHANGED vars
    BY <1>1, <1>7 DEF vars, Running
  <1> QED
    BY <1>2, <1>3, <1>4, <1>5, <1>6, <1>7 DEF Next

\* However mining is paused, stopped and started again, and even after a run
\* has failed, at most one mining run is live, the last one its loop started.
THEOREM AtMostOneLiveRun == Spec => []OneLiveRun
  <1>1. Init => LoopInv /\ WorkInv
    <2> SUFFICES ASSUME Init
                 PROVE  LoopInv /\ WorkInv
      OBVIOUS
    <2>1. \A s \in Sessions : loop[s] = "off" /\ ~(s < session)
      BY MiningAssumption DEF Init, Sessions
    <2>2. \A e \in Epochs : ~Running(e)
      BY DEF Init, Running
    <2>3. session = 0
      BY DEF Init
    <2> QED
      BY <2>1, <2>2, <2>3 DEF LoopInv, WorkInv
  <1>2. TypeInv /\ LoopInv /\ WorkInv => OneLiveRun
    <2> SUFFICES ASSUME TypeInv, LoopInv, WorkInv,
                        NEW e \in Epochs, NEW f \in Epochs,
                        Running(e), Running(f), ~Cancelled(e), ~Cancelled(f)
                 PROVE  e = f
      BY DEF OneLiveRun
    <2>1. ASSUME NEW g \in Epochs, Running(g), ~Cancelled(g)
          PROVE  owner[g] = session
      <3>1. owner[g] \in 0..session /\ owner[g] # 0 /\ session \in 0..MaxSessions
        BY <2>1 DEF TypeInv, TypeOK, Running
      <3>2. owner[g] \in Sessions /\ owner[g] \notin cancelled
        BY <2>1, <3>1, MiningAssumption DEF Cancelled, Sessions
      <3>3. ~(owner[g] < session)
        BY <3>2 DEF LoopInv
      <3> QED
        BY <3>1, <3>3, MiningAssumption
    <2>2. work[session] = e /\ work[session] = f
      BY <2>1 DEF WorkInv
    <2> QED
      BY <2>2
  <1> QED
    BY <1>1, <1>2, TypeInit, TypeStep, LoopStep, WorkStep, PTL DEF Spec

-----------------------------------------------------------------------------
(* A clean stop *)

\* Runs belong to epochs of the past, and a loop that waits has had no run yet
\* for the epoch it waits for, nor has any other.
ClockInv ==
    /\ \A e \in Epochs : run[e] # "none" => e <= epoch
    /\ \A s \in Sessions : loop[s] = "wait" =>
           /\ wakeAt[s] >= 1
           /\ \A e \in Epochs : run[e] # "none" => e < wakeAt[s]

\* The runs of a session, and a session nothing of which goes on.
RunsOf(s) == {e \in Epochs : owner[e] = s /\ Running(e)}
Quiet(s) ==
    /\ loop[s] \in {"off", "ended"}
    /\ handler[s] \in {"off", "ended"}
    /\ adders[s] = 0
    /\ RunsOf(s) = {}

\* A session's goroutines are exactly those its wait group counts.
Loops(s) == IF loop[s] \in {"enter", "wait"} THEN 1 ELSE 0
Handlers(s) == IF handler[s] = "receive" THEN 1 ELSE 0
Counted(s) == wg[s] = Loops(s) + Cardinality(RunsOf(s)) + Handlers(s) + adders[s]

\* Every session but the one that mines is quiet, so that what counts itself out
\* of the group the node has now was counted in there; and the node mines from
\* the return of StartMining to StopMining.
Orderly ==
    /\ isMining <=> api = "mining"
    /\ isStarted => session # 0 /\ loop[session] \in {"enter", "wait"}
    /\ \A e \in Epochs : run[e] # "error"
    /\ \A s \in Sessions : outCh[s] # "error" /\ handler[s] # "stopping"
    /\ \A s \in Sessions : s # session \/ api = "stopped" => Quiet(s)

\* That lasts as long as no run has failed.
QuietInv == faults = 0 => Orderly /\ \A s \in Sessions : Counted(s)

\* A session has finitely many runs.
LEMMA RunsFinite ==
    ASSUME NEW s
    PROVE  IsFiniteSet(RunsOf(s)) /\ Cardinality(RunsOf(s)) \in Nat
  <1>1. IsFiniteSet(Epochs)
    BY MiningAssumption, FS_Interval DEF Epochs
  <1>2. RunsOf(s) \subseteq Epochs
    BY DEF RunsOf
  <1>3. IsFiniteSet(RunsOf(s))
    BY <1>1, <1>2, FS_Subset
  <1> QED
    BY <1>3, FS_CardinalityType

\* What a group counts is in numbers.
LEMMA GroupTypes ==
    ASSUME TypeInv, NEW s \in Sessions
    PROVE  /\ wg[s] \in Int /\ adders[s] \in Nat /\ Cardinality(RunsOf(s)) \in Nat
           /\ Loops(s) \in Nat /\ Handlers(s) \in Nat
  BY RunsFinite DEF TypeInv, TypeOK, Loops, Handlers

\* Only the latest session's loop goes on.
LEMMA LatestLoop ==
    ASSUME TypeInv, LoopInv, NEW s \in Sessions, loop[s] \in {"enter", "wait"}
    PROVE  s = session
  <1>1. s \in Nat /\ session \in Nat
    BY MiningAssumption DEF TypeInv, TypeOK, Sessions
  <1>2. ~(s > session)
    BY DEF TypeInv, SessionInv
  <1>3. ~(s < session)
    BY DEF LoopInv
  <1> QED
    BY <1>1, <1>2, <1>3

\* The clock only moves on, and only the latest session's loop starts runs.
LEMMA ClockStep == TypeInv /\ LoopInv /\ ClockInv /\ [Next]_vars => ClockInv'
  <1> SUFFICES ASSUME TypeInv, LoopInv, ClockInv, [Next]_vars
               PROVE  ClockInv'
    OBVIOUS
  <1> USE MiningAssumption
  <1>1. ASSUME UNCHANGED <<loop, wakeAt>>, epoch' \in {epoch, epoch + 1},
               \A e \in Epochs : run'[e] # "none" => run[e] # "none"
        PROVE  ClockInv'
    <2>1. epoch \in Nat /\ epoch' \in Nat /\ epoch <= epoch'
      BY <1>1 DEF TypeInv, TypeOK
    <2>2. \A e \in Epochs : run'[e] # "none" => e <= epoch'
      BY <1>1, <2>1 DEF ClockInv, Epochs
    <2> QED
      BY <1>1, <2>2 DEF ClockInv
  <1>2. CASE StartMining
    <2>1. UNCHANGED <<run, epoch, wakeAt>>
      BY <1>2 DEF StartMining, runs
    <2>2. \A s \in Sessions : loop'[s] = "wait" => loop[s] = "wait"
      BY <1>2 DEF StartMining, TypeInv, TypeOK
    <2> QED
      BY <2>1, <2>2 DEF ClockInv
  <1>3. CASE SetIsMining \/ StopMining \/ StopMiningReturns \/ Pause \/ ClockTicks
    BY <1>1, <1>3 DEF SetIsMining, StopMining, StopMiningReturns, Pause, ClockTicks, loops, runs
  <1>4. ASSUME NEW s \in Sessions, WaitNextEpoch(s)
        PROVE  ClockInv'
    <2>1. UNCHANGED <<run, epoch>> /\ wakeAt'[s] = epoch + 1 /\ epoch \in Nat
      BY <1>4 DEF WaitNextEpoch, runs, TypeInv, TypeOK
    <2>2. \A r \in Sessions : r # s => loop'[r] = loop[r] /\ wakeAt'[r] = wakeAt[r]
      BY <1>4 DEF WaitNextEpoch, TypeInv, TypeOK
    <2>3. \A e \in Epochs : run[e] # "none" => e < wakeAt'[s]
      BY <2>1 DEF ClockInv, Epochs
    <2> QED
      BY <2>1, <2>2, <2>3 DEF ClockInv
  <1>5. ASSUME NEW s \in Sessions, MineLoopEnds(s)
        PROVE  ClockInv'
    <2>1. UNCHANGED <<run, epoch, wakeAt>>
      BY <1>5 DEF MineLoopEnds, runs
    <2>2. \A r \in Sessions : loop'[r] = "wait" => loop[r] = "wait"
      BY <1>5 DEF MineLoopEnds, TypeInv, TypeOK
    <2> QED
      BY <2>1, <2>2 DEF ClockInv
  <1>6. ASSUME NEW s \in Sessions, MineLoop(s)
        PROVE  ClockInv'
    <2>1. /\ UNCHANGED <<epoch, wakeAt, session>> /\ loop[s] = "wait" /\ loop'[s] = "enter"
          /\ epoch >= wakeAt[s]
          /\ \A e \in Epochs : e # wakeAt[s] => run'[e] = run[e]
      BY <1>6 DEF MineLoop, flags, TypeInv, TypeOK
    <2>2. ASSUME NEW r \in Sessions
          PROVE  loop'[r] # "wait"
      <3>1. CASE r = s
        BY <2>1, <3>1
      <3>2. CASE r # s
        <4>1. s = session
          BY <2>1, LatestLoop
        <4>2. loop[r] # "wait"
          BY <3>2, <4>1, LatestLoop
        <4> QED
          BY <1>6, <3>2, <4>2 DEF MineLoop, TypeInv, TypeOK
      <3> QED
        BY <3>1, <3>2
    <2>3. \A e \in Epochs : run'[e] # "none" => e <= epoch'
      BY <2>1 DEF ClockInv, TypeInv, TypeOK, Epochs
    <2> QED
      BY <2>2, <2>3 DEF ClockInv
  <1>7. ASSUME NEW e \in Epochs,
               MineStart(e) \/ MineElect(e) \/ MineProve(e) \/ MineOutput(e)
        PROVE  ClockInv'
    <2>1. run[e] # "none" /\ \A f \in Epochs : f # e => run'[f] = run[f]
      BY <1>7 DEF MineStart, MineElect, MineProve, MineOutput, RunFails, RunReturns, RunGoesOn,
                  TypeInv, TypeOK
    <2>2. UNCHANGED <<loop, wakeAt, epoch>>
      BY <1>7, ZenonT(60) DEF MineStart, MineElect, MineProve, MineOutput, loops
    <2> QED
      BY <1>1, <2>1, <2>2
  <1>8. ASSUME NEW s \in Sessions,
               HandlerReturns(s) \/ HandleError(s) \/ HandleBlock(s) \/ AddNewlyMinedBlock(s)
        PROVE  ClockInv'
    BY <1>1, <1>8, ZenonT(60) DEF HandlerReturns, HandleError, HandleBlock, AddNewlyMinedBlock, loops, runs
  <1>9. CASE UNCHANGED vars
    BY <1>1, <1>9 DEF vars
  <1> QED
    BY <1>2, <1>3, <1>4, <1>5, <1>6, <1>7, <1>8, <1>9 DEF Next

\* A loop, a handler, an adder or a run that goes on belongs to the session the
\* node has now, and StopMining has not returned.
LEMMA ActiveIsLatest ==
    ASSUME TypeInv, Orderly, NEW s \in Sessions,
           \/ loop[s] \in {"enter", "wait"}
           \/ handler[s] = "receive"
           \/ adders[s] > 0
           \/ \E e \in Epochs : owner[e] = s /\ Running(e)
    PROVE  s = session /\ api # "stopped"
  <1>1. ~Quiet(s)
    BY DEF Quiet, RunsOf, TypeInv, TypeOK
  <1> QED
    BY <1>1 DEF Orderly

\* A run that goes on belongs to a session.
LEMMA RunHasOwner ==
    ASSUME TypeInv, NEW e \in Epochs, Running(e)
    PROVE  owner[e] \in Sessions
  <1>1. owner[e] \in 0..session /\ owner[e] # 0 /\ session \in 0..MaxSessions
    BY DEF TypeInv, TypeOK, Running
  <1> QED
    BY <1>1, MiningAssumption DEF Sessions

\* When the group of the node's session is empty, the session is quiet.
LEMMA EmptyGroupIsQuiet ==
    ASSUME TypeInv, Orderly, session \in Sessions, Counted(session), wg[session] = 0
    PROVE  Quiet(session)
  <1>1. /\ Loops(session) = 0 /\ Cardinality(RunsOf(session)) = 0
        /\ Handlers(session) = 0 /\ adders[session] = 0
    BY GroupTypes DEF Counted
  <1>2. RunsOf(session) = {}
    BY <1>1, RunsFinite, FS_EmptySet
  <1>3. loop[session] \in {"off", "ended"} /\ handler[session] \in {"off", "ended"}
    BY <1>1 DEF Orderly, TypeInv, TypeOK, Loops, Handlers
  <1> QED
    BY <1>1, <1>2, <1>3, ZenonT(60) DEF Quiet

\* No step that is not a failure leaves something behind in another session.
LEMMA OrderlyStep ==
    ASSUME TypeInv, Orderly, \A s \in Sessions : Counted(s), [Next]_vars, faults' = faults
    PROVE  Orderly'
  <1> USE MiningAssumption
  <1>1. ASSUME UNCHANGED <<isMining, isStarted, session, api, loop, run, owner, outCh, handler,
                           adders>>
        PROVE  Orderly'
    BY <1>1 DEF Orderly, Quiet, RunsOf, Running
  <1>2. CASE StartMining
    <2>1. /\ session \in 0..MaxSessions /\ session' = session + 1 /\ session + 1 \in Sessions
          /\ api' = "starting" /\ ~isMining' /\ isStarted'
          /\ UNCHANGED <<run, owner, outCh, adders>>
      BY <1>2 DEF StartMining, runs, TypeInv, TypeOK, Sessions
    <2>2. /\ loop'[session + 1] = "enter" /\ handler'[session + 1] = "receive"
          /\ \A r \in Sessions : r # session + 1 => loop'[r] = loop[r] /\ handler'[r] = handler[r]
      BY <1>2, <2>1 DEF StartMining, TypeInv, TypeOK
    <2>3. \A r \in Sessions : Quiet(r)
      BY <1>2 DEF StartMining, Orderly
    <2>4. ASSUME NEW r \in Sessions, r # session'
          PROVE  Quiet(r)'
      BY <2>1, <2>2, <2>3, <2>4, ZenonT(60) DEF Quiet, RunsOf, Running
    <2>5. \A r \in Sessions : outCh'[r] # "error" /\ handler'[r] # "stopping"
      BY <2>1, <2>2 DEF Orderly
    <2> QED
      BY <2>1, <2>2, <2>4, <2>5 DEF Orderly
  <1>3. CASE SetIsMining
    BY <1>3, ZenonT(60) DEF SetIsMining, Orderly, Quiet, RunsOf, Running, loops, runs, outputs
  <1>4. CASE StopMining
    BY <1>4, ZenonT(60) DEF StopMining, Orderly, Quiet, RunsOf, Running, loops, runs, outputs
  <1>5. CASE StopMiningReturns
    <2>1. session \in Sessions
      BY <1>5 DEF StopMiningReturns, TypeInv, TypeOK, SessionInv, Sessions
    <2>2. Quiet(session)
      BY <1>5, <2>1, EmptyGroupIsQuiet DEF StopMiningReturns
    <2>3. \A s \in Sessions : Quiet(s)
      BY <2>2 DEF Orderly
    <2>4. ~isStarted
      BY <2>2 DEF Orderly, Quiet
    <2>5. UNCHANGED <<isMining, isStarted, session, loop, run, owner, outCh, handler, adders>>
      BY <1>5 DEF StopMiningReturns, flags, loops, runs, outputs
    <2>6. \A s \in Sessions : Quiet(s)'
      BY <2>3, <2>5 DEF Quiet, RunsOf, Running
    <2> QED
      BY <1>5, <2>4, <2>5, <2>6 DEF StopMiningReturns, Orderly
  <1>6. CASE Pause \/ ClockTicks
    BY <1>1, <1>6 DEF Pause, ClockTicks, flags, loops, runs, outputs
  <1>7. ASSUME NEW s \in Sessions, WaitNextEpoch(s) \/ MineLoopEnds(s) \/ MineLoop(s)
        PROVE  Orderly'
    <2>1. s = session /\ api # "stopped"
      BY <1>7, ActiveIsLatest, ZenonT(60) DEF WaitNextEpoch, MineLoopEnds, MineLoop
    <2>2. /\ UNCHANGED <<isMining, session, api, outCh, handler, adders>>
          /\ \A r \in Sessions : r # s => loop'[r] = loop[r]
      BY <1>7, ZenonT(60) DEF WaitNextEpoch, MineLoopEnds, MineLoop, flags, outputs, TypeInv, TypeOK
    <2>3. isStarted' => session # 0 /\ loop'[session] \in {"enter", "wait"}
      <3>1. session # 0
        BY <2>1 DEF Sessions
      <3>2. CASE MineLoopEnds(s)
        BY <3>2 DEF MineLoopEnds
      <3>3. CASE WaitNextEpoch(s) \/ MineLoop(s)
        <4>1. loop'[s] \in {"enter", "wait"}
          BY <3>3 DEF WaitNextEpoch, MineLoop, TypeInv, TypeOK
        <4> QED
          BY <2>1, <3>1, <4>1
      <3> QED
        BY <1>7, <3>1, <3>2, <3>3
    <2>4. \A e \in Epochs : run'[e] # "error" /\ \/ run'[e] = run[e] /\ owner'[e] = owner[e]
                                                 \/ owner'[e] = s
      BY <1>7 DEF WaitNextEpoch, MineLoopEnds, MineLoop, runs, TypeInv, TypeOK, Orderly
    <2>5. ASSUME NEW r \in Sessions, r # session
          PROVE  Quiet(r)'
      <3>1. Quiet(r)
        BY <2>5 DEF Orderly
      <3>2. RunsOf(r)' = {}
        BY <2>1, <2>4, <2>5, <3>1 DEF Quiet, RunsOf, Running
      <3> QED
        BY <2>1, <2>2, <2>5, <3>1, <3>2, ZenonT(60) DEF Quiet
    <2> QED
      BY <2>1, <2>2, <2>3, <2>4, <2>5 DEF Orderly
  <1>8. ASSUME NEW e \in Epochs,
               MineStart(e) \/ MineElect(e) \/ MineProve(e) \/ MineOutput(e)
        PROVE  Orderly'
    <2>1. run[e] \notin {"none", "returned"}
      BY <1>8, ZenonT(60) DEF MineStart, MineElect, MineProve, MineOutput
    <2>2. owner[e] = session /\ api # "stopped"
      <3>1. owner[e] \in Sessions /\ Running(e)
        BY <2>1, RunHasOwner, ZenonT(60) DEF Running
      <3> QED
        BY <3>1, ActiveIsLatest
    <2>3. /\ UNCHANGED <<isMining, isStarted, session, api, loop, owner, handler, adders>>
          /\ \A f \in Epochs : f # e => run'[f] = run[f]
      BY <1>8, ZenonT(60) DEF MineStart, MineElect, MineProve, MineOutput, RunFails, RunReturns, RunGoesOn,
                  flags, loops, outputs, TypeInv, TypeOK
    <2>4. run'[e] # "error"
      BY <1>8 DEF MineStart, MineElect, MineProve, MineOutput, RunFails, RunReturns, RunGoesOn,
                  TypeInv, TypeOK
    <2>5. \A s \in Sessions : outCh'[s] # "error"
      BY <1>8, ZenonT(60) DEF MineStart, MineElect, MineProve, MineOutput, outputs, TypeInv, TypeOK, Orderly
    <2>6. ASSUME NEW r \in Sessions, r # session
          PROVE  Quiet(r)'
      <3>1. Quiet(r)
        BY <2>6 DEF Orderly
      <3>2. RunsOf(r)' = {}
        BY <2>2, <2>3, <2>6, <3>1, ZenonT(60) DEF Quiet, RunsOf, Running
      <3> QED
        BY <2>3, <3>1, <3>2, ZenonT(60) DEF Quiet
    <2> QED
      BY <2>2, <2>3, <2>4, <2>5, <2>6, ZenonT(60) DEF Orderly
  <1>9. ASSUME NEW s \in Sessions, HandlerReturns(s) \/ HandleBlock(s) \/ AddNewlyMinedBlock(s)
        PROVE  Orderly'
    <2>1. s = session /\ api # "stopped"
      BY <1>9, ActiveIsLatest, ZenonT(60) DEF HandlerReturns, HandleBlock, AddNewlyMinedBlock
    <2>2. /\ UNCHANGED <<isMining, isStarted, session, api, loop, run, owner>>
          /\ \A r \in Sessions : r # s => handler'[r] = handler[r] /\ adders'[r] = adders[r]
          /\ handler'[s] # "stopping"
      BY <1>9, ZenonT(60) DEF HandlerReturns, HandleBlock, AddNewlyMinedBlock, flags, loops, runs,
                  TypeInv, TypeOK, Orderly
    <2>3. \A r \in Sessions : outCh'[r] # "error"
      BY <1>9, ZenonT(60) DEF HandlerReturns, HandleBlock, AddNewlyMinedBlock, TypeInv, TypeOK, Orderly
    <2>4. ASSUME NEW r \in Sessions, r # session
          PROVE  Quiet(r)'
      BY <2>1, <2>2, <2>4, ZenonT(60) DEF Orderly, Quiet, RunsOf, Running
    <2> QED
      BY <2>1, <2>2, <2>3, <2>4 DEF Orderly
  <1>10. ASSUME NEW s \in Sessions, HandleError(s)
         PROVE  Orderly'
    BY <1>10, ZenonT(60) DEF HandleError, Orderly
  <1>11. CASE UNCHANGED vars
    BY <1>1, <1>11 DEF vars
  <1> QED
    BY <1>2, <1>3, <1>4, <1>5, <1>6, <1>7, <1>8, <1>9, <1>10, <1>11 DEF Next

\* A step that touches one session's goroutines leaves the other groups exact.
LEMMA OthersCounted ==
    ASSUME \A s \in Sessions : Counted(s), NEW x,
           \A r \in Sessions \ {x} : /\ wg'[r] = wg[r] /\ loop'[r] = loop[r]
                                     /\ handler'[r] = handler[r] /\ adders'[r] = adders[r]
                                     /\ RunsOf(r)' = RunsOf(r),
           x \in Sessions => Counted(x)'
    PROVE  \A s \in Sessions : Counted(s)'
  <1> SUFFICES ASSUME NEW s \in Sessions, s # x
               PROVE  Counted(s)'
    BY ZenonT(60)
  <1> QED
    BY ZenonT(60) DEF Counted, Loops, Handlers

\* Every goroutine is counted in where it starts and out where it ends.
LEMMA CountStep ==
    ASSUME TypeInv, ClockInv, Orderly, \A s \in Sessions : Counted(s), [Next]_vars,
           faults' = faults
    PROVE  \A s \in Sessions : Counted(s)'
  <1> USE MiningAssumption
  <1>1. ASSUME UNCHANGED <<wg, loop, run, owner, handler, adders>>
        PROVE  \A s \in Sessions : Counted(s)'
    BY <1>1, ZenonT(60) DEF Counted, Loops, Handlers, RunsOf, Running
  <1>2. CASE StartMining
    <2>1. /\ session + 1 \in Sessions /\ UNCHANGED <<run, owner, adders>>
          /\ session \in Nat
      BY <1>2 DEF StartMining, runs, TypeInv, TypeOK, Sessions
    <2>2. PICK n \in Sessions : n = session + 1
      BY <2>1
    <2>3. /\ loop'[n] = "enter" /\ handler'[n] = "receive" /\ wg'[n] = 2
          /\ \A r \in Sessions \ {n} : /\ wg'[r] = wg[r] /\ loop'[r] = loop[r]
                                       /\ handler'[r] = handler[r]
      BY <1>2, <2>2 DEF StartMining, TypeInv, TypeOK
    <2>4. \A r \in Sessions : RunsOf(r)' = RunsOf(r)
      BY <2>1 DEF RunsOf, Running
    <2>5. Quiet(n)
      BY <2>1, <2>2 DEF Orderly
    <2>6. Counted(n)'
      <3>1. Cardinality(RunsOf(n)') = 0 /\ adders'[n] = 0
        BY <2>1, <2>4, <2>5, FS_EmptySet DEF Quiet
      <3> QED
        BY <2>3, <3>1 DEF Counted, Loops, Handlers
    <2> QED
      BY <2>1, <2>3, <2>4, <2>6, OthersCounted, ZenonT(60)
  <1>3. CASE SetIsMining \/ StopMining \/ StopMiningReturns \/ Pause \/ ClockTicks
    BY <1>1, <1>3, ZenonT(60) DEF SetIsMining, StopMining, StopMiningReturns, Pause, ClockTicks, loops, runs,
                      outputs
  <1>4. ASSUME NEW s \in Sessions, WaitNextEpoch(s)
        PROVE  \A r \in Sessions : Counted(r)'
    <2>1. UNCHANGED <<wg, run, owner, handler, adders>>
      BY <1>4 DEF WaitNextEpoch, runs, outputs
    <2>2. \A r \in Sessions : loop'[r] \in {"enter", "wait"} <=> loop[r] \in {"enter", "wait"}
      BY <1>4 DEF WaitNextEpoch, TypeInv, TypeOK
    <2>3. \A r \in Sessions : RunsOf(r)' = RunsOf(r)
      BY <2>1 DEF RunsOf, Running
    <2> QED
      BY <2>1, <2>2, <2>3, ZenonT(60) DEF Counted, Loops, Handlers
  <1>5. ASSUME NEW s \in Sessions, MineLoopEnds(s)
        PROVE  \A r \in Sessions : Counted(r)'
    <2>1. UNCHANGED <<run, owner, handler, adders>>
      BY <1>5 DEF MineLoopEnds, runs, outputs
    <2>2. \A r \in Sessions : RunsOf(r)' = RunsOf(r)
      BY <2>1 DEF RunsOf, Running
    <2>3. \A r \in Sessions \ {s} : wg'[r] = wg[r] /\ loop'[r] = loop[r]
      BY <1>5 DEF MineLoopEnds, TypeInv, TypeOK
    <2>4. wg'[s] = wg[s] - 1 /\ loop[s] = "wait" /\ loop'[s] = "ended"
      BY <1>5 DEF MineLoopEnds, TypeInv, TypeOK
    <2>5. Counted(s)'
      <3>1. UNCHANGED <<Handlers(s), adders[s]>> /\ Loops(s) = 1 /\ Loops(s)' = 0
        BY <2>1, <2>4 DEF Loops, Handlers
      <3> QED
        BY <2>2, <2>4, <3>1, GroupTypes DEF Counted
    <2> QED
      BY <2>1, <2>2, <2>3, <2>5, OthersCounted, ZenonT(60)
  <1>6. ASSUME NEW s \in Sessions, MineLoop(s)
        PROVE  \A r \in Sessions : Counted(r)'
    <2>1. /\ UNCHANGED <<handler, adders>> /\ loop[s] = "wait" /\ loop'[s] = "enter"
          /\ \A r \in Sessions \ {s} : loop'[r] = loop[r]
      BY <1>6, ZenonT(60) DEF MineLoop, outputs, TypeInv, TypeOK
    <2>2. CASE skipping
      <3>1. UNCHANGED <<run, owner, wg>>
        BY <1>6, <2>2 DEF MineLoop
      <3>2. \A r \in Sessions : RunsOf(r)' = RunsOf(r)
        BY <3>1 DEF RunsOf, Running
      <3>3. Counted(s)'
        BY <2>1, <3>1, <3>2 DEF Counted, Loops, Handlers
      <3> QED
        BY <2>1, <3>1, <3>2, <3>3, OthersCounted, ZenonT(60)
    <2>3. CASE ~skipping
      <3> DEFINE e == wakeAt[s]
      <3>1. e \in Epochs /\ run[e] = "none"
        <4>1. e \in Epochs
          BY <1>6, <2>1 DEF MineLoop, ClockInv, TypeInv, TypeOK, Epochs
        <4>2. ~(e < e)
          BY <4>1 DEF Epochs
        <4> QED
          BY <2>1, <4>1, <4>2, ZenonT(60) DEF ClockInv
      <3>2. /\ run' = [run EXCEPT ![e] = "start"] /\ owner' = [owner EXCEPT ![e] = s]
            /\ wg' = [wg EXCEPT ![s] = @ + 1]
        BY <1>6, <2>3 DEF MineLoop
      <3>3. \A f \in Epochs : f # e => run'[f] = run[f] /\ owner'[f] = owner[f]
        BY <3>2 DEF TypeInv, TypeOK
      <3>4. run'[e] = "start" /\ owner'[e] = s /\ owner[e] = 0
        BY <3>1, <3>2 DEF TypeInv, TypeOK
      <3>5. \A r \in Sessions \ {s} : RunsOf(r)' = RunsOf(r)
        BY <3>1, <3>3, <3>4, ZenonT(60) DEF RunsOf, Running
      <3>6. RunsOf(s)' = RunsOf(s) \union {e} /\ e \notin RunsOf(s)
        BY <3>1, <3>3, <3>4 DEF RunsOf, Running
      <3>7. Cardinality(RunsOf(s)') = Cardinality(RunsOf(s)) + 1
        BY <3>6, RunsFinite, FS_AddElement, ZenonT(60)
      <3>8. wg'[s] = wg[s] + 1 /\ \A r \in Sessions \ {s} : wg'[r] = wg[r]
        BY <3>2 DEF TypeInv, TypeOK
      <3>9. Counted(s)'
        <4>1. UNCHANGED <<Loops(s), Handlers(s), adders[s]>>
          BY <2>1, ZenonT(60) DEF Loops, Handlers
        <4> QED
          BY <3>7, <3>8, <4>1, GroupTypes DEF Counted
      <3> QED
        BY <2>1, <3>5, <3>8, <3>9, OthersCounted, ZenonT(60)
    <2> QED
      BY <2>2, <2>3
  <1>7. ASSUME NEW e \in Epochs,
               MineStart(e) \/ MineElect(e) \/ MineProve(e) \/ MineOutput(e)
        PROVE  \A r \in Sessions : Counted(r)'
    <2>1. UNCHANGED <<owner, loop, handler, adders>> /\ Running(e)
      BY <1>7, ZenonT(60) DEF MineStart, MineElect, MineProve, MineOutput, loops, outputs, Running
    <2>2. RunReturns(e) \/ \E step \in {"elect", "prove", "block"} : RunGoesOn(e, step)
      BY <1>7 DEF MineStart, MineElect, MineProve, MineOutput, RunFails, TypeInv, TypeOK
    <2>3. ASSUME NEW step \in {"elect", "prove", "block"}, RunGoesOn(e, step)
          PROVE  \A r \in Sessions : Counted(r)'
      <3>1. \A f \in Epochs : Running(f)' <=> Running(f)
        BY <2>1, <2>3 DEF RunGoesOn, Running, TypeInv, TypeOK
      <3>2. \A r \in Sessions : RunsOf(r)' = RunsOf(r)
        BY <2>1, <3>1 DEF RunsOf
      <3>3. wg' = wg
        BY <2>3 DEF RunGoesOn
      <3> QED
        BY <2>1, <3>2, <3>3, ZenonT(60) DEF Counted, Loops, Handlers
    <2>4. CASE RunReturns(e)
      <3>1. PICK s \in Sessions : s = owner[e]
        BY <2>1, RunHasOwner
      <3>2. run'[e] = "returned" /\ \A f \in Epochs : f # e => run'[f] = run[f]
        BY <2>4 DEF RunReturns, TypeInv, TypeOK
      <3>3. wg'[s] = wg[s] - 1 /\ \A r \in Sessions \ {s} : wg'[r] = wg[r]
        BY <2>4, <3>1 DEF RunReturns, TypeInv, TypeOK
      <3>4. \A r \in Sessions \ {s} : RunsOf(r)' = RunsOf(r)
        BY <2>1, <3>1, <3>2, ZenonT(60) DEF RunsOf, Running
      <3>5. RunsOf(s)' = RunsOf(s) \ {e} /\ e \in RunsOf(s)
        BY <2>1, <3>1, <3>2 DEF RunsOf, Running
      <3>6. Cardinality(RunsOf(s)') = Cardinality(RunsOf(s)) - 1
        BY <3>5, RunsFinite, FS_RemoveElement
      <3>7. Counted(s)'
        <4>1. UNCHANGED <<Loops(s), Handlers(s), adders[s]>>
          BY <2>1, ZenonT(60) DEF Loops, Handlers
        <4> QED
          BY <3>3, <3>6, <4>1, GroupTypes DEF Counted
      <3> QED
        BY <2>1, <3>3, <3>4, <3>7, OthersCounted, ZenonT(60)
    <2> QED
      BY <2>2, <2>3, <2>4
  <1>8. ASSUME NEW s \in Sessions, HandlerReturns(s)
        PROVE  \A r \in Sessions : Counted(r)'
    <2>1. s = session
      BY <1>8, ActiveIsLatest, ZenonT(60) DEF HandlerReturns
    <2>2. UNCHANGED <<run, owner, loop, adders>>
      BY <1>8 DEF HandlerReturns, loops, runs
    <2>3. \A r \in Sessions : RunsOf(r)' = RunsOf(r)
      BY <2>2 DEF RunsOf, Running
    <2>4. \A r \in Sessions \ {s} : wg'[r] = wg[r] /\ handler'[r] = handler[r]
      BY <1>8, <2>1, ZenonT(60) DEF HandlerReturns, TypeInv, TypeOK
    <2>5. wg'[s] = wg[s] - 1 /\ handler[s] = "receive" /\ handler'[s] = "ended"
      BY <1>8, <2>1 DEF HandlerReturns, TypeInv, TypeOK
    <2>6. Counted(s)'
      <3>1. UNCHANGED <<Loops(s), adders[s]>> /\ Handlers(s) = 1 /\ Handlers(s)' = 0
        BY <2>2, <2>5, ZenonT(60) DEF Loops, Handlers
      <3> QED
        BY <2>3, <2>5, <3>1, GroupTypes DEF Counted
    <2> QED
      BY <2>2, <2>3, <2>4, <2>6, OthersCounted, ZenonT(60)
  <1>9. ASSUME NEW s \in Sessions, HandleBlock(s) \/ AddNewlyMinedBlock(s)
        PROVE  \A r \in Sessions : Counted(r)'
    <2>1. s = session
      BY <1>9, ActiveIsLatest, ZenonT(60) DEF HandleBlock, AddNewlyMinedBlock
    <2>2. UNCHANGED <<run, owner, loop, handler>>
      BY <1>9 DEF HandleBlock, AddNewlyMinedBlock, loops, runs
    <2>3. \A r \in Sessions : RunsOf(r)' = RunsOf(r)
      BY <2>2 DEF RunsOf, Running
    <2>4. \A r \in Sessions \ {s} : wg'[r] = wg[r] /\ adders'[r] = adders[r]
      BY <1>9, <2>1, ZenonT(60) DEF HandleBlock, AddNewlyMinedBlock, TypeInv, TypeOK
    <2>5. \/ wg'[s] = wg[s] + 1 /\ adders'[s] = adders[s] + 1
          \/ wg'[s] = wg[s] - 1 /\ adders'[s] = adders[s] - 1
      BY <1>9, <2>1, ZenonT(60) DEF HandleBlock, AddNewlyMinedBlock, TypeInv, TypeOK
    <2>6. Counted(s)'
      <3>1. UNCHANGED <<Loops(s), Handlers(s)>>
        BY <2>2 DEF Loops, Handlers
      <3> QED
        BY <2>3, <2>5, <3>1, GroupTypes DEF Counted
    <2> QED
      BY <2>2, <2>3, <2>4, <2>6, OthersCounted, ZenonT(60)
  <1>10. ASSUME NEW s \in Sessions, HandleError(s)
         PROVE  \A r \in Sessions : Counted(r)'
    BY <1>10 DEF HandleError, Orderly
  <1>11. CASE UNCHANGED vars
    BY <1>1, <1>11 DEF vars
  <1> QED
    BY <1>2, <1>3, <1>4, <1>5, <1>6, <1>7, <1>8, <1>9, <1>10, <1>11 DEF Next

\* Failures are never forgotten.
LEMMA FaultsStep == TypeInv /\ [Next]_vars /\ faults' = 0 => faults = 0
  <1> SUFFICES ASSUME TypeInv, [Next]_vars
               PROVE  faults' \in {faults, faults + 1}
    BY MiningAssumption DEF TypeInv, TypeOK
  <1>1. ASSUME NEW e \in Epochs,
               MineStart(e) \/ MineElect(e) \/ MineProve(e) \/ MineOutput(e)
        PROVE  faults' \in {faults, faults + 1}
    BY <1>1, ZenonT(60) DEF MineStart, MineElect, MineProve, MineOutput, RunFails, RunReturns, RunGoesOn
  <1>2. ASSUME NEW s \in Sessions,
               \/ WaitNextEpoch(s) \/ MineLoopEnds(s) \/ MineLoop(s) \/ HandlerReturns(s)
               \/ HandleError(s) \/ HandleBlock(s) \/ AddNewlyMinedBlock(s)
        PROVE  faults' = faults
    BY <1>2, ZenonT(60) DEF WaitNextEpoch, MineLoopEnds, MineLoop, HandlerReturns, HandleError, HandleBlock,
                AddNewlyMinedBlock
  <1>3. CASE StartMining \/ SetIsMining \/ StopMining \/ StopMiningReturns \/ Pause \/ ClockTicks
    BY <1>3, ZenonT(60) DEF StartMining, SetIsMining, StopMining, StopMiningReturns, Pause, ClockTicks
  <1> QED
    BY <1>1, <1>2, <1>3 DEF Next, vars

\* What StopIsClean rests on holds throughout.
LEMMA QuietAlways == Spec => [](TypeInv /\ QuietInv)
  <1>1. Init => LoopInv /\ ClockInv /\ QuietInv
    <2> SUFFICES ASSUME Init
                 PROVE  LoopInv /\ ClockInv /\ QuietInv
      OBVIOUS
    <2>1. \A s \in Sessions : /\ loop[s] = "off" /\ handler[s] = "off" /\ outCh[s] = "empty"
                              /\ adders[s] = 0 /\ wg[s] = 0 /\ ~(s < session)
      BY MiningAssumption DEF Init, Sessions
    <2>2. \A e \in Epochs : run[e] = "none"
      BY DEF Init
    <2>3. session = 0 /\ ~isStarted /\ ~isMining /\ api = "stopped"
      BY DEF Init
    <2>4. \A s \in Sessions : RunsOf(s) = {}
      BY <2>2 DEF RunsOf, Running
    <2>5. \A s \in Sessions : Counted(s)
      BY <2>1, <2>4, FS_EmptySet DEF Counted, Loops, Handlers
    <2>6. Orderly
      BY <2>1, <2>2, <2>3, <2>4 DEF Orderly, Quiet
    <2> QED
      BY <2>1, <2>2, <2>3, <2>5, <2>6 DEF LoopInv, ClockInv, QuietInv
  <1>2. TypeInv /\ ClockInv /\ QuietInv /\ [Next]_vars => QuietInv'
    <2> SUFFICES ASSUME TypeInv, ClockInv, QuietInv, [Next]_vars, faults' = 0
                 PROVE  Orderly' /\ \A s \in Sessions : Counted(s)'
      BY DEF QuietInv
    <2>1. faults = 0
      BY FaultsStep
    <2> QED
      BY <2>1, OrderlyStep, CountStep DEF QuietInv
  <1> QED
    BY <1>1, <1>2, TypeInit, TypeStep, LoopStep, ClockStep, PTL DEF Spec

\* As long as no run fails, the wait group counts exactly the session's loop,
\* runs, handler and adders; so StopMining returns only when all have ended, and
\* leaves the scheduler ready to be started again.
THEOREM MiningStopsCleanly == Spec => []StopIsClean
  <1>1. TypeInv /\ QuietInv => StopIsClean
    <2> SUFFICES ASSUME TypeInv, QuietInv, faults = 0
                 PROVE  /\ \A s \in Sessions : Counted(s)
                        /\ api = "stopped" => /\ ~isStarted
                                              /\ \A s \in Sessions : Quiet(s)
                                              /\ \A e \in Epochs : ~Running(e)
      BY ZenonT(60) DEF StopIsClean, WaitGroupExact, StoppedIsQuiet, Counted, Loops, Handlers, RunsOf, Quiet
    <2>1. ASSUME api = "stopped"
          PROVE  ~isStarted /\ (\A s \in Sessions : Quiet(s)) /\ \A e \in Epochs : ~Running(e)
      <3>1. \A s \in Sessions : Quiet(s)
        BY <2>1 DEF QuietInv, Orderly
      <3>2. \A e \in Epochs : ~Running(e)
        BY <3>1, RunHasOwner, ZenonT(60) DEF Quiet, RunsOf
      <3>3. session # 0 => session \in Sessions
        BY MiningAssumption DEF TypeInv, TypeOK, Sessions
      <3>4. ~isStarted
        BY <3>1, <3>3 DEF QuietInv, Orderly, Quiet
      <3> QED
        BY <3>1, <3>2, <3>4
    <2> QED
      BY <2>1 DEF QuietInv
  <1> QED
    BY <1>1, QuietAlways, PTL
=============================================================================
