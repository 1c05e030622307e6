-------------------------- MODULE ChainSyncFaults --------------------------
(***************************************************************************)
(* ChainSync in two situations.  A behaviour is smooth, or rough: then     *)
(* local reads and writes fail, targets come while the node starts, and    *)
(* finality is one epoch away.                                             *)
(***************************************************************************)
EXTENDS ChainSync

VARIABLE rough   \* the situation, chosen at the start

Rough == INSTANCE ChainSync WITH TargetsDuringStart <- TRUE, DiskFaults <- TRUE, Finality <- 1

\* The node cannot be started again; only a rough behaviour may end there.
Unusable == pc = "unusable" /\ UNCHANGED vars

FaultsInit == Init /\ rough \in BOOLEAN
FaultsNext == rough' = rough /\ IF rough THEN Rough!Next \/ Unusable ELSE Next
FaultsSpec == FaultsInit /\ [][FaultsNext]_<<vars, rough>> /\ Fairness

\* Whenever a node with a sound disk dies, Load finds a head whose chain is
\* complete on disk.
SmoothRestart == ~rough => RestartSucceeds

\* The head on disk is only ever replaced by a heavier one, across restarts
\* and the loss of what was staged, unless a target came before InitStaged.
SmoothHead == [][~rough /\ diskHead' # diskHead => IsHeavier(diskHead', diskHead)]_diskHead

\* Nothing on the tipset's chain, nor above it, is invalid.
GoodChain(ts) ==
    /\ \A a \in Ancestors[ts] \ {GenesisTipSet} :
          Valid(a) /\ HeightOf(a) > HeightOf(ParentsOf(a))
    /\ \A d \in TipSet : ts \in Ancestors[d] => d = GenesisTipSet \/ Valid(d)
Offered(ts) == HandleNewTipSet(ts, FALSE)
NotHeavierThanHead(ts) == diskHead = ts \/ IsHeavier(diskHead, ts)

\* A tipset on a valid chain that keeps being offered in follow mode is in
\* the end not heavier than the head.  An invalid descendant may prevent that:
\* the job that meets it stores the tipset without staging it.
SmoothCatchUp ==
    \A ts \in {t \in TipSet : GoodChain(t)} :
        []<><<~rough /\ Offered(ts)>>_vars => <>[](rough \/ NotHeavierThanHead(ts))
=============================================================================
