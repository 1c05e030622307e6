----------------------------- MODULE ChainSync -----------------------------
(***************************************************************************)
(* The chain store and the syncer: a node fetches the chain of a target    *)
(* tipset, validates it tipset by tipset into the store, stages the        *)
(* heaviest and makes it the head, on disk and in memory.  The node may    *)
(* crash between any two steps and restarts from what is on disk.          *)
(*                                                                         *)
(* One goroutine, the dispatcher's, runs the syncer, one step per action.  *)
(* Manager.Start launches that goroutine before it calls InitStaged.       *)
(***************************************************************************)
EXTENDS TipSets, Sequences, Functions

CONSTANTS
    BadState,            \* tipsets whose state transition fails
    Finality,            \* FinalityEpochs
    NoTipSet,            \* UndefTipSet, and the empty key
    TargetsDuringStart,  \* may a target be handled before InitStaged?
    DiskFaults,          \* may local reads and writes fail?
    MaxFaults            \* bound: crashes and failed reads, writes, fetches

ASSUME SyncAssumption ==
    /\ BadState \subseteq TipSet
    /\ Finality \in Nat
    /\ NoTipSet \notin TipSet
    /\ TargetsDuringStart \in BOOLEAN
    /\ DiskFaults \in BOOLEAN
    /\ MaxFaults \in Nat

VARIABLES
    index,      \* the tip index: tipsets with their state, in memory
    meta,       \* the tipset metadata on disk
    diskHead,   \* the tipset under HeadKey on disk
    head,       \* the store's head
    staged,     \* the heaviest tipset the syncer has staged
    badTipSets, \* the bad tipset cache
    pc,         \* what the dispatcher's goroutine does next
    chain,      \* the tipsets still to sync, oldest first
    wts,        \* the widened first tipset
    catchup,    \* the dispatcher's mode
    faults      \* crashes and failures so far

vars == <<index, meta, diskHead, head, staged, badTipSets, pc, chain, wts,
          catchup, faults>>
store == <<index, meta, diskHead, head>>

Steps == {"fetch", "validate", "messages", "widen", "syncWide", "stageWide",
          "sync", "stage", "setHead"}

\* A data directory that was just initialised with the genesis block.
Init ==
    /\ index = {}
    /\ meta = {GenesisTipSet}
    /\ diskHead = GenesisTipSet
    /\ head = NoTipSet
    /\ staged = NoTipSet
    /\ badTipSets = {}
    /\ pc = "down"
    /\ chain = <<>>
    /\ wts = NoTipSet
    /\ catchup = FALSE
    /\ faults = 0

-----------------------------------------------------------------------------
(* Starting and stopping the node *)

\* Load reads the head's key; an empty one makes no tipset.
Load ==
    /\ pc = "down"
    /\ IF diskHead = NoTipSet
       THEN pc' = "unusable" /\ UNCHANGED chain
       ELSE pc' = "load" /\ chain' = <<diskHead>>
    /\ UNCHANGED <<store, staged, badTipSets, wts, catchup, faults>>

\* Load walks back to the genesis block and rebuilds the index.  It fails for
\* good on a tipset whose metadata is not on disk.
LoadTipSet ==
    /\ pc = "load"
    /\ LET ts == Head(chain) IN
       IF ts \notin meta
       THEN pc' = "unusable" /\ UNCHANGED <<index, head, chain>>
       ELSE /\ index' = index \union {ts}
            /\ IF ParentsOf(ts) # {}
               THEN chain' = <<ParentsOf(ts)>> /\ UNCHANGED <<pc, head>>
               ELSE pc' = "idle" /\ chain' = <<>> /\ head' = diskHead
    /\ UNCHANGED <<meta, diskHead, staged, badTipSets, wts, catchup, faults>>

Exit ==
    /\ index' = {}
    /\ head' = NoTipSet
    /\ staged' = NoTipSet
    /\ badTipSets' = {}
    /\ pc' = "down"
    /\ chain' = <<>>
    /\ wts' = NoTipSet
    /\ catchup' = FALSE
    /\ UNCHANGED <<meta, diskHead>>

\* Mutant: what is staged starts from the genesis block.
InitStagedMutant ==
    /\ pc \in Steps \union {"idle"}
    /\ staged = NoTipSet
    /\ head \in index
    /\ staged' = GenesisTipSet
    /\ UNCHANGED <<store, badTipSets, pc, chain, wts, catchup, faults>>

\* Runs once per start, on the main goroutine; an error ends the node.
InitStaged ==
    /\ pc \in Steps \union {"idle"}
    /\ staged = NoTipSet
    /\ \/ /\ head \in index
          /\ staged' = head
          /\ UNCHANGED <<store, badTipSets, pc, chain, wts, catchup>>
       \/ /\ head \notin index
          /\ Exit
    /\ UNCHANGED faults

Crash ==
    /\ pc \in Steps \union {"load", "idle"}
    /\ faults < MaxFaults
    /\ faults' = faults + 1
    /\ Exit

-----------------------------------------------------------------------------
(* One syncing job *)

\* The job ends: handleNewTipSet returns an error.
Abort ==
    /\ pc' = "idle"
    /\ chain' = <<>>
    /\ wts' = NoTipSet

\* handleNewTipSet returns nil; HandleNewTipSet sets the head unless it is
\* catching up.
Finish ==
    /\ pc' = IF catchup' THEN "idle" ELSE "setHead"
    /\ chain' = <<>>
    /\ wts' = NoTipSet

\* The dispatcher hands over a target, in catchup mode once a target was far
\* ahead of the head.
HandleNewTipSet(ts, mode) ==
    /\ pc = "idle"
    /\ staged # NoTipSet \/ TargetsDuringStart
    /\ catchup => mode
    /\ catchup' = mode
    /\ IF ts \in index THEN Finish
       ELSE IF head \notin index THEN Abort
       ELSE /\ pc' = "fetch"
            /\ chain' = <<ts>>
            /\ wts' = NoTipSet
    /\ UNCHANGED <<store, staged, badTipSets, faults>>

\* The fetcher asks about the oldest header it has: fail, stop, or go on to
\* its parents.
FetchTipSetHeaders ==
    /\ pc = "fetch"
    /\ LET t == Head(chain) IN
       IF HeightOf(t) + Finality < HeightOf(head) THEN Abort
       ELSE IF ParentsOf(t) \in index
            THEN /\ pc' = "validate"
                 /\ UNCHANGED <<chain, wts>>
       ELSE IF ParentsOf(t) \in TipSet
            THEN /\ chain' = <<ParentsOf(t)>> \o chain
                 /\ UNCHANGED <<pc, wts>>
       ELSE Abort
    /\ UNCHANGED <<store, staged, badTipSets, catchup, faults>>

\* ValidateSemantic on every header of the chain.
ValidateHeaders ==
    /\ pc = "validate"
    /\ IF \A k \in DOMAIN chain : HeightOf(chain[k]) > HeightOf(ParentsOf(chain[k]))
       THEN pc' = "messages" /\ UNCHANGED <<chain, wts>>
       ELSE Abort
    /\ UNCHANGED <<store, staged, badTipSets, catchup, faults>>

FetchTipSets ==
    /\ pc = "messages"
    /\ pc' = "widen"
    /\ UNCHANGED <<store, staged, badTipSets, chain, wts, catchup, faults>>

\* No peer has what the fetcher asks for.
FetchFails ==
    /\ pc \in {"fetch", "messages"}
    /\ faults < MaxFaults
    /\ faults' = faults + 1
    /\ Abort
    /\ UNCHANGED <<store, staged, badTipSets, catchup>>

Siblings(ts) ==
    {t \in index : ParentsOf(t) = ParentsOf(ts) /\ HeightOf(t) = HeightOf(ts)}

\* The store's tipset with the most blocks; the first one met in a map.
Largest(S) == {m \in S : \A t \in S : Cardinality(t) <= Cardinality(m)}

\* The first tipset of the chain joined with the largest of its siblings.
Widen ==
    /\ pc = "widen"
    /\ LET ts == Head(chain) IN
       \/ /\ Siblings(ts) = {}
          /\ pc' = "sync"
          /\ UNCHANGED <<chain, wts>>
       \/ \E max \in Largest(Siblings(ts)) :
            LET union == ts \union max IN
            IF ~NewTipSetOK(union) THEN Abort
            ELSE /\ UNCHANGED chain
                 /\ IF union \in {ts, max}
                    THEN pc' = "sync" /\ UNCHANGED wts
                    ELSE pc' = "syncWide" /\ wts' = union
    /\ UNCHANGED <<store, staged, badTipSets, catchup, faults>>

\* The outcome of RunStateTransition: every block claims the weight of the
\* parent, and the blocks are well mined and apply to the parent's state.
Valid(ts) == ParentWeightOf(ts) = Weight(ParentsOf(ts)) /\ ts \notin BadState

\* Mutant: the metadata is kept in memory only.
PutMutant(ts) ==
    /\ index' = index \union {ts}
    /\ UNCHANGED <<meta, diskHead, head>>

\* syncOne's last step, PutTipSetMetadata: the index, then the disk.
Put(ts) ==
    /\ index' = index \union {ts}
    /\ meta' = meta \union {ts}
    /\ UNCHANGED <<diskHead, head>>

\* syncOne of the widened tipset; its failure marks nothing as bad.
SyncWidened ==
    /\ pc = "syncWide"
    /\ IF Valid(wts)
       THEN /\ Put(wts)
            /\ pc' = "stageWide"
            /\ UNCHANGED <<chain, wts>>
       ELSE Abort /\ UNCHANGED store
    /\ UNCHANGED <<staged, badTipSets, catchup, faults>>

\* Mutant: the tipset is stored before its state transition is run.
SyncOneMutant ==
    /\ pc = "sync"
    /\ LET ts == Head(chain) IN
       /\ Put(ts)
       /\ IF Valid(ts)
          THEN /\ IF Len(chain) > 1
                  THEN chain' = Tail(chain) /\ UNCHANGED pc
                  ELSE pc' = "stage" /\ UNCHANGED chain
               /\ UNCHANGED <<wts, badTipSets>>
          ELSE badTipSets' = badTipSets \union Range(chain) /\ Abort
    /\ UNCHANGED <<staged, catchup, faults>>

\* syncOne of the next tipset of the chain, a no-op for the head.
SyncOne ==
    /\ pc = "sync"
    /\ LET ts == Head(chain) IN
       IF ts = head \/ Valid(ts)
       THEN /\ IF ts = head THEN UNCHANGED store ELSE Put(ts)
            /\ IF Len(chain) > 1
               THEN chain' = Tail(chain) /\ UNCHANGED pc
               ELSE pc' = "stage" /\ UNCHANGED chain
            /\ UNCHANGED <<wts, badTipSets>>
       ELSE /\ badTipSets' = badTipSets \union Range(chain)
            /\ Abort
            /\ UNCHANGED store
    /\ UNCHANGED <<staged, catchup, faults>>

\* Messages, receipts or metadata cannot be read or written.  The index may
\* already hold the tipset when the write of its metadata fails.
SyncFails ==
    /\ pc \in {"syncWide", "sync"}
    /\ DiskFaults
    /\ faults < MaxFaults
    /\ faults' = faults + 1
    /\ LET ts == IF pc = "sync" THEN Head(chain) ELSE wts IN
       \/ UNCHANGED index
       \/ Valid(ts) /\ index' = index \union {ts}
    /\ badTipSets' = IF pc = "sync" THEN badTipSets \union Range(chain)
                     ELSE badTipSets
    /\ Abort
    /\ UNCHANGED <<meta, diskHead, head, staged, catchup>>

\* stageIfHeaviest returns an error before it compares.
StageErrs(candidate) ==
    \/ ParentsOf(candidate) \notin index
    \/ staged = NoTipSet
    \/ staged # NoTipSet /\ ParentsOf(staged) \notin index \union {{}}
    \/ candidate = staged

Heaviest(candidate) == IF IsHeavier(candidate, staged) THEN candidate ELSE staged

\* The widened tipset is staged if it is heavier.  Of a chain of one tipset,
\* the tipset as it was offered is not synced at all.
StageWidened ==
    /\ pc = "stageWide"
    /\ IF StageErrs(wts)
       THEN Abort /\ UNCHANGED staged
       ELSE /\ staged' = Heaviest(wts)
            /\ pc' = IF Len(chain) > 1 THEN "sync" ELSE "stage"
            /\ wts' = NoTipSet
            /\ UNCHANGED chain
    /\ UNCHANGED <<store, badTipSets, catchup, faults>>

\* The last tipset of the chain is staged if it is heavier.
StageIfHeaviest ==
    /\ pc = "stage"
    /\ UNCHANGED <<store, badTipSets, catchup, faults>>
    /\ IF StageErrs(Head(chain))
       THEN Abort /\ UNCHANGED staged
       ELSE staged' = Heaviest(Head(chain)) /\ Finish

\* Mutant: the new head is set in memory only.
SetStagedHeadMutant ==
    /\ pc = "setHead"
    /\ head' = staged
    /\ pc' = "idle"
    /\ catchup' = FALSE
    /\ UNCHANGED <<index, meta, diskHead, staged, badTipSets, chain, wts, faults>>

\* SetHead: the disk, then the memory, under one lock.  An undefined tipset
\* is written all the same before SetHead fails on its height, and only a
\* success ends catchup mode.
SetStagedHead ==
    /\ pc = "setHead"
    /\ diskHead' = staged
    /\ head' = staged
    /\ pc' = "idle"
    /\ catchup' = (catchup /\ staged = NoTipSet /\ head # NoTipSet)
    /\ UNCHANGED <<index, meta, staged, badTipSets, chain, wts, faults>>

\* The head cannot be written.
SetHeadFails ==
    /\ pc = "setHead"
    /\ DiskFaults
    /\ faults < MaxFaults
    /\ faults' = faults + 1
    /\ pc' = "idle"
    /\ UNCHANGED <<store, staged, badTipSets, chain, wts, catchup>>

\* MaybeTransitionToFollow, when the work queue is empty after a job.
TransitionToFollow ==
    /\ pc = "idle"
    /\ catchup
    /\ pc' = "setHead"
    /\ UNCHANGED <<store, staged, badTipSets, chain, wts, catchup, faults>>

Syncing ==
    \/ FetchTipSetHeaders \/ ValidateHeaders \/ FetchTipSets \/ Widen
    \/ SyncWidened \/ StageWidened \/ SyncOne \/ StageIfHeaviest
    \/ SetStagedHead

Next ==
    \/ Load
    \/ LoadTipSet
    \/ InitStaged
    \/ Crash
    \/ \E ts \in TipSet, mode \in BOOLEAN : HandleNewTipSet(ts, mode)
    \/ TransitionToFollow
    \/ Syncing
    \/ FetchFails
    \/ SyncFails
    \/ SetHeadFails

Spec == Init /\ [][Next]_vars

\* The Go scheduler runs the main and the dispatcher's goroutines, and the
\* operator restarts a node that went down.
Fairness == WF_vars(Load \/ LoadTipSet \/ InitStaged) /\ WF_vars(Syncing)

-----------------------------------------------------------------------------
(* Properties *)

\* The store, the disk and the syncer's job are well formed.
TypeOK ==
    /\ index \subseteq TipSet
    /\ meta \subseteq TipSet
    /\ diskHead \in TipSet \union {NoTipSet}
    /\ head \in TipSet \union {NoTipSet}
    /\ staged \in TipSet \union {NoTipSet}
    /\ badTipSets \subseteq TipSet
    /\ pc \in Steps \union {"load", "idle", "down", "unusable"}
    /\ chain \in Seq(TipSet)
    /\ wts \in TipSet \union {NoTipSet}
    /\ catchup \in BOOLEAN
    /\ faults \in 0..MaxFaults

\* What is staged, and so may become the head, is in the store, although a
\* tipset that was widened is compared with it without being synced.
StagedInStore == staged # NoTipSet => staged \in index

\* "It is guaranteed by the syncer that it is in the chainStore": when a
\* tipset is synced or staged, the states of its parent and grandparent are
\* found.
LookupsSucceed ==
    pc \in Steps \ {"fetch", "setHead"} =>
        LET parent == ParentsOf(Head(chain)) IN
        /\ parent \in index
        /\ ParentsOf(parent) \in index \union {{}}

\* Only validated tipsets enter the store, through every combination of
\* widening, failing and restarting.
StoreIsValid == \A ts \in index \union meta : ts = GenesisTipSet \/ Valid(ts)

\* Whenever the node dies, Load finds a head whose chain is complete on disk.
RestartSucceeds == pc # "unusable"

\* IsHeavier has no answer for two identical tipsets; the syncer never asks.
NeverComparesItself ==
    /\ pc = "stageWide" => wts # staged
    /\ pc = "stage" => Head(chain) # staged

\* The head on disk is only ever replaced by a heavier one, across restarts
\* and the loss of what was staged.
HeadNeverLighter ==
    [][diskHead' # diskHead => IsHeavier(diskHead', diskHead)]_diskHead
=============================================================================
