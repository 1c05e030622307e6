-------------------------- MODULE ChainSyncProofs --------------------------
(***************************************************************************)
(* Proofs about ChainSync: what holds of the store and of the staged       *)
(* tipset for every block tree, and that the head on disk only grows       *)
(* heavier and can always be loaded.                                       *)
(***************************************************************************)
EXTENDS ChainSyncFaults, FiniteSetTheorems, WellFoundedInduction, TLAPS

\* Time limits with a wide margin: every leaf takes about a second.
USE SMTT(60), ZenonT(60), SMTT(61)

-----------------------------------------------------------------------------
(* Tipsets and their weight *)

\* Every block of a tipset has the tipset's header fields.
LEMMA TipSetFacts ==
    ASSUME NEW ts \in TipSet
    PROVE  /\ First(ts) \in ts
           /\ ts \subseteq Blocks
           /\ IsFiniteSet(ts)
           /\ Cardinality(ts) \in Nat
           /\ HeightOf(ts) \in Nat
           /\ ParentWeightOf(ts) \in Nat
           /\ \A b \in ts : /\ Height[b] = HeightOf(ts)
                            /\ Parents[b] = ParentsOf(ts)
                            /\ ParentWeight[b] = ParentWeightOf(ts)
<1>1. ts \subseteq Blocks /\ ts # {} /\ NewTipSetOK(ts)
  BY DEF TipSet, NewTipSetOK
<1>2. First(ts) \in ts
  BY <1>1 DEF First
<1>3. IsFiniteSet(ts) /\ Cardinality(ts) \in Nat
  BY <1>1, BlocksAssumption, FS_Subset, FS_CardinalityType
<1>4. HeightOf(ts) \in Nat /\ ParentWeightOf(ts) \in Nat
  BY <1>1, <1>2, BlocksAssumption DEF HeightOf, ParentWeightOf
<1>5. \A b \in ts : /\ Height[b] = HeightOf(ts)
                    /\ Parents[b] = ParentsOf(ts)
                    /\ ParentWeight[b] = ParentWeightOf(ts)
  BY <1>1, <1>2 DEF NewTipSetOK, HeightOf, ParentsOf, ParentWeightOf
<1> QED
  BY <1>1, <1>2, <1>3, <1>4, <1>5

\* Only the genesis tipset has no parents.
LEMMA OnlyGenesis ==
    ASSUME NEW ts \in TipSet
    PROVE  /\ ParentsOf(ts) = {} => ts = GenesisTipSet
           /\ ParentsOf(ts) # {} => Genesis \notin ts
  BY TipSetFacts, BlocksAssumption DEF GenesisTipSet

LEMMA GenesisIsTipSet == GenesisTipSet \in TipSet /\ ParentsOf(GenesisTipSet) = {}
<1>1. GenesisTipSet \in TipSet
  BY BlocksAssumption DEF GenesisTipSet, TipSet, NewTipSetOK
<1> QED
  BY <1>1, TipSetFacts, BlocksAssumption, ZenonT(60) DEF GenesisTipSet

\* Widening keeps the header fields.
LEMMA UnionFacts ==
    ASSUME NEW s \in TipSet, NEW t \in TipSet, NewTipSetOK(s \union t)
    PROVE  /\ s \union t \in TipSet
           /\ ParentsOf(s \union t) = ParentsOf(s)
           /\ HeightOf(s \union t) = HeightOf(s)
           /\ ParentWeightOf(s \union t) = ParentWeightOf(s)
<1>1. s \union t \in TipSet
  BY DEF TipSet
<1>2. First(s) \in s \union t
  BY TipSetFacts
<1> QED
  BY <1>1, <1>2, TipSetFacts DEF HeightOf, ParentsOf, ParentWeightOf

LEMMA WiderHasMore ==
    ASSUME NEW s \in TipSet, NEW t \in TipSet, s \subseteq t, s # t
    PROVE  Cardinality(s) < Cardinality(t)
<1>1. Cardinality(s) <= Cardinality(t) /\ Cardinality(s) # Cardinality(t)
  BY TipSetFacts, FS_Subset
<1> QED
  BY <1>1, TipSetFacts

\* A tipset that may be weighed: its parent's state is known.
Weighable(ts) == ts \in TipSet /\ (ParentsOf(ts) = {} \/ ParentsOf(ts) \in TipSet)

LEMMA WeightType ==
    ASSUME NEW ts, Weighable(ts)
    PROVE  Weight(ts) \in Nat
<1>1. CASE Genesis \in ts
  BY <1>1 DEF Weight
<1>2. CASE Genesis \notin ts
  <2>1. ParentsOf(ts) \in TipSet
    BY <1>2, OnlyGenesis DEF Weighable, GenesisTipSet
  <2>2. ECV * Cardinality(ts) \in Nat
    BY TipSetFacts, BlocksAssumption DEF Weighable
  <2>3. LogPower[ParentsOf(ts)] \in Nat
    BY <2>1, BlocksAssumption
  <2> QED
    BY <1>2, <2>2, <2>3, TipSetFacts DEF Weight, Weighable
<1> QED
  BY <1>1, <1>2

LEMMA ProductLess ==
    ASSUME NEW e \in Nat \ {0}, NEW m \in Nat, NEW n \in Nat, m < n
    PROVE  e * m < e * n
  OBVIOUS

\* The widened tipset outweighs the one it widens: this is what makes it safe
\* to stage-compare a tipset that was never synced.
LEMMA WiderIsHeavier ==
    ASSUME NEW s \in TipSet, NEW t \in TipSet, s \subseteq t, s # t,
           ParentsOf(s) \in TipSet,
           ParentsOf(t) = ParentsOf(s),
           ParentWeightOf(t) = ParentWeightOf(s)
    PROVE  Weight(s) < Weight(t)
<1>1. ParentsOf(s) # {}
  BY DEF TipSet, NewTipSetOK
<1>2. Genesis \notin s /\ Genesis \notin t
  BY <1>1, OnlyGenesis
<1>3. ECV * Cardinality(s) < ECV * Cardinality(t)
  BY WiderHasMore, ProductLess, TipSetFacts, BlocksAssumption
<1>4. /\ ECV * Cardinality(s) \in Nat
      /\ ECV * Cardinality(t) \in Nat
      /\ ParentWeightOf(s) \in Nat
      /\ LogPower[ParentsOf(s)] \in Nat
  BY TipSetFacts, BlocksAssumption
<1> QED
  BY <1>2, <1>3, <1>4 DEF Weight

LEMMA MinTicketType ==
    ASSUME NEW ts \in TipSet
    PROVE  MinTicket(ts) \in Nat
<1> DEFINE T == {Ticket[b] : b \in ts}
<1>1. T \subseteq Nat /\ T # {}
  BY TipSetFacts, BlocksAssumption
<1> DEFINE Less == {ss \in Nat \X Nat : ss[1] < ss[2]}
<1>2. IsWellFoundedOn(Less, Nat)
  BY NatLessThanWellFounded, ZenonT(60) DEF OpToRel
<1> HIDE DEF T
<1>3. PICK x \in T : \A y \in T : ~ (<<y, x>> \in Less)
  <2> HIDE DEF Less
  <2> QED
    BY <1>1, <1>2, WFMin, ZenonT(60)
<1>4. \A y \in T : x <= y
  <2> TAKE y \in T
  <2>1. x \in Nat /\ y \in Nat
    BY <1>1
  <2>2. y < x => <<y, x>> \in Less
    BY <2>1
  <2>3. ~(y < x)
    BY <1>3, <2>2
  <2> QED
    BY <2>1, <2>3
<1>5. Min(T) \in T
  BY <1>4 DEF Min
<1> QED
  BY <1>1, <1>5 DEF MinTicket, T

\* IsHeavier is transitive.
LEMMA HeavierTransitive ==
    ASSUME NEW a, NEW b, NEW c, Weighable(a), Weighable(b), Weighable(c),
           IsHeavier(a, b), IsHeavier(b, c)
    PROVE  IsHeavier(a, c)
<1>1. Weight(a) \in Nat /\ Weight(b) \in Nat /\ Weight(c) \in Nat
  BY WeightType
<1>2. MinTicket(a) \in Nat /\ MinTicket(b) \in Nat /\ MinTicket(c) \in Nat
  BY MinTicketType DEF Weighable
<1>3. KeyOrder[a] \in Nat /\ KeyOrder[b] \in Nat /\ KeyOrder[c] \in Nat
  BY BlocksAssumption DEF Weighable
<1> QED
  BY <1>1, <1>2, <1>3 DEF IsHeavier

-----------------------------------------------------------------------------
(* The inductive invariant, for every setting of the fault switches *)

Up == pc \in Steps \union {"idle"}
InJob == pc \in Steps \ {"setHead"}

\* Every stored tipset is valid and has its parent in the index, except that
\* Load fills the index from the head downwards.
StoreInv ==
    /\ StoreIsValid
    /\ \A ts \in index \union meta : Weighable(ts)
    /\ Up => Closed(index)
    /\ ~Up => head = NoTipSet /\ staged = NoTipSet
    /\ head # NoTipSet => head \in index
    /\ StagedInStore
    /\ pc = "down" => index = {}
    /\ pc = "load" => /\ chain # <<>>
                      /\ diskHead \in index \union {chain[1]}
                      /\ \A ts \in index : ParentsOf(ts) \in index \union {{}, chain[1]}

\* The chain of a job is linked and new to the store, the widened tipset is
\* strictly wider than the first, and what is compared last is stored or
\* lighter than what is staged.
JobInv ==
    InJob =>
      /\ chain # <<>>
      /\ \A k \in 1..(Len(chain) - 1) : ParentsOf(chain[k + 1]) = chain[k]
      /\ pc # "stage" => \A k \in 1..Len(chain) : chain[k] \notin index
      /\ pc # "fetch" => ParentsOf(chain[1]) \in index
      /\ pc \in {"syncWide", "stageWide"} =>
            /\ wts \in TipSet
            /\ chain[1] \subseteq wts
            /\ chain[1] # wts
            /\ ParentsOf(wts) = ParentsOf(chain[1])
            /\ ParentWeightOf(wts) = ParentWeightOf(chain[1])
      /\ pc = "syncWide" => wts \notin index
      /\ pc = "stageWide" => wts \in index /\ wts # staged /\ wts # head
      /\ pc = "stage" => /\ chain[1] # staged
                         /\ chain[1] # head
                         /\ \/ chain[1] \in index
                            \/ staged # NoTipSet /\ Weight(chain[1]) < Weight(staged)

IInv == TypeOK /\ StoreInv /\ JobInv

LEMMA InitIInv == Init => IInv
<1> SUFFICES ASSUME Init PROVE IInv
  OBVIOUS
<1>1. TypeOK
  <2>1. chain \in Seq(TipSet) /\ faults \in 0..MaxFaults
    BY SyncAssumption DEF Init
  <2> QED
    BY <2>1, GenesisIsTipSet, ZenonT(60) DEF Init, TypeOK
<1>2. StoreInv
  <2>1. ~Up /\ pc # "load"
    BY DEF Init, Up, Steps
  <2>2. index \union meta = {GenesisTipSet}
    BY DEF Init
  <2> QED
    BY <2>1, <2>2, GenesisIsTipSet DEF Init, StoreInv, StoreIsValid, Weighable, StagedInStore
<1>3. JobInv
  BY DEF Init, JobInv, InJob, Steps
<1> QED
  BY <1>1, <1>2, <1>3 DEF IInv

\* The invariant gives the four safety properties.
LEMMA IInvImplies ==
    ASSUME IInv
    PROVE  TypeOK /\ StagedInStore /\ LookupsSucceed /\ StoreIsValid /\ NeverComparesItself
<1>1. TypeOK /\ StagedInStore /\ StoreIsValid
  BY DEF IInv, StoreInv
<1>2. InJob => chain \in Seq(TipSet) /\ chain # <<>> /\ Head(chain) = chain[1]
  BY DEF IInv, TypeOK, JobInv
<1>3. LookupsSucceed
  <2> SUFFICES ASSUME pc \in Steps \ {"fetch", "setHead"}
               PROVE  /\ ParentsOf(Head(chain)) \in index
                      /\ ParentsOf(ParentsOf(Head(chain))) \in index \union {{}}
    BY DEF LookupsSucceed
  <2>1. ParentsOf(chain[1]) \in index
    BY DEF IInv, JobInv, InJob
  <2>2. Closed(index)
    BY DEF IInv, StoreInv, Up
  <2> QED
    BY <1>2, <2>1, <2>2 DEF Closed, InJob
<1>4. NeverComparesItself
  BY <1>2 DEF NeverComparesItself, IInv, JobInv, InJob, Steps
<1> QED
  BY <1>1, <1>3, <1>4

-----------------------------------------------------------------------------
(* What every step of a job may use, and what it must show *)

LEMMA JobFacts ==
    ASSUME IInv, InJob
    PROVE  /\ Up
           /\ chain \in Seq(TipSet)
           /\ Len(chain) \in Nat \ {0}
           /\ \A k \in 1..Len(chain) : chain[k] \in TipSet
           /\ chain[1] \in TipSet
           /\ Head(chain) = chain[1]
           /\ Range(chain) \subseteq TipSet
<1>1. Up /\ chain \in Seq(TipSet) /\ chain # <<>>
  BY DEF IInv, TypeOK, JobInv, InJob, Up
<1>2. Len(chain) \in Nat \ {0} /\ Head(chain) = chain[1]
  BY <1>1
<1>3. \A k \in 1..Len(chain) : chain[k] \in TipSet
  BY <1>1
<1>4. Range(chain) \subseteq TipSet
  BY <1>1, <1>3 DEF Range
<1> QED
  BY <1>1, <1>2, <1>3, <1>4

LEMMA StoreFrame ==
    ASSUME IInv, Up, Up', UNCHANGED <<store, staged>>
    PROVE  StoreInv'
<1>1. UNCHANGED <<index, meta, diskHead, head, staged>>
  BY DEF store
<1>2. pc' # "load" /\ pc' # "down"
  BY DEF Up, Steps
<1> QED
  BY <1>1, <1>2 DEF IInv, StoreInv, StoreIsValid, StagedInStore, Closed

\* A validated tipset with its parent in the index may be added to it.
LEMMA PutStore ==
    ASSUME IInv, Up, Up', NEW ts \in TipSet, Valid(ts), ParentsOf(ts) \in index,
           index' = index \union {ts}, meta' = meta \/ meta' = meta \union {ts},
           UNCHANGED <<diskHead, head, staged>>
    PROVE  StoreInv'
<1>1. pc' # "load" /\ pc' # "down"
  BY DEF Up, Steps
<1>2. Weighable(ts)
  BY DEF Weighable, IInv, TypeOK
<1>3. Closed(index')
  BY DEF Closed, IInv, StoreInv
<1>4. StoreIsValid'
  BY DEF IInv, StoreInv, StoreIsValid
<1>5. \A t \in index' \union meta' : Weighable(t)
  BY <1>2 DEF IInv, StoreInv
<1> QED
  BY <1>1, <1>3, <1>4, <1>5 DEF IInv, StoreInv, StagedInStore

\* The job is over.
LEMMA EndJob ==
    ASSUME IInv, StoreInv', pc' \in {"idle", "setHead"},
           chain' = <<>>, wts' = NoTipSet,
           index' \subseteq TipSet, meta' \subseteq TipSet,
           diskHead' \in TipSet \union {NoTipSet},
           head' \in TipSet \union {NoTipSet},
           staged' \in TipSet \union {NoTipSet},
           badTipSets' \subseteq TipSet, catchup' \in BOOLEAN, faults' \in 0..MaxFaults
    PROVE  IInv'
<1>1. JobInv'
  BY DEF JobInv, InJob, Steps
<1>2. TypeOK'
  BY DEF TypeOK, Steps
<1> QED
  BY <1>1, <1>2 DEF IInv

LEMMA AbortIInv ==
    ASSUME IInv, Up, Abort, UNCHANGED <<store, staged>>,
           badTipSets' \subseteq TipSet, catchup' \in BOOLEAN, faults' \in 0..MaxFaults
    PROVE  IInv'
<1>1. Up' /\ pc' = "idle" /\ chain' = <<>> /\ wts' = NoTipSet
  BY DEF Abort, Up
<1>2. StoreInv'
  BY <1>1, StoreFrame
<1> QED
  BY <1>1, <1>2, EndJob DEF IInv, TypeOK, store

-----------------------------------------------------------------------------
(* Every action preserves the invariant *)

LEMMA LoadIInv == IInv /\ Load => IInv'
<1> SUFFICES ASSUME IInv, Load PROVE IInv'
  OBVIOUS
<1>1. ~Up /\ ~Up' /\ ~InJob' /\ pc' \in {"load", "unusable"} /\ pc = "down"
  BY DEF Load, Up, InJob, Steps
<1>2. UNCHANGED <<index, meta, diskHead, head, staged>>
  BY DEF Load, store
<1>3. pc' = "load" => diskHead \in TipSet /\ chain' = <<diskHead>>
  BY DEF Load, IInv, TypeOK
<1>4. chain' \in Seq(TipSet)
  <2>1. pc' = "load" \/ chain' = chain
    BY DEF Load
  <2>2. pc' = "load" => <<diskHead>> \in Seq(TipSet)
    BY <1>3
  <2> QED
    BY <1>3, <2>1, <2>2 DEF IInv, TypeOK
<1>5. TypeOK'
  BY <1>1, <1>4 DEF Load, IInv, TypeOK, store
<1>6. pc' = "load" => chain' # <<>> /\ chain'[1] = diskHead
  BY <1>3
<1>7. StoreInv'
  BY <1>1, <1>2, <1>6 DEF IInv, StoreInv, StoreIsValid, StagedInStore
<1> QED
  BY <1>1, <1>5, <1>7 DEF IInv, JobInv

LEMMA LoadTipSetIInv == IInv /\ LoadTipSet => IInv'
<1> SUFFICES ASSUME IInv, LoadTipSet PROVE IInv'
  OBVIOUS
<1>1. pc = "load" /\ ~Up /\ ~InJob'
  BY DEF LoadTipSet, Up, InJob, Steps
<1>2. UNCHANGED <<meta, diskHead, staged, badTipSets, wts, catchup, faults>>
  BY DEF LoadTipSet
<1>3. PICK ts \in TipSet : ts = Head(chain) /\ ts = chain[1]
  BY <1>1 DEF IInv, TypeOK, StoreInv
<1>4. CASE ts \notin meta
  <2>1. ~Up' /\ pc' = "unusable" /\ UNCHANGED <<index, head, chain>>
    BY <1>3, <1>4 DEF LoadTipSet, Up, Steps
  <2>2. TypeOK'
    BY <1>2, <2>1 DEF IInv, TypeOK
  <2>3. StoreInv'
    BY <1>1, <1>2, <2>1 DEF IInv, StoreInv, StoreIsValid, StagedInStore
  <2> QED
    BY <1>1, <2>2, <2>3 DEF IInv, JobInv
<1>5. CASE ts \in meta /\ ParentsOf(ts) # {}
  <2>1. /\ ~Up' /\ pc' = "load" /\ UNCHANGED head
        /\ index' = index \union {ts} /\ chain' = <<ParentsOf(ts)>>
    BY <1>1, <1>3, <1>5 DEF LoadTipSet, Up, Steps
  <2>2. ParentsOf(ts) \in TipSet
    BY <1>5 DEF IInv, StoreInv, Weighable
  <2>3. chain' \in Seq(TipSet) /\ chain' # <<>> /\ chain'[1] = ParentsOf(ts)
    BY <2>1, <2>2
  <2>4. TypeOK'
    BY <1>2, <2>1, <2>3 DEF IInv, TypeOK
  <2>5. StoreInv'
    BY <1>1, <1>2, <1>3, <1>5, <2>1, <2>3 DEF IInv, StoreInv, StoreIsValid, StagedInStore
  <2> QED
    BY <1>1, <2>4, <2>5 DEF IInv, JobInv
<1>6. CASE ts \in meta /\ ParentsOf(ts) = {}
  <2>1. /\ Up' /\ pc' = "idle" /\ head' = diskHead
        /\ index' = index \union {ts} /\ chain' = <<>>
    BY <1>1, <1>3, <1>6 DEF LoadTipSet, Up, Steps
  <2>2. diskHead \in index'
    BY <1>1, <1>3, <2>1 DEF IInv, StoreInv
  <2>3. Closed(index')
    BY <1>1, <1>3, <1>6, <2>1 DEF IInv, StoreInv, Closed
  <2>4. TypeOK'
    BY <1>2, <2>1 DEF IInv, TypeOK
  <2>5. StoreInv'
    BY <1>1, <1>2, <1>6, <2>1, <2>2, <2>3 DEF IInv, StoreInv, StoreIsValid, StagedInStore
  <2> QED
    BY <1>1, <2>4, <2>5 DEF IInv, JobInv
<1> QED
  BY <1>4, <1>5, <1>6

LEMMA ExitIInv ==
    ASSUME IInv, Exit, faults' \in 0..MaxFaults
    PROVE  IInv'
<1>1. pc' = "down" /\ ~Up' /\ ~InJob'
  BY DEF Exit, Up, InJob, Steps
<1>2. chain' \in Seq(TipSet)
  BY DEF Exit
<1>3. TypeOK'
  BY <1>1, <1>2, ZenonT(60) DEF Exit, IInv, TypeOK
<1>4. StoreInv'
  BY <1>1 DEF Exit, IInv, StoreInv, StoreIsValid, StagedInStore
<1> QED
  BY <1>1, <1>3, <1>4 DEF IInv, JobInv

LEMMA CrashIInv == IInv /\ Crash => IInv'
<1> SUFFICES ASSUME IInv, Crash PROVE IInv'
  OBVIOUS
<1>1. faults' \in 0..MaxFaults
  BY SyncAssumption DEF Crash, IInv, TypeOK
<1> QED
  BY <1>1, ExitIInv DEF Crash

LEMMA InitStagedIInv == IInv /\ InitStaged => IInv'
<1> SUFFICES ASSUME IInv, InitStaged PROVE IInv'
  OBVIOUS
<1>1. Up /\ staged = NoTipSet /\ faults' = faults
  BY DEF InitStaged, Up
<1>2. CASE head \in index /\ staged' = head
            /\ UNCHANGED <<store, badTipSets, pc, chain, wts, catchup>>
  <2>1. UNCHANGED <<index, meta, diskHead, head, badTipSets, pc, chain, wts, catchup>>
    BY <1>2 DEF store
  <2>2. head \in TipSet
    BY <1>2 DEF IInv, TypeOK
  <2>3. TypeOK'
    BY <1>1, <1>2, <2>1, <2>2 DEF IInv, TypeOK
  <2>4. StoreInv'
    BY <1>1, <1>2, <2>1 DEF IInv, StoreInv, StoreIsValid, StagedInStore, Closed, Up
  <2>5. JobInv'
    BY <1>1, <1>2, <2>1 DEF IInv, JobInv, InJob
  <2> QED
    BY <2>3, <2>4, <2>5 DEF IInv
<1>3. CASE Exit
  BY <1>1, <1>3, ExitIInv DEF IInv, TypeOK
<1> QED
  BY <1>2, <1>3 DEF InitStaged

LEMMA HandleNewTipSetIInv ==
    ASSUME IInv, NEW ts \in TipSet, NEW mode \in BOOLEAN, HandleNewTipSet(ts, mode)
    PROVE  IInv'
<1>1. Up /\ pc = "idle" /\ catchup' \in BOOLEAN
  BY DEF HandleNewTipSet, Up
<1>2. UNCHANGED <<store, staged, badTipSets, faults>>
  BY DEF HandleNewTipSet
<1>3. CASE ts \in index
  <2>1. Finish
    BY <1>3 DEF HandleNewTipSet
  <2>2. pc' \in {"idle", "setHead"} /\ chain' = <<>> /\ wts' = NoTipSet
    BY <2>1 DEF Finish
  <2>3. StoreInv'
    BY <1>1, <1>2, <2>2, StoreFrame DEF Up, Steps
  <2> QED
    BY <1>1, <1>2, <2>2, <2>3, EndJob DEF IInv, TypeOK, store
<1>4. CASE ts \notin index /\ head \notin index
  BY <1>1, <1>2, <1>4, AbortIInv DEF HandleNewTipSet, IInv, TypeOK
<1>5. CASE ts \notin index /\ head \in index
  <2>1. pc' = "fetch" /\ chain' = <<ts>> /\ wts' = NoTipSet
    BY <1>5 DEF HandleNewTipSet
  <2>2. chain' \in Seq(TipSet) /\ chain' # <<>> /\ Len(chain') = 1 /\ chain'[1] = ts
    BY <2>1
  <2>3. UNCHANGED <<index, meta, diskHead, head>>
    BY <1>2 DEF store
  <2>4. TypeOK'
    BY <1>1, <1>2, <2>1, <2>2, <2>3 DEF IInv, TypeOK, Steps
  <2>5. StoreInv'
    BY <1>1, <1>2, <2>1, StoreFrame DEF Up, Steps
  <2>6. JobInv'
    BY <1>5, <2>1, <2>2, <2>3 DEF JobInv
  <2> QED
    BY <2>4, <2>5, <2>6 DEF IInv
<1> QED
  BY <1>3, <1>4, <1>5

LEMMA Prepend ==
    ASSUME NEW c \in Seq(TipSet), NEW p \in TipSet
    PROVE  /\ <<p>> \o c \in Seq(TipSet)
           /\ <<p>> \o c # <<>>
           /\ Len(<<p>> \o c) = Len(c) + 1
           /\ (<<p>> \o c)[1] = p
           /\ \A k \in 1..Len(c) : (<<p>> \o c)[k + 1] = c[k]
  OBVIOUS

LEMMA FetchTipSetHeadersIInv == IInv /\ FetchTipSetHeaders => IInv'
<1> SUFFICES ASSUME IInv, FetchTipSetHeaders PROVE IInv'
  OBVIOUS
<1>1. Up /\ InJob /\ pc = "fetch"
  BY DEF FetchTipSetHeaders, Up, InJob, Steps
<1>2. UNCHANGED <<store, staged, badTipSets, catchup, faults>>
  BY DEF FetchTipSetHeaders
<1>3. UNCHANGED <<index, meta, diskHead, head>>
  BY <1>2 DEF store
<1>4. CASE Abort
  BY <1>1, <1>2, <1>4, AbortIInv DEF IInv, TypeOK
<1>5. CASE ParentsOf(Head(chain)) \in index /\ pc' = "validate" /\ UNCHANGED <<chain, wts>>
  <2>1. Up'
    BY <1>5 DEF Up, Steps
  <2>2. JobInv'
    BY <1>1, <1>3, <1>5, JobFacts DEF IInv, JobInv
  <2>3. TypeOK'
    BY <1>2, <1>3, <1>5 DEF IInv, TypeOK, Steps
  <2> QED
    BY <1>1, <1>2, <2>1, <2>2, <2>3, StoreFrame DEF IInv
<1>6. CASE /\ ParentsOf(Head(chain)) \notin index
           /\ ParentsOf(Head(chain)) \in TipSet
           /\ chain' = <<ParentsOf(Head(chain))>> \o chain
           /\ UNCHANGED <<pc, wts>>
  <2>1. PICK p \in TipSet : p = ParentsOf(Head(chain))
    BY <1>6
  <2>2. chain \in Seq(TipSet) /\ Head(chain) = chain[1] /\ Len(chain) \in Nat \ {0}
    BY <1>1, JobFacts
  <2>3. /\ chain' \in Seq(TipSet) /\ chain' # <<>>
        /\ Len(chain') = Len(chain) + 1 /\ chain'[1] = p
        /\ \A k \in 1..Len(chain) : chain'[k + 1] = chain[k]
    BY <1>6, <2>1, <2>2, Prepend
  <2>4. \A k \in 1..(Len(chain') - 1) : ParentsOf(chain'[k + 1]) = chain'[k]
    <3> TAKE k \in 1..(Len(chain') - 1)
    <3>1. k \in 1..Len(chain) /\ chain'[k + 1] = chain[k]
      BY <2>2, <2>3
    <3>2. CASE k = 1
      BY <2>1, <2>2, <2>3, <3>1, <3>2
    <3>3. CASE k > 1
      <4>1. PICK j \in 1..(Len(chain) - 1) : k = j + 1
        <5>1. k - 1 \in 1..(Len(chain) - 1) /\ k = (k - 1) + 1
          BY <2>2, <3>1, <3>3
        <5> QED
          BY <5>1
      <4>2. j \in 1..Len(chain)
        BY <2>2, <4>1
      <4>3. chain'[k] = chain[j]
        BY <2>3, <4>1, <4>2
      <4>4. ParentsOf(chain[k]) = chain[j]
        BY <1>1, <4>1 DEF IInv, JobInv
      <4> QED
        BY <3>1, <4>3, <4>4
    <3> QED
      BY <3>1, <3>2, <3>3
  <2>5. \A k \in 1..Len(chain') : chain'[k] \notin index
    <3> TAKE k \in 1..Len(chain')
    <3>1. CASE k = 1
      BY <1>6, <2>1, <2>3, <3>1
    <3>2. CASE k > 1
      <4>1. PICK j \in 1..Len(chain) : k = j + 1
        <5>1. k - 1 \in 1..Len(chain) /\ k = (k - 1) + 1
          BY <2>2, <2>3, <3>2
        <5> QED
          BY <5>1
      <4>2. chain'[k] = chain[j] /\ chain[j] \notin index
        BY <1>1, <2>3, <4>1 DEF IInv, JobInv
      <4> QED
        BY <4>2
    <3> QED
      BY <3>1, <3>2
  <2>6. JobInv'
    BY <1>1, <1>3, <1>6, <2>3, <2>4, <2>5 DEF JobInv
  <2>7. TypeOK'
    BY <1>2, <1>3, <1>6, <2>3 DEF IInv, TypeOK
  <2>8. Up'
    BY <1>1, <1>6 DEF Up
  <2> QED
    BY <1>1, <1>2, <2>6, <2>7, <2>8, StoreFrame DEF IInv
<1> QED
  BY <1>4, <1>5, <1>6 DEF FetchTipSetHeaders

LEMMA ValidateHeadersIInv == IInv /\ ValidateHeaders => IInv'
<1> SUFFICES ASSUME IInv, ValidateHeaders PROVE IInv'
  OBVIOUS
<1>1. Up /\ InJob /\ pc = "validate"
  BY DEF ValidateHeaders, Up, InJob, Steps
<1>2. UNCHANGED <<store, staged, badTipSets, catchup, faults>>
  BY DEF ValidateHeaders
<1>3. CASE Abort
  BY <1>1, <1>2, <1>3, AbortIInv DEF IInv, TypeOK
<1>4. CASE pc' = "messages" /\ UNCHANGED <<chain, wts>>
  <2>1. Up'
    BY <1>4 DEF Up, Steps
  <2>2. JobInv'
    BY <1>1, <1>2, <1>4 DEF IInv, JobInv, store
  <2>3. TypeOK'
    BY <1>2, <1>4 DEF IInv, TypeOK, Steps, store
  <2> QED
    BY <1>1, <1>2, <2>1, <2>2, <2>3, StoreFrame DEF IInv
<1> QED
  BY <1>3, <1>4 DEF ValidateHeaders

LEMMA FetchTipSetsIInv == IInv /\ FetchTipSets => IInv'
<1> SUFFICES ASSUME IInv, FetchTipSets PROVE IInv'
  OBVIOUS
<1>1. Up /\ Up' /\ InJob /\ pc = "messages" /\ pc' = "widen"
  BY DEF FetchTipSets, Up, InJob, Steps
<1>2. UNCHANGED <<store, staged, badTipSets, chain, wts, catchup, faults>>
  BY DEF FetchTipSets
<1>3. JobInv'
  BY <1>1, <1>2 DEF IInv, JobInv, store
<1>4. TypeOK'
  BY <1>1, <1>2 DEF IInv, TypeOK, Steps, store
<1> QED
  BY <1>1, <1>2, <1>3, <1>4, StoreFrame DEF IInv

LEMMA FetchFailsIInv == IInv /\ FetchFails => IInv'
<1> SUFFICES ASSUME IInv, FetchFails PROVE IInv'
  OBVIOUS
<1>1. Up
  BY DEF FetchFails, Up, Steps
<1>2. faults' \in 0..MaxFaults
  BY SyncAssumption DEF FetchFails, IInv, TypeOK
<1> QED
  BY <1>1, <1>2, AbortIInv DEF FetchFails, IInv, TypeOK

\* The largest sibling joined with a tipset that adds a block to it is new to
\* the store: it has more blocks than any sibling.
LEMMA WidenedIsNew ==
    ASSUME IInv, NEW ts \in TipSet, NEW max \in Largest(Siblings(ts)),
           NewTipSetOK(ts \union max), ts \union max # max
    PROVE  ts \union max \notin index
<1>1. max \in index /\ max \in TipSet
  BY DEF Largest, Siblings, IInv, TypeOK
<1>2. PICK u \in TipSet : u = ts \union max
  BY <1>1, UnionFacts
<1>3. ParentsOf(u) = ParentsOf(ts) /\ HeightOf(u) = HeightOf(ts)
  BY <1>1, <1>2, UnionFacts
<1>4. Cardinality(max) < Cardinality(u)
  BY <1>1, <1>2, WiderHasMore
<1>5. u \in index => Cardinality(u) <= Cardinality(max)
  BY <1>3 DEF Largest, Siblings
<1> QED
  BY <1>1, <1>2, <1>4, <1>5, TipSetFacts

LEMMA WidenIInv == IInv /\ Widen => IInv'
<1> SUFFICES ASSUME IInv, Widen PROVE IInv'
  OBVIOUS
<1>1. Up /\ InJob /\ pc = "widen"
  BY DEF Widen, Up, InJob, Steps
<1>2. UNCHANGED <<store, staged, badTipSets, catchup, faults>>
  BY DEF Widen
<1>3. UNCHANGED <<index, meta, diskHead, head>>
  BY <1>2 DEF store
<1>4. PICK ts \in TipSet : ts = Head(chain) /\ ts = chain[1]
  BY <1>1, JobFacts
<1>5. CASE pc' = "sync" /\ UNCHANGED <<chain, wts>>
  <2>1. Up'
    BY <1>5 DEF Up, Steps
  <2>2. JobInv'
    BY <1>1, <1>3, <1>5 DEF IInv, JobInv
  <2>3. TypeOK'
    BY <1>2, <1>3, <1>5 DEF IInv, TypeOK, Steps
  <2> QED
    BY <1>1, <1>2, <2>1, <2>2, <2>3, StoreFrame DEF IInv
<1>6. CASE Abort
  BY <1>1, <1>2, <1>6, AbortIInv DEF IInv, TypeOK
<1>7. ASSUME NEW max \in Largest(Siblings(ts)), NewTipSetOK(ts \union max),
             ts \union max # ts, ts \union max # max,
             pc' = "syncWide", wts' = ts \union max, UNCHANGED chain
      PROVE  IInv'
  <2>1. Up'
    BY <1>7 DEF Up, Steps
  <2>2. max \in TipSet
    BY DEF Largest, Siblings, IInv, TypeOK
  <2>3. /\ wts' \in TipSet
        /\ ParentsOf(wts') = ParentsOf(ts)
        /\ ParentWeightOf(wts') = ParentWeightOf(ts)
    BY <1>7, <2>2, UnionFacts
  <2>4. wts' \notin index
    BY <1>7, WidenedIsNew
  <2>5. JobInv'
    BY <1>1, <1>3, <1>4, <1>7, <2>3, <2>4 DEF IInv, JobInv
  <2>6. TypeOK'
    BY <1>2, <1>3, <1>7, <2>3 DEF IInv, TypeOK, Steps
  <2> QED
    BY <1>1, <1>2, <2>1, <2>5, <2>6, StoreFrame DEF IInv
<1> QED
  BY <1>4, <1>5, <1>6, <1>7, ZenonT(60) DEF Widen

\* Adding ts, whose parent the store had, adds no later tipset of the chain:
\* their parents are new.
LEMMA LaterIsOther ==
    ASSUME IInv, InJob, pc # "stage", NEW ts, ParentsOf(ts) \in index,
           NEW k \in 2..Len(chain)
    PROVE  chain[k] # ts
<1>1. Len(chain) \in Nat
  BY JobFacts
<1>2. k - 1 \in 1..(Len(chain) - 1) /\ k = (k - 1) + 1
  BY <1>1
<1>3. ParentsOf(chain[k]) = chain[k - 1] /\ chain[k - 1] \notin index
  BY <1>1, <1>2 DEF IInv, JobInv
<1> QED
  BY <1>3

LEMMA SyncWidenedIInv == IInv /\ SyncWidened => IInv'
<1> SUFFICES ASSUME IInv, SyncWidened PROVE IInv'
  OBVIOUS
<1>1. Up /\ InJob /\ pc = "syncWide"
  BY DEF SyncWidened, Up, InJob, Steps
<1>2. UNCHANGED <<staged, badTipSets, catchup, faults>>
  BY DEF SyncWidened
<1>3. CASE Abort /\ UNCHANGED store
  BY <1>1, <1>2, <1>3, AbortIInv DEF IInv, TypeOK
<1>4. CASE Valid(wts) /\ Put(wts) /\ pc' = "stageWide" /\ UNCHANGED <<chain, wts>>
  <2>1. /\ wts \in TipSet /\ wts \notin index /\ chain[1] # wts
        /\ ParentsOf(wts) \in index
    BY <1>1 DEF IInv, JobInv
  <2>2. Up'
    BY <1>4 DEF Up, Steps
  <2>3. /\ index' = index \union {wts} /\ meta' = meta \union {wts}
        /\ UNCHANGED <<diskHead, head>>
    BY <1>4 DEF Put
  <2>4. StoreInv'
    BY <1>1, <1>2, <1>4, <2>1, <2>2, <2>3, PutStore
  <2>5. \A k \in 1..Len(chain) : chain[k] # wts
    <3> TAKE k \in 1..Len(chain)
    <3>1. k = 1 \/ k \in 2..Len(chain)
      BY <1>1, JobFacts
    <3> QED
      BY <1>1, <2>1, <3>1, LaterIsOther
  <2>6. wts # staged /\ wts # head
    BY <2>1, SyncAssumption DEF IInv, StoreInv, StagedInStore
  <2>7. JobInv'
    BY <1>1, <1>2, <1>4, <2>1, <2>3, <2>5, <2>6 DEF IInv, JobInv
  <2>8. TypeOK'
    BY <1>2, <1>4, <2>1, <2>3 DEF IInv, TypeOK, Steps
  <2> QED
    BY <2>4, <2>7, <2>8 DEF IInv
<1> QED
  BY <1>3, <1>4 DEF SyncWidened

LEMMA TailFacts ==
    ASSUME NEW c \in Seq(TipSet), Len(c) > 1
    PROVE  /\ Tail(c) \in Seq(TipSet)
           /\ Len(Tail(c)) = Len(c) - 1
           /\ \A k \in 1..(Len(c) - 1) : Tail(c)[k] = c[k + 1]
<1>1. c # <<>> /\ Len(c) \in Nat
  OBVIOUS
<1>2. Tail(c) \in Seq(TipSet)
  BY <1>1
<1>3. Len(Tail(c)) = Len(c) - 1
  BY <1>1
<1>4. \A k \in 1..(Len(c) - 1) : Tail(c)[k] = c[k + 1]
  BY <1>1
<1> QED
  BY <1>2, <1>3, <1>4

LEMMA SyncOneIInv == IInv /\ SyncOne => IInv'
<1> SUFFICES ASSUME IInv, SyncOne PROVE IInv'
  OBVIOUS
<1>1. Up /\ InJob /\ pc = "sync"
  BY DEF SyncOne, Up, InJob, Steps
<1>2. UNCHANGED <<staged, catchup, faults>>
  BY DEF SyncOne
<1>3. PICK ts \in TipSet : ts = Head(chain) /\ ts = chain[1]
  BY <1>1, JobFacts
<1>4. Len(chain) \in Nat \ {0} /\ 1 \in 1..Len(chain)
  BY <1>1, JobFacts
<1>5. ts \notin index /\ ParentsOf(ts) \in index
  BY <1>1, <1>3, <1>4 DEF IInv, JobInv
<1>6. ts # staged /\ ts # head
  BY <1>5, SyncAssumption DEF IInv, StoreInv, StagedInStore
<1>7. CASE Abort /\ UNCHANGED store /\ badTipSets' = badTipSets \union Range(chain)
  <2>1. badTipSets' \subseteq TipSet
    BY <1>1, <1>7, JobFacts DEF IInv, TypeOK
  <2> QED
    BY <1>1, <1>2, <1>7, <2>1, AbortIInv DEF IInv, TypeOK
<1>8. ASSUME Valid(ts), Put(ts), UNCHANGED <<wts, badTipSets>>,
             \/ Len(chain) > 1 /\ chain' = Tail(chain) /\ UNCHANGED pc
             \/ ~(Len(chain) > 1) /\ pc' = "stage" /\ UNCHANGED chain
      PROVE  IInv'
  <2>1. Up' /\ InJob' /\ pc' \in {"sync", "stage"}
    BY <1>1, <1>8 DEF Up, InJob, Steps
  <2>2. /\ index' = index \union {ts} /\ meta' = meta \union {ts}
        /\ UNCHANGED <<diskHead, head>>
    BY <1>8 DEF Put
  <2>3. StoreInv'
    BY <1>1, <1>2, <1>5, <1>8, <2>1, <2>2, PutStore
  <2>4. CASE Len(chain) > 1 /\ chain' = Tail(chain) /\ UNCHANGED pc
    <3>1. /\ chain' \in Seq(TipSet)
          /\ Len(chain') = Len(chain) - 1
          /\ \A k \in 1..(Len(chain) - 1) : chain'[k] = chain[k + 1]
      BY <2>4, TailFacts DEF IInv, TypeOK
    <3>2. \A k \in 1..(Len(chain') - 1) : ParentsOf(chain'[k + 1]) = chain'[k]
      <4> TAKE k \in 1..(Len(chain') - 1)
      <4>1. /\ k + 1 \in 1..(Len(chain) - 1)
            /\ k \in 1..(Len(chain) - 1)
        BY <1>4, <3>1
      <4>2. chain'[k + 1] = chain[(k + 1) + 1] /\ chain'[k] = chain[k + 1]
        BY <3>1, <4>1
      <4>3. ParentsOf(chain[(k + 1) + 1]) = chain[k + 1]
        BY <1>1, <4>1 DEF IInv, JobInv
      <4> QED
        BY <4>2, <4>3
    <3>3. \A k \in 1..Len(chain') : chain'[k] \notin index'
      <4> TAKE k \in 1..Len(chain')
      <4>1. /\ k + 1 \in 2..Len(chain)
            /\ k + 1 \in 1..Len(chain)
            /\ k \in 1..(Len(chain) - 1)
        BY <1>4, <3>1
      <4>2. chain'[k] = chain[k + 1]
        BY <3>1, <4>1
      <4>3. chain[k + 1] \notin index
        BY <1>1, <4>1 DEF IInv, JobInv
      <4>4. chain[k + 1] # ts
        BY <1>1, <1>5, <4>1, LaterIsOther
      <4> QED
        BY <2>2, <4>2, <4>3, <4>4
    <3>4. ParentsOf(chain'[1]) \in index'
      <4>1. 1 \in 1..(Len(chain) - 1)
        BY <1>4, <2>4
      <4>2. chain'[1] = chain[1 + 1]
        BY <3>1, <4>1
      <4>3. ParentsOf(chain[1 + 1]) = chain[1]
        BY <1>1, <4>1 DEF IInv, JobInv
      <4> QED
        BY <1>3, <2>2, <4>2, <4>3
    <3>5. chain' # <<>>
      <4>1. Len(chain') # 0
        BY <1>4, <2>4, <3>1
      <4>2. Len(<<>>) = 0
        OBVIOUS
      <4> QED
        BY <4>1, <4>2, ZenonT(60)
    <3>6. JobInv'
      <4>1. pc' = "sync"
        BY <1>1, <2>4
      <4> QED
        BY <3>2, <3>3, <3>4, <3>5, <4>1 DEF JobInv
    <3>7. TypeOK'
      <4>1. /\ index' \subseteq TipSet /\ meta' \subseteq TipSet
            /\ pc' \in Steps
        BY <1>1, <2>2, <2>4 DEF IInv, TypeOK, Steps
      <4> QED
        BY <1>2, <1>8, <2>2, <3>1, <4>1 DEF IInv, TypeOK
    <3> QED
      BY <2>3, <3>6, <3>7 DEF IInv
  <2>5. CASE pc' = "stage" /\ UNCHANGED chain
    <3>1. JobInv'
      BY <1>1, <1>2, <1>3, <1>5, <1>6, <2>2, <2>5 DEF IInv, JobInv
    <3>2. TypeOK'
      BY <1>2, <1>8, <2>2, <2>5 DEF IInv, TypeOK, Steps
    <3> QED
      BY <2>3, <3>1, <3>2 DEF IInv
  <2> QED
    BY <1>8, <2>4, <2>5
<1> QED
  BY <1>3, <1>6, <1>7, <1>8 DEF SyncOne

LEMMA SyncFailsIInv == IInv /\ SyncFails => IInv'
<1> SUFFICES ASSUME IInv, SyncFails PROVE IInv'
  OBVIOUS
<1>1. Up /\ InJob /\ pc \in {"syncWide", "sync"}
  BY DEF SyncFails, Up, InJob, Steps
<1>2. UNCHANGED <<meta, diskHead, head, staged, catchup>> /\ Abort
  BY DEF SyncFails
<1>3. Up' /\ pc' = "idle" /\ chain' = <<>> /\ wts' = NoTipSet
  BY <1>2 DEF Abort, Up
<1>4. faults' \in 0..MaxFaults
  BY SyncAssumption DEF SyncFails, IInv, TypeOK
<1>5. badTipSets' \subseteq TipSet
  BY <1>1, JobFacts DEF SyncFails, IInv, TypeOK
<1>6. PICK ts \in TipSet : /\ ts = IF pc = "sync" THEN Head(chain) ELSE wts
                           /\ ParentsOf(ts) \in index
  BY <1>1, JobFacts DEF IInv, JobInv
<1>7. CASE UNCHANGED index
  BY <1>1, <1>2, <1>4, <1>5, <1>7, AbortIInv DEF store, IInv, TypeOK
<1>8. CASE Valid(ts) /\ index' = index \union {ts}
  <2>1. StoreInv'
    BY <1>1, <1>2, <1>3, <1>6, <1>8, PutStore
  <2>2. index' \subseteq TipSet
    BY <1>8 DEF IInv, TypeOK
  <2> QED
    BY <1>2, <1>3, <1>4, <1>5, <2>1, <2>2, EndJob DEF IInv, TypeOK
<1> QED
  BY <1>6, <1>7, <1>8 DEF SyncFails

\* Staging keeps the store's invariant when what is staged is stored.
LEMMA StageStore ==
    ASSUME IInv, Up, Up', UNCHANGED store, staged' \in index
    PROVE  StoreInv'
<1>1. UNCHANGED <<index, meta, diskHead, head>>
  BY DEF store
<1>2. pc' # "load" /\ pc' # "down"
  BY DEF Up, Steps
<1> QED
  BY <1>1, <1>2 DEF IInv, StoreInv, StoreIsValid, StagedInStore, Closed

LEMMA StageWidenedIInv == IInv /\ StageWidened => IInv'
<1> SUFFICES ASSUME IInv, StageWidened PROVE IInv'
  OBVIOUS
<1>1. Up /\ InJob /\ pc = "stageWide"
  BY DEF StageWidened, Up, InJob, Steps
<1>2. UNCHANGED <<store, badTipSets, catchup, faults>>
  BY DEF StageWidened
<1>3. UNCHANGED <<index, meta, diskHead, head>>
  BY <1>2 DEF store
<1>4. CASE Abort /\ UNCHANGED staged
  BY <1>1, <1>2, <1>4, AbortIInv DEF IInv, TypeOK
<1>5. ASSUME ~StageErrs(wts), staged' = Heaviest(wts),
             pc' = IF Len(chain) > 1 THEN "sync" ELSE "stage",
             wts' = NoTipSet, UNCHANGED chain
      PROVE  IInv'
  <2>1. Up' /\ pc' \in {"sync", "stage"}
    BY <1>5 DEF Up, Steps
  <2>2. staged \in index /\ staged \in TipSet
    BY <1>5 DEF StageErrs, IInv, StoreInv, StagedInStore, TypeOK
  <2>3. wts \in index /\ wts \in TipSet
    BY <1>1 DEF IInv, JobInv
  <2>4. staged' \in {wts, staged} /\ staged' \in index /\ staged' \in TipSet
    BY <1>5, <2>2, <2>3 DEF Heaviest
  <2>5. StoreInv'
    BY <1>1, <1>2, <2>1, <2>4, StageStore
  <2>6. TypeOK'
    BY <1>2, <1>3, <1>5, <2>1, <2>4 DEF IInv, TypeOK, Steps
  <2>7. PICK s \in TipSet : s = chain[1]
    BY <1>1, JobFacts
  <2>8. s \notin index /\ ParentsOf(s) \in index /\ ParentsOf(s) \in TipSet
    BY <1>1, <2>7, JobFacts DEF IInv, JobInv, TypeOK
  <2>9. s # staged' /\ s # head
    BY <2>4, <2>7, <2>8, SyncAssumption DEF IInv, StoreInv
  <2>10. Weight(s) < Weight(wts)
    BY <1>1, <2>3, <2>7, <2>8, WiderIsHeavier DEF IInv, JobInv
  <2>11. Weight(s) < Weight(staged')
    <3>1. Weighable(s)
      BY <2>8 DEF Weighable
    <3>2. Weight(s) \in Nat /\ Weight(wts) \in Nat /\ Weight(staged) \in Nat
      BY <2>2, <2>3, <3>1, WeightType DEF IInv, StoreInv
    <3>3. CASE IsHeavier(wts, staged)
      BY <1>5, <2>10, <3>3 DEF Heaviest
    <3>4. CASE ~IsHeavier(wts, staged)
      <4>1. staged' = staged
        BY <1>5, <3>4 DEF Heaviest
      <4>2. ~(Weight(wts) > Weight(staged))
        BY <3>2, <3>4 DEF IsHeavier
      <4> QED
        BY <2>10, <3>2, <4>1, <4>2
    <3> QED
      BY <3>3, <3>4
  <2>12. staged' # NoTipSet
    BY <2>4, SyncAssumption
  <2>13. JobInv'
    BY <1>1, <1>3, <1>5, <2>1, <2>7, <2>8, <2>9, <2>11, <2>12, ZenonT(60) DEF IInv, JobInv
  <2> QED
    BY <2>5, <2>6, <2>13 DEF IInv
<1> QED
  BY <1>4, <1>5 DEF StageWidened

LEMMA StageIfHeaviestIInv == IInv /\ StageIfHeaviest => IInv'
<1> SUFFICES ASSUME IInv, StageIfHeaviest PROVE IInv'
  OBVIOUS
<1>1. Up /\ InJob /\ pc = "stage"
  BY DEF StageIfHeaviest, Up, InJob, Steps
<1>2. UNCHANGED <<store, badTipSets, catchup, faults>>
  BY DEF StageIfHeaviest
<1>3. UNCHANGED <<index, meta, diskHead, head>>
  BY <1>2 DEF store
<1>4. CASE Abort /\ UNCHANGED staged
  BY <1>1, <1>2, <1>4, AbortIInv DEF IInv, TypeOK
<1>5. ASSUME ~StageErrs(Head(chain)), staged' = Heaviest(Head(chain)), Finish
      PROVE  IInv'
  <2>1. Up' /\ pc' \in {"idle", "setHead"} /\ chain' = <<>> /\ wts' = NoTipSet
    BY <1>5 DEF Finish, Up, Steps
  <2>2. PICK s \in TipSet : s = Head(chain) /\ s = chain[1]
    BY <1>1, JobFacts
  <2>3. staged \in index /\ staged \in TipSet
    BY <1>5 DEF StageErrs, IInv, StoreInv, StagedInStore, TypeOK
  <2>4. staged' = Heaviest(s)
    BY <1>5, <2>2
  <2>5. staged' \in index
    <3>1. CASE s \in index
      BY <2>3, <2>4, <3>1 DEF Heaviest
    <3>2. CASE s \notin index
      <4>1. Weight(s) < Weight(staged)
        BY <1>1, <2>2, <3>2 DEF IInv, JobInv
      <4>2. ParentsOf(s) \in index
        BY <1>1, <2>2 DEF IInv, JobInv
      <4>3. Weighable(s)
        BY <4>2 DEF Weighable, IInv, TypeOK
      <4>4. Weight(s) \in Nat /\ Weight(staged) \in Nat
        BY <2>3, <4>3, WeightType DEF IInv, StoreInv
      <4>5. ~IsHeavier(s, staged)
        BY <4>1, <4>4 DEF IsHeavier
      <4> QED
        BY <2>3, <2>4, <4>5 DEF Heaviest
    <3> QED
      BY <3>1, <3>2
  <2>6. StoreInv'
    BY <1>1, <1>2, <2>1, <2>5, StageStore
  <2> QED
    BY <1>2, <1>3, <2>1, <2>5, <2>6, EndJob DEF IInv, TypeOK
<1> QED
  BY <1>4, <1>5 DEF StageIfHeaviest

LEMMA SetStagedHeadIInv == IInv /\ SetStagedHead => IInv'
<1> SUFFICES ASSUME IInv, SetStagedHead PROVE IInv'
  OBVIOUS
<1>1. Up /\ Up' /\ pc' = "idle" /\ catchup' \in BOOLEAN
  BY DEF SetStagedHead, Up, Steps
<1>2. /\ diskHead' = staged /\ head' = staged
      /\ UNCHANGED <<index, meta, staged, badTipSets, chain, wts, faults>>
  BY DEF SetStagedHead
<1>3. StoreInv'
  BY <1>1, <1>2, ZenonT(60) DEF IInv, StoreInv, StoreIsValid, StagedInStore, Closed
<1>4. JobInv'
  BY <1>1 DEF JobInv, InJob, Steps
<1>5. TypeOK'
  BY <1>1, <1>2 DEF IInv, TypeOK
<1> QED
  BY <1>3, <1>4, <1>5 DEF IInv

LEMMA SetHeadFailsIInv == IInv /\ SetHeadFails => IInv'
<1> SUFFICES ASSUME IInv, SetHeadFails PROVE IInv'
  OBVIOUS
<1>1. Up /\ Up' /\ pc' = "idle"
  BY DEF SetHeadFails, Up, Steps
<1>2. UNCHANGED <<store, staged, badTipSets, chain, wts, catchup>>
  BY DEF SetHeadFails
<1>3. faults' \in 0..MaxFaults
  BY SyncAssumption DEF SetHeadFails, IInv, TypeOK
<1>4. StoreInv'
  BY <1>1, <1>2, StoreFrame
<1>5. JobInv'
  BY <1>1 DEF JobInv, InJob, Steps
<1>6. TypeOK'
  BY <1>1, <1>2, <1>3 DEF IInv, TypeOK, store
<1> QED
  BY <1>4, <1>5, <1>6 DEF IInv

LEMMA TransitionToFollowIInv == IInv /\ TransitionToFollow => IInv'
<1> SUFFICES ASSUME IInv, TransitionToFollow PROVE IInv'
  OBVIOUS
<1>1. Up /\ Up' /\ pc' = "setHead"
  BY DEF TransitionToFollow, Up, Steps
<1>2. UNCHANGED <<store, staged, badTipSets, chain, wts, catchup, faults>>
  BY DEF TransitionToFollow
<1>3. StoreInv'
  BY <1>1, <1>2, StoreFrame
<1>4. JobInv'
  BY <1>1 DEF JobInv, InJob
<1>5. TypeOK'
  BY <1>1, <1>2 DEF IInv, TypeOK, Steps, store
<1> QED
  BY <1>3, <1>4, <1>5 DEF IInv

LEMMA NextIInv == IInv /\ [Next]_vars => IInv'
<1> SUFFICES ASSUME IInv, [Next]_vars PROVE IInv'
  OBVIOUS
<1>1. CASE Next
  BY <1>1, LoadIInv, LoadTipSetIInv, InitStagedIInv, CrashIInv,
     HandleNewTipSetIInv, TransitionToFollowIInv, FetchFailsIInv, SyncFailsIInv,
     FetchTipSetHeadersIInv, ValidateHeadersIInv, FetchTipSetsIInv, WidenIInv,
     SyncWidenedIInv, StageWidenedIInv, SyncOneIInv, StageIfHeaviestIInv,
     SetStagedHeadIInv, SetHeadFailsIInv DEF Next, Syncing
<1>2. CASE UNCHANGED vars
  <2>1. UNCHANGED <<index, meta, diskHead, head, staged, badTipSets, pc, chain, wts,
                    catchup, faults>>
    BY <1>2 DEF vars
  <2>2. TypeOK'
    BY <2>1 DEF IInv, TypeOK
  <2>3. StoreInv'
    BY <2>1 DEF IInv, StoreInv, Up, StoreIsValid, StagedInStore
  <2>4. JobInv'
    BY <2>1 DEF IInv, JobInv, InJob
  <2> QED
    BY <2>2, <2>3, <2>4 DEF IInv
<1> QED
  BY <1>1, <1>2

LEMMA SpecIInv == Spec => []IInv
  BY InitIInv, NextIInv, PTL DEF Spec

\* The states of the model are well typed, whatever fails.
THEOREM TypeCorrect == Spec => []TypeOK
  BY SpecIInv, IInvImplies, PTL

\* What the syncer stages, and so may make the head, is in the store.
THEOREM StagedStored == Spec => []StagedInStore
  BY SpecIInv, IInvImplies, PTL

\* syncOne and stageIfHeaviest find the parent and the grandparent states that
\* the comment in syncOne says the syncer guarantees.
THEOREM LookupsFound == Spec => []LookupsSucceed
  BY SpecIInv, IInvImplies, PTL

\* Only validated tipsets enter the store, in memory and on disk.
THEOREM StoreValid == Spec => []StoreIsValid
  BY SpecIInv, IInvImplies, PTL

\* The chain selector is never asked to compare a tipset with itself.
THEOREM NoSelfComparison == Spec => []NeverComparesItself
  BY SpecIInv, IInvImplies, PTL

-----------------------------------------------------------------------------
(* The head never gets lighter, when InitStaged precedes the first target *)

HeadInv ==
    /\ Weighable(diskHead)
    /\ pc \in Steps \/ catchup => staged # NoTipSet
    /\ Up => head = diskHead
    /\ staged # NoTipSet => staged = diskHead \/ IsHeavier(staged, diskHead)

LEMMA InitHeadInv == Init => HeadInv
<1>1. Weighable(GenesisTipSet)
  BY GenesisIsTipSet DEF Weighable
<1> QED
  BY <1>1 DEF Init, HeadInv, Up, Steps

\* A step that touches neither the heads nor what is staged.
LEMMA HeadFrame ==
    ASSUME HeadInv, UNCHANGED <<diskHead, head, staged>>,
           pc' \in Steps \/ catchup' => staged # NoTipSet, Up' => Up
    PROVE  HeadInv'
  BY DEF HeadInv

LEMMA ExitHeadInv ==
    ASSUME HeadInv, Exit
    PROVE  HeadInv'
  BY DEF HeadInv, Exit, Up, Steps

\* Staging the heavier of two keeps what is staged heavier than the head.
LEMMA StageHeadInv ==
    ASSUME HeadInv, Up, Up', NEW ts, Weighable(ts), Weighable(staged),
           staged # NoTipSet, staged' = Heaviest(ts), staged' # NoTipSet,
           UNCHANGED <<diskHead, head>>
    PROVE  HeadInv'
<1>1. staged' = diskHead \/ IsHeavier(staged', diskHead)
  <2>1. CASE IsHeavier(ts, staged)
    <3>1. staged' = ts
      BY <2>1 DEF Heaviest
    <3>2. CASE staged = diskHead
      BY <2>1, <3>1, <3>2
    <3>3. CASE IsHeavier(staged, diskHead)
      BY <2>1, <3>1, <3>3, HeavierTransitive DEF HeadInv
    <3> QED
      BY <3>2, <3>3 DEF HeadInv
  <2>2. CASE ~IsHeavier(ts, staged)
    BY <2>2 DEF Heaviest, HeadInv
  <2> QED
    BY <2>1, <2>2
<1> QED
  BY <1>1 DEF HeadInv

LEMMA StageIfHeaviestHeadInv ==
    ASSUME IInv, IInv', HeadInv, StageIfHeaviest
    PROVE  HeadInv'
<1>1. Up /\ InJob /\ pc = "stage" /\ pc \in Steps
  BY DEF StageIfHeaviest, Up, InJob, Steps
<1>2. UNCHANGED <<diskHead, head>> /\ catchup' = catchup
  BY DEF StageIfHeaviest, store
<1>3. CASE Abort /\ UNCHANGED staged
  BY <1>1, <1>2, <1>3, HeadFrame DEF HeadInv, Abort
<1>4. ASSUME ~StageErrs(Head(chain)), staged' = Heaviest(Head(chain)), Finish
      PROVE  HeadInv'
  <2>1. Up'
    BY <1>4 DEF Finish, Up, Steps
  <2>2. PICK s \in TipSet : s = Head(chain) /\ ParentsOf(s) \in index
    BY <1>1, JobFacts, ZenonT(60) DEF IInv, JobInv
  <2>3. Weighable(s)
    BY <2>2 DEF Weighable, IInv, TypeOK
  <2>4. staged # NoTipSet /\ Weighable(staged)
    BY <1>4 DEF StageErrs, IInv, StoreInv, StagedInStore
  <2>5. staged' # NoTipSet
    BY <1>4, <2>2, <2>4, SyncAssumption DEF Heaviest
  <2> QED
    BY <1>1, <1>2, <1>4, <2>1, <2>2, <2>3, <2>4, <2>5, StageHeadInv
<1> QED
  BY <1>3, <1>4 DEF StageIfHeaviest

LEMMA StageWidenedHeadInv ==
    ASSUME IInv, HeadInv, StageWidened
    PROVE  HeadInv'
<1>1. Up /\ InJob /\ pc = "stageWide" /\ pc \in Steps
  BY DEF StageWidened, Up, InJob, Steps
<1>2. UNCHANGED <<diskHead, head>> /\ catchup' = catchup
  BY DEF StageWidened, store
<1>3. CASE Abort /\ UNCHANGED staged
  BY <1>1, <1>2, <1>3, HeadFrame DEF HeadInv, Abort
<1>4. ASSUME ~StageErrs(wts), staged' = Heaviest(wts), pc' \in {"sync", "stage"}
      PROVE  HeadInv'
  <2>1. Up'
    BY <1>4 DEF Up, Steps
  <2>2. wts \in TipSet /\ Weighable(wts)
    BY <1>1 DEF IInv, JobInv, StoreInv
  <2>3. staged # NoTipSet /\ Weighable(staged)
    BY <1>4 DEF StageErrs, IInv, StoreInv, StagedInStore
  <2>4. staged' # NoTipSet
    BY <1>4, <2>2, <2>3, SyncAssumption DEF Heaviest
  <2> QED
    BY <1>1, <1>2, <1>4, <2>1, <2>2, <2>3, <2>4, StageHeadInv
<1> QED
  BY <1>3, <1>4 DEF StageWidened

LEMMA NextHeadInv ==
    ASSUME ~TargetsDuringStart, IInv, IInv', HeadInv, [Next]_vars
    PROVE  HeadInv'
<1>1. CASE Load
  BY <1>1, HeadFrame DEF Load, store, HeadInv, Up, Steps
<1>2. CASE LoadTipSet
  <2>1. UNCHANGED <<diskHead, staged, catchup>> /\ pc = "load"
    BY <1>2 DEF LoadTipSet
  <2>2. \/ pc' \in {"unusable", "load"}
        \/ pc' = "idle" /\ head' = diskHead
    BY <1>2 DEF LoadTipSet
  <2> QED
    BY <2>1, <2>2 DEF HeadInv, Up, Steps
<1>3. CASE InitStaged
  <2>1. CASE head \in index /\ staged' = head /\ UNCHANGED <<store, pc, catchup>>
    <3>1. Up /\ head \in TipSet
      BY <1>3, <2>1 DEF InitStaged, Up, IInv, TypeOK
    <3>2. UNCHANGED <<diskHead, head>> /\ staged' = diskHead
      BY <2>1, <3>1 DEF store, HeadInv
    <3>3. staged' # NoTipSet
      BY <2>1, <3>1, SyncAssumption
    <3> QED
      BY <2>1, <3>2, <3>3 DEF HeadInv, Up
  <2> QED
    BY <1>3, <2>1, ExitHeadInv DEF InitStaged
<1>4. CASE Crash
  BY <1>4, ExitHeadInv DEF Crash
<1>5. CASE \E ts \in TipSet, mode \in BOOLEAN : HandleNewTipSet(ts, mode)
  <2>1. PICK ts \in TipSet, mode \in BOOLEAN : HandleNewTipSet(ts, mode)
    BY <1>5
  <2>2. pc = "idle" /\ staged # NoTipSet /\ UNCHANGED <<diskHead, head, staged>>
    BY <2>1 DEF HandleNewTipSet, store
  <2> QED
    BY <2>2, HeadFrame DEF Up
<1>6. CASE TransitionToFollow
  <2>1. pc = "idle" /\ catchup /\ UNCHANGED <<diskHead, head, staged>>
    BY <1>6 DEF TransitionToFollow, store
  <2> QED
    BY <2>1, HeadFrame DEF HeadInv, Up
<1>7. ASSUME pc \in Steps, UNCHANGED <<diskHead, head, staged>>
      PROVE  HeadInv'
  BY <1>7, HeadFrame DEF HeadInv, Up
<1>8. CASE FetchTipSetHeaders
  BY <1>7, <1>8 DEF FetchTipSetHeaders, store, Steps
<1>9. CASE ValidateHeaders
  BY <1>7, <1>9 DEF ValidateHeaders, store, Steps
<1>10. CASE FetchTipSets
  BY <1>7, <1>10 DEF FetchTipSets, store, Steps
<1>11. CASE Widen
  BY <1>7, <1>11 DEF Widen, store, Steps
<1>12. CASE SyncWidened
  BY <1>7, <1>12 DEF SyncWidened, Put, store, Steps
<1>13. CASE SyncOne
  BY <1>7, <1>13 DEF SyncOne, Put, store, Steps
<1>14. CASE SetStagedHead
  <2>1. /\ pc' = "idle" /\ staged # NoTipSet /\ staged' = staged
        /\ head' = staged /\ diskHead' = staged
    BY <1>14 DEF SetStagedHead, HeadInv, Steps
  <2>2. Weighable(staged)
    BY <2>1 DEF IInv, StoreInv, StagedInStore
  <2> QED
    BY <2>1, <2>2 DEF HeadInv
<1>15. CASE FetchFails
  BY <1>7, <1>15 DEF FetchFails, store, Steps
<1>16. CASE SyncFails
  BY <1>7, <1>16 DEF SyncFails, Steps
<1>17. CASE UNCHANGED vars
  BY <1>17, HeadFrame DEF vars, HeadInv, Up
<1>18. CASE SetHeadFails
  BY <1>7, <1>18 DEF SetHeadFails, store, Steps
<1> QED
  BY <1>1, <1>2, <1>3, <1>4, <1>5, <1>6, <1>8, <1>9, <1>10, <1>11, <1>12, <1>13,
     <1>14, <1>15, <1>16, <1>17, <1>18, StageWidenedHeadInv,
     StageIfHeaviestHeadInv
     DEF Next, Syncing

LEMMA SpecHeadInv ==
    ASSUME ~TargetsDuringStart
    PROVE  Spec => [](IInv /\ HeadInv)
<1>1. Init => IInv /\ HeadInv
  BY InitIInv, InitHeadInv
<1>2. (IInv /\ HeadInv) /\ [Next]_vars => (IInv /\ HeadInv)'
  BY NextIInv, NextHeadInv
<1> QED
  BY <1>1, <1>2, PTL DEF Spec

\* Only SetStagedHead writes the head, and writes what is staged.
LEMMA HeadStep ==
    ASSUME ~TargetsDuringStart, IInv, HeadInv, [Next]_vars
    PROVE  [diskHead' # diskHead => IsHeavier(diskHead', diskHead)]_diskHead
<1>1. CASE SetStagedHead
  <2>1. diskHead' = staged /\ staged # NoTipSet
    BY <1>1 DEF SetStagedHead, HeadInv, Steps
  <2> QED
    BY <2>1 DEF HeadInv
<1>2. CASE UNCHANGED diskHead
  BY <1>2
<1>3. SetStagedHead \/ UNCHANGED diskHead
  BY ZenonT(60) DEF Next, Syncing, vars, store, Load, LoadTipSet, InitStaged, Exit, Crash,
         HandleNewTipSet, TransitionToFollow, FetchTipSetHeaders, ValidateHeaders,
         FetchTipSets, Widen, SyncWidened, Put, StageWidened, SyncOne,
         StageIfHeaviest, FetchFails, SyncFails, SetHeadFails
<1> QED
  BY <1>1, <1>2, <1>3

\* When no target is handled before InitStaged, SetHead only ever replaces the
\* head on disk by a heavier one, across crashes, restarts and failed writes.
THEOREM HeadGrows ==
    ASSUME ~TargetsDuringStart
    PROVE  Spec => HeadNeverLighter
<1>1. IInv /\ HeadInv /\ [Next]_vars =>
          [diskHead' # diskHead => IsHeavier(diskHead', diskHead)]_diskHead
  BY HeadStep
<1> QED
  BY <1>1, SpecHeadInv, PTL DEF Spec, HeadNeverLighter

-----------------------------------------------------------------------------
(* A restart succeeds, when moreover local reads and writes succeed *)

DiskInv ==
    /\ pc # "unusable"
    /\ Closed(meta)
    /\ index \subseteq meta
    /\ diskHead \in meta
    /\ pc = "load" => chain[1] \in meta

LEMMA InitDiskInv == Init => DiskInv
<1>1. ParentsOf(GenesisTipSet) = {}
  BY GenesisIsTipSet
<1> QED
  BY <1>1 DEF Init, DiskInv, Closed

\* The metadata of a tipset is written after that of its parent.
LEMMA PutDiskInv ==
    ASSUME DiskInv, NEW ts, Put(ts), ParentsOf(ts) \in index,
           pc' # "unusable", pc' # "load"
    PROVE  DiskInv'
  BY DEF DiskInv, Put, Closed

LEMMA DiskFrame ==
    ASSUME DiskInv, UNCHANGED <<index, meta, diskHead>>,
           pc' # "unusable", pc' # "load"
    PROVE  DiskInv'
  BY DEF DiskInv, Closed

LEMMA ExitDiskInv ==
    ASSUME DiskInv, Exit
    PROVE  DiskInv'
  BY DEF DiskInv, Exit, Closed

LEMMA NextDiskInv ==
    ASSUME ~TargetsDuringStart, ~DiskFaults, IInv, HeadInv, DiskInv, [Next]_vars
    PROVE  DiskInv'
<1>1. CASE Load
  <2>1. diskHead # NoTipSet
    BY SyncAssumption DEF HeadInv, Weighable
  <2>2. UNCHANGED <<index, meta, diskHead>> /\ pc' = "load" /\ chain' = <<diskHead>>
    BY <1>1, <2>1 DEF Load, store
  <2> QED
    BY <2>2 DEF DiskInv, Closed
<1>2. CASE LoadTipSet
  <2>1. PICK ts : ts = Head(chain) /\ ts = chain[1] /\ ts \in meta
    BY <1>2 DEF LoadTipSet, IInv, TypeOK, StoreInv, DiskInv
  <2>2. index' = index \union {ts} /\ UNCHANGED <<meta, diskHead>>
    BY <1>2, <2>1 DEF LoadTipSet
  <2>3. CASE ParentsOf(ts) # {}
    <3>1. chain' = <<ParentsOf(ts)>> /\ pc' = "load" /\ ParentsOf(ts) \in meta
      BY <1>2, <2>1, <2>3 DEF LoadTipSet, DiskInv, Closed
    <3> QED
      BY <2>1, <2>2, <3>1 DEF DiskInv, Closed
  <2>4. CASE ParentsOf(ts) = {}
    <3>1. pc' = "idle"
      BY <1>2, <2>1, <2>4 DEF LoadTipSet
    <3> QED
      BY <2>1, <2>2, <3>1 DEF DiskInv, Closed
  <2> QED
    BY <2>3, <2>4
<1>3. CASE InitStaged
  <2>1. CASE UNCHANGED <<store, pc>>
    BY <1>3, <2>1, DiskFrame DEF InitStaged, store, Steps
  <2> QED
    BY <1>3, <2>1, ExitDiskInv DEF InitStaged
<1>4. CASE Crash
  BY <1>4, ExitDiskInv DEF Crash
<1>5. CASE \E ts \in TipSet, mode \in BOOLEAN : HandleNewTipSet(ts, mode)
  BY <1>5, DiskFrame DEF HandleNewTipSet, store, Finish, Abort
<1>6. CASE TransitionToFollow
  BY <1>6, DiskFrame DEF TransitionToFollow, store
<1>7. CASE FetchTipSetHeaders
  BY <1>7, DiskFrame DEF FetchTipSetHeaders, store, Abort
<1>8. CASE ValidateHeaders
  BY <1>8, DiskFrame DEF ValidateHeaders, store, Abort
<1>9. CASE FetchTipSets
  BY <1>9, DiskFrame DEF FetchTipSets, store
<1>10. CASE Widen
  BY <1>10, DiskFrame, ZenonT(60) DEF Widen, store, Abort
<1>11. CASE SyncWidened
  <2>1. pc = "syncWide" /\ pc' \in {"idle", "stageWide"}
    BY <1>11 DEF SyncWidened, Abort
  <2>2. ParentsOf(wts) \in index
    BY <2>1 DEF IInv, JobInv, InJob, Steps
  <2>3. Put(wts) \/ UNCHANGED <<index, meta, diskHead>>
    BY <1>11 DEF SyncWidened, store
  <2> QED
    BY <2>1, <2>2, <2>3, PutDiskInv, DiskFrame
<1>12. CASE SyncOne
  <2>1. pc = "sync" /\ pc' \in {"idle", "sync", "stage"} /\ InJob
    BY <1>12 DEF SyncOne, Abort, InJob, Steps
  <2>2. ParentsOf(Head(chain)) \in index
    BY <2>1, JobFacts DEF IInv, JobInv
  <2>3. Put(Head(chain)) \/ UNCHANGED <<index, meta, diskHead>>
    BY <1>12 DEF SyncOne, store
  <2> QED
    BY <2>1, <2>2, <2>3, PutDiskInv, DiskFrame
<1>13. CASE StageWidened
  <2>1. pc' \in {"idle", "sync", "stage"} /\ UNCHANGED <<index, meta, diskHead>>
    BY <1>13 DEF StageWidened, store, Abort
  <2> QED
    BY <2>1, DiskFrame
<1>14. CASE StageIfHeaviest
  <2>1. pc' \in {"idle", "setHead"} /\ UNCHANGED <<index, meta, diskHead>>
    BY <1>14 DEF StageIfHeaviest, store, Abort, Finish
  <2> QED
    BY <2>1, DiskFrame
<1>15. CASE SetStagedHead
  <2>1. staged \in index
    BY <1>15 DEF SetStagedHead, HeadInv, Steps, IInv, StoreInv, StagedInStore
  <2> QED
    BY <1>15, <2>1 DEF SetStagedHead, DiskInv, Closed
<1>16. CASE FetchFails
  BY <1>16, DiskFrame DEF FetchFails, store, Abort
<1>17. CASE SyncFails \/ SetHeadFails
  BY <1>17 DEF SyncFails, SetHeadFails
<1>18. CASE UNCHANGED vars
  BY <1>18 DEF vars, DiskInv, Closed
<1> QED
  BY <1>1, <1>2, <1>3, <1>4, <1>5, <1>6, <1>7, <1>8, <1>9, <1>10, <1>11, <1>12,
     <1>13, <1>14, <1>15, <1>16, <1>17, <1>18 DEF Next, Syncing

\* When no target is handled before InitStaged and local reads and writes do
\* not fail, Load succeeds after a crash at any step.
THEOREM RestartWorks ==
    ASSUME ~TargetsDuringStart, ~DiskFaults
    PROVE  Spec => []RestartSucceeds
<1>1. Init => DiskInv
  BY InitDiskInv
<1>2. DiskInv /\ (IInv /\ HeadInv) /\ [Next]_vars => DiskInv'
  BY NextDiskInv
<1>3. DiskInv => RestartSucceeds
  BY DEF DiskInv, RestartSucceeds
<1> QED
  BY <1>1, <1>2, <1>3, SpecHeadInv, PTL DEF Spec

-----------------------------------------------------------------------------
(* The same beside rough behaviours *)

SmoothInv == ~rough => IInv /\ HeadInv /\ DiskInv

LEMMA SmoothStep ==
    ASSUME ~TargetsDuringStart, ~DiskFaults, SmoothInv, [FaultsNext]_<<vars, rough>>
    PROVE  /\ SmoothInv'
           /\ ~rough /\ diskHead' # diskHead => IsHeavier(diskHead', diskHead)
<1>1. rough' = rough /\ (~rough => [Next]_vars)
  BY DEF FaultsNext
<1> SUFFICES ASSUME ~rough
             PROVE  /\ IInv' /\ HeadInv' /\ DiskInv'
                    /\ diskHead' # diskHead => IsHeavier(diskHead', diskHead)
  BY <1>1 DEF SmoothInv
<1>2. IInv /\ HeadInv /\ DiskInv /\ [Next]_vars
  BY <1>1 DEF SmoothInv
<1>3. IInv' /\ HeadInv' /\ DiskInv'
  <2>1. IInv'
    BY <1>2, NextIInv
  <2> QED
    BY <1>2, <2>1, NextHeadInv, NextDiskInv
<1>4. diskHead' # diskHead => IsHeavier(diskHead', diskHead)
  BY <1>2, HeadStep
<1> QED
  BY <1>3, <1>4

LEMMA SpecSmoothInv ==
    ASSUME ~TargetsDuringStart, ~DiskFaults
    PROVE  FaultsSpec => []SmoothInv
<1>1. FaultsInit => SmoothInv
  BY InitIInv, InitHeadInv, InitDiskInv DEF FaultsInit, SmoothInv
<1>2. SmoothInv /\ [FaultsNext]_<<vars, rough>> => SmoothInv'
  BY SmoothStep
<1> QED
  BY <1>1, <1>2, PTL DEF FaultsSpec

\* A behaviour without failing reads and writes and without targets before
\* InitStaged can always be restarted, whatever the behaviours with them do:
\* after a crash at any step Load finds a head whose chain is complete on disk.
THEOREM SmoothRestartWorks ==
    ASSUME ~TargetsDuringStart, ~DiskFaults
    PROVE  FaultsSpec => []SmoothRestart
<1>1. SmoothInv => SmoothRestart
  BY DEF SmoothInv, SmoothRestart, DiskInv, RestartSucceeds
<1> QED
  BY <1>1, SpecSmoothInv, PTL

\* In such a behaviour SetHead only ever replaces the head on disk by a heavier
\* one, across crashes, restarts and the loss of what was staged.
THEOREM SmoothHeadGrows ==
    ASSUME ~TargetsDuringStart, ~DiskFaults
    PROVE  FaultsSpec => SmoothHead
<1>1. SmoothInv /\ [FaultsNext]_<<vars, rough>> =>
          [~rough /\ diskHead' # diskHead => IsHeavier(diskHead', diskHead)]_diskHead
  BY SmoothStep
<1> QED
  BY <1>1, SpecSmoothInv, PTL DEF FaultsSpec, SmoothHead
=============================================================================
