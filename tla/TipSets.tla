------------------------------ MODULE TipSets ------------------------------
(***************************************************************************)
(* Blocks, tipsets and the chain selector.  A block is a model value; the  *)
(* header fields that chain selection and syncing read are functions of    *)
(* it.  A tipset is the set of its blocks, which is also its key.          *)
(***************************************************************************)
EXTENDS Integers, FiniteSets, FiniteSetsExt

CONSTANTS
    Blocks,        \* every block any peer may ever produce
    Genesis,       \* the genesis block
    Parents,       \* header: the blocks of the parent tipset
    Height,        \* header: the epoch of the block
    ParentWeight,  \* header: the weight its miner claims for the parent
    Ticket,        \* header: the VRF proof, by its place in byte order
    LogPower,      \* bit length of the total power in a tipset's state
    KeyOrder,      \* place of a tipset key in string order
    ECV            \* newECV, what a block adds to the weight

\* NewTipSet accepts blocks with one height, parent set and parent weight.
NewTipSetOK(blks) ==
    /\ blks # {}
    /\ \A a, b \in blks : /\ Height[a] = Height[b]
                          /\ Parents[a] = Parents[b]
                          /\ ParentWeight[a] = ParentWeight[b]

TipSet == {blks \in SUBSET Blocks : NewTipSetOK(blks)}

\* A tipset answers for its header fields with those of its first block.
First(ts) == CHOOSE b \in ts : TRUE
ParentsOf(ts) == Parents[First(ts)]
HeightOf(ts) == Height[First(ts)]
ParentWeightOf(ts) == ParentWeight[First(ts)]
MinTicket(ts) == Min({Ticket[b] : b \in ts})
GenesisTipSet == {Genesis}

ASSUME BlocksAssumption ==
    /\ IsFiniteSet(Blocks)
    /\ Genesis \in Blocks
    /\ Parents \in [Blocks -> SUBSET Blocks]
    /\ \A b \in Blocks : Parents[b] = {} <=> b = Genesis
    /\ Height \in [Blocks -> Nat]
    /\ ParentWeight \in [Blocks -> Nat]
    /\ Ticket \in [Blocks -> Nat]
    /\ LogPower \in [TipSet -> Nat]
    /\ KeyOrder \in [TipSet -> Nat]
    /\ \A s, t \in TipSet : KeyOrder[s] = KeyOrder[t] => s = t
    /\ ECV \in Nat \ {0}

\* Weight reads the power in the state that the blocks were mined on.
Weight(ts) ==
    IF Genesis \in ts THEN 0
    ELSE ParentWeightOf(ts) + ECV * Cardinality(ts) + LogPower[ParentsOf(ts)]

\* Ties go to the smaller ticket, then to the greater key.
IsHeavier(a, b) ==
    \/ Weight(a) > Weight(b)
    \/ /\ Weight(a) = Weight(b)
       /\ \/ MinTicket(a) < MinTicket(b)
          \/ /\ MinTicket(a) = MinTicket(b)
             /\ KeyOrder[a] > KeyOrder[b]

\* A set of tipsets that an iterator over ancestors never leaves.
Closed(S) == \A ts \in S : ParentsOf(ts) # {} => ParentsOf(ts) \in S

ClosedSets == {S \in SUBSET TipSet :
    \A ts \in S : ParentsOf(ts) \in TipSet => ParentsOf(ts) \in S}

\* Everything IterAncestors visits from ts, ts included.
Ancestors == [ts \in TipSet |->
    {a \in TipSet : \A S \in ClosedSets : ts \in S => a \in S}]
=============================================================================
