---------------------------- MODULE MCChainSync ----------------------------
(* Small block trees for model checking ChainSync. *)
EXTENDS ChainSyncFaults

(* Forks: two miners at height 1, whose blocks make one wide tipset or two  *)
(* narrow ones; a child of the narrow a1 with a child of its own; a child   *)
(* of the wide one; a block with a wrong weight and a child of blocks that  *)
(* make no tipset; and a block with a wrong height.                         *)
ForkBlocks == {"g", "a1", "a2", "b", "c", "w", "x", "y", "z"}
ForkParents == [g |-> {}, a1 |-> {"g"}, a2 |-> {"g"}, x |-> {"g"}, b |-> {"a1"},
                c |-> {"b"}, w |-> {"a1", "a2"}, y |-> {"a1", "x"}, z |-> {"a2"}]
ForkHeight == [g |-> 0, a1 |-> 1, a2 |-> 1, x |-> 1, b |-> 2, c |-> 3, w |-> 2,
               y |-> 2, z |-> 1]
ForkWeight == [g |-> 0, a1 |-> 0, a2 |-> 0, x |-> 7, b |-> 3, c |-> 6, w |-> 5,
               y |-> 3, z |-> 3]
ForkTicket == [g |-> 0, a1 |-> 1, a2 |-> 1, x |-> 0, b |-> 2, c |-> 0, w |-> 1,
               y |-> 0, z |-> 0]

OneBit == [ts \in TipSet |-> 1]

-----------------------------------------------------------------------------
\* The string order of tipset keys: of two keys with the same first blocks the
\* shorter is the greater.
BlockCode == [g |-> 1, a1 |-> 2, a2 |-> 4, x |-> 8, b |-> 16, c |-> 32, w |-> 64,
              y |-> 128, z |-> 256]
Code(ts) == MapThenSumSet(LAMBDA b : BlockCode[b], ts)
KeyOrders == [ts \in TipSet |-> 512 - Code(ts)]

=============================================================================
