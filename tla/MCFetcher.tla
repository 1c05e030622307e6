----------------------------- MODULE MCFetcher -----------------------------
(***************************************************************************)
(* A small instance of GraphSyncFetcher: two bootstrap peers, one of which *)
(* is sent the heartbeats, a peer of another network, and a chain of three *)
(* tipsets the middle one of which has two blocks.                         *)
(***************************************************************************)
EXTENDS GraphSyncFetcher

MCBlocks == <<<<"a">>, <<"b1", "b2">>, <<"c">>>>

\* What p2 has; the others have all.
World(mode, h) ==
    [mode |-> mode, fetchFromSelf |-> FALSE, has |-> [p \in Peers |-> IF p = "p2" THEN h ELSE Whole],
     badHeaders |-> {}, badMessages |-> {}, refused |-> {}]

NoOldest == Parts("c") \union Parts("b1")
NoMessage == Whole \ {Message("c")}

MCWorlds ==
    {World("full", NoOldest), World("full", NoMessage), World("headers", NoOldest),
     [World("full", NoMessage) EXCEPT !.fetchFromSelf = TRUE, !.badMessages = {"b2"}],
     [World("headers", NoOldest) EXCEPT !.fetchFromSelf = TRUE, !.badHeaders = {"a"}],
     [World("full", NoOldest) EXCEPT !.refused = {2}]}
=============================================================================
