-------------------------- MODULE GraphSyncFetcher --------------------------
(***************************************************************************)
(* The fetcher of chainsync/fetcher: a chain of tipsets is asked for from  *)
(* one tracked peer after the other, stored as it arrives, and read back   *)
(* and verified from the store.  Composed with Discovery, which changes    *)
(* the peers it can choose from while it runs.                             *)
(*                                                                         *)
(* A block has three stored parts: its header, the root of its message     *)
(* list and a message of that list.  Graphsync is external: a peer sends   *)
(* what it has of what a selector reaches, and may stop anywhere.          *)
(***************************************************************************)
EXTENDS Discovery, Functions

CONSTANTS Blocks,           \* tipset -> its sequence of blocks; tipset 1 is the oldest
          Stop,             \* the tipset at which the caller's done returns true
          Worlds            \* what a fetch may meet, a set of records:
                            \*   mode           "full" or "headers"
                            \*   fetchFromSelf  whether the node itself is the originator
                            \*   has            peer -> the parts it has
                            \*   badHeaders, badMessages  blocks that fail a syntax check
                            \*   refused        tipsets for which the caller's done fails

VARIABLES world,            \* the one this behaviour is in
          store,            \* the node's block store
          f                 \* the state of the fetch

fetchVars == <<world, store, f>>
vars == <<discoveryVars, fetchVars>>

Top == Len(Blocks)
Header(b) == <<"header", b>>
Root(b) == <<"root", b>>
Message(b) == <<"message", b>>
Parts(b) == {Header(b), Root(b), Message(b)}
BlocksOf(t) == Range(Blocks[t])
Whole == UNION {Parts(b) : b \in UNION {BlocksOf(t) : t \in DOMAIN Blocks}}

Self == "self"
maxRecursionDepth == 64
recursionMultiplier == 4

ASSUME FetcherAssumption ==
    /\ Self \notin Peers
    /\ Top \in Nat /\ DOMAIN Blocks = 1..Top /\ Stop \in 1..Top
    /\ \A t \in 1..Top : \E n \in 1..Len(Blocks[t]) : DOMAIN Blocks[t] = 1..n
    /\ \A w \in Worlds : /\ w.mode \in {"full", "headers"} /\ w.fetchFromSelf \in BOOLEAN
                         /\ \A p \in Peers : w.has[p] \subseteq Whole

Idle == [pc |-> "idle", want |-> {}, peer |-> Self, tried |-> {}, out |-> <<>>,
         depth |-> 1, level |-> 0, err |-> "", cut |-> {}]

-----------------------------------------------------------------------------
(* What a request reaches, at a peer with parts h *)

headerSel(b, h) == {Header(b)} \intersect h

\* The selector of a full block explores the fields of a header.
fullBlockSel(b, h) ==
    IF Header(b) \notin h THEN {}
    ELSE {Header(b)} \union (IF Root(b) \in h THEN Parts(b) \intersect h ELSE {})

Sel(mode, b, h) == IF mode = "full" THEN fullBlockSel(b, h) ELSE headerSel(b, h)

\* fetchBlocks: one request per cid.  A message root has none of the fields.
Reached1(mode, cids, h) ==
    UNION {IF c[1] = "header" THEN Sel(mode, c[2], h) ELSE {c} \intersect h : c \in cids}

LevelsMutant(t, depth, h) ==
    {j \in 1..(depth - 1) : t - j >= 1 /\ \A i \in 0..(j - 1) : Header(Blocks[t - i][1]) \in h}

\* The levels below tipset t a recursive request gets to: it goes on from the
\* first block of each.
Levels(t, depth, h) ==
    {j \in 1..depth : t - j >= 1 /\ \A i \in 0..(j - 1) : Header(Blocks[t - i][1]) \in h}

recSel(mode, t, depth, h) ==
    UNION {Sel(mode, b, h) : b \in UNION {BlocksOf(t - j) : j \in Levels(t, depth, h)}}

\* A part comes after the ones it is reached through.
Ordered(S) == \A b \in {s[2] : s \in S} :
                /\ Message(b) \in S \ store => Root(b) \in S \union store
                /\ Root(b) \in S \ store => Header(b) \in S \union store

\* consumeResponse: everything the peer can send, or what came before it was
\* lost or hung until the progress timeout (cut).
consumeResponse(S, next) ==
    \/ /\ f.peer \in live
       /\ store' = store \union S
       /\ f' = [f EXCEPT !.pc = next] /\ UNCHANGED faults
    \/ /\ f.peer \in live /\ Fault
       /\ \E T \in SUBSET S : T # S /\ Ordered(T) /\ store' = store \union T
       /\ f' = [f EXCEPT !.pc = next, !.cut = @ \union {f.peer}]
    \/ /\ f.peer \notin live
       /\ f' = [f EXCEPT !.pc = next, !.cut = @ \union {f.peer}] /\ UNCHANGED <<store, faults>>

-----------------------------------------------------------------------------
(* What the store has of a tipset *)

loadTipHeaders(t) == {Header(b) : b \in BlocksOf(t)} \ store
InTip(t) == {b \in BlocksOf(t) : Header(b) \in store}

\* Blocks without their message root are incomplete.  The first root, in the
\* order of the tipset, whose messages are not all there or not all valid ends
\* the check: a missing one makes the root itself incomplete.
loadAndVerifySubComponents(t) ==
    LET bad(b) == /\ Header(b) \in store /\ Root(b) \in store
                  /\ Message(b) \notin store \/ b \in world.badMessages
        first == {Blocks[t][i] : i \in {j \in DOMAIN Blocks[t] :
                                          /\ bad(Blocks[t][j])
                                          /\ \A k \in 1..(j - 1) : ~bad(Blocks[t][k])}}
    IN  [err |-> \E b \in first : Message(b) \in store,
         incomplete |-> {Header(b) : b \in {c \in InTip(t) : Root(c) \notin store}}
                          \union {Root(b) : b \in {c \in first : Message(c) \notin store}}]

sanitizeBlocks(t) == \A b \in InTip(t) : b \notin world.badHeaders

loadAndVerifyHeader(t) == [err |-> ~sanitizeBlocks(t), incomplete |-> loadTipHeaders(t)]

loadAndVerifyFullBlock(t) ==
    LET sub == loadAndVerifySubComponents(t)
    IN  [err |-> ~sanitizeBlocks(t) \/ sub.err, incomplete |-> loadTipHeaders(t) \union sub.incomplete]

loadAndVerify(t) == IF world.mode = "full" THEN loadAndVerifyFullBlock(t) ELSE loadAndVerifyHeader(t)

-----------------------------------------------------------------------------
(* The fetch *)

anchor == f.out[Len(f.out)]
Failed(g, err) == [g EXCEPT !.pc = "failed", !.err = err]

FindNextPeerMutant(g) ==
    IF tracked \subseteq g.tried THEN f' = Failed(g, "no untried peers")
    ELSE \E p \in tracked \ g.tried : f' = [g EXCEPT !.peer = p]

\* Any tracked peer that this fetch has not tried, or the fetch fails.
FindNextPeer(g) ==
    IF tracked \subseteq g.tried THEN f' = Failed(g, "no untried peers")
    ELSE \E p \in tracked \ g.tried : f' = [g EXCEPT !.peer = p, !.tried = @ \union {p}]

\* A fetch starts when the node has started and no other is running.
FetchTipSets ==
    LET g == [Idle EXCEPT !.pc = "first", !.want = {Header(b) : b \in BlocksOf(Top)}]
    IN  /\ start = "ready" /\ f.pc \in {"idle", "returned", "failed"}
        /\ IF world.fetchFromSelf THEN f' = [g EXCEPT !.tried = {Self}] ELSE FindNextPeer(g)
        /\ UNCHANGED <<discoveryVars, world, store>>

fetchBlocks ==
    /\ f.pc = "first"
    /\ consumeResponse(IF f.peer = Self THEN {}
                       ELSE Reached1(world.mode, f.want, world.has[f.peer]), "checkFirst")
    /\ UNCHANGED <<netVars, tracked, start, remaining, dialing, heart, stream, late, world>>

\* A verified tipset joins the chain, and done decides.
Accept(g, t) ==
    LET h == [g EXCEPT !.out = Append(@, t)]
    IN  IF t \in world.refused THEN Failed(h, "done")
        ELSE [h EXCEPT !.pc = IF t = Stop THEN "returned" ELSE h.pc]

fetchFirstTipset ==
    /\ f.pc = "checkFirst"
    /\ LET r == loadAndVerify(Top)
       IN  IF r.err THEN f' = Failed(f, "invalid")
           ELSE IF r.incomplete = {} THEN f' = Accept([f EXCEPT !.pc = "recursive"], Top)
           ELSE FindNextPeer([f EXCEPT !.pc = "first", !.want = r.incomplete])
    /\ UNCHANGED <<discoveryVars, world, store>>

fetchBlocksRecursively ==
    /\ f.pc = "recursive"
    /\ consumeResponse(IF f.peer = Self THEN {}
                       ELSE recSel(world.mode, anchor, f.depth, world.has[f.peer]), "check")
    /\ UNCHANGED <<netVars, tracked, start, remaining, dialing, heart, stream, late, world>>

\* The tipsets of one response, one after the other.  An incomplete one makes
\* the fetch ask the next peer from there; a complete response is followed by a
\* request for four times as many.
fetchRemainingTipsets ==
    /\ f.pc = "check"
    /\ LET t == anchor - 1
           r == loadAndVerify(t)
           g == Accept([f EXCEPT !.level = @ + 1], t)
           deeper == IF f.depth < maxRecursionDepth THEN f.depth * recursionMultiplier ELSE f.depth
       IN  IF r.err THEN f' = Failed(f, "invalid")
           ELSE IF r.incomplete # {} THEN FindNextPeer([f EXCEPT !.pc = "recursive", !.level = 0])
           ELSE f' = IF g.pc = "check" /\ g.level = f.depth
                     THEN [g EXCEPT !.pc = "recursive", !.level = 0, !.depth = deeper] ELSE g
    /\ UNCHANGED <<discoveryVars, world, store>>

Init ==
    /\ DiscoveryInit
    /\ world \in Worlds /\ store = {} /\ f = Idle

Next ==
    \/ DiscoveryNext /\ UNCHANGED fetchVars
    \/ FetchTipSets
    \/ fetchBlocks \/ fetchFirstTipset \/ fetchBlocksRecursively \/ fetchRemainingTipsets

\* Goroutines and tickers are scheduled, and a hello ends by its timeout.  No
\* peer need connect, come back or stay, and no fetch need be asked for.
Fairness ==
    /\ WF_vars(Start /\ UNCHANGED fetchVars)
    /\ WF_vars((bootstrap \/ \E p \in Peers : Connect(p)) /\ UNCHANGED fetchVars)
    /\ WF_vars((HeartbeatConnect \/ (Run /\ ~stream)) /\ UNCHANGED fetchVars)
    /\ WF_vars((\E p \in Peers : RegisterDisconnect(p)) /\ UNCHANGED fetchVars)
    /\ \A p \in Peers : WF_vars(/\ hellos[p] # <<>>
                                /\ receiveHello(p, 1) \/ peerDiscovered(p, 1)
                                /\ UNCHANGED fetchVars)
    /\ WF_vars(fetchBlocks \/ fetchFirstTipset \/ fetchBlocksRecursively \/ fetchRemainingTipsets)

Spec == Init /\ [][Next]_vars /\ Fairness

-----------------------------------------------------------------------------
(* Properties *)

\* The variables keep their types; a fetch that is running has tried its peer.
TypeOK ==
    /\ live \subseteq up /\ up \subseteq Peers /\ dropped \subseteq Peers
    /\ unheard \subseteq live /\ late \subseteq Peers /\ dialing \subseteq BootstrapPeers
    /\ tracked \subseteq Peers \ Foreign
    /\ \A p \in Peers : Len(hellos[p]) <= MaxHellos
    /\ remaining \in 0..MinPeerThreshold /\ start \in Range(Stages)
    /\ heart \in {"idle", "beating"} /\ (stream => heart = "beating" /\ Aggregator \in live)
    /\ store \subseteq Whole
    /\ f.pc # "idle" /\ f.err # "no untried peers" => f.peer \in f.tried

\* What a fetch returns is the chain asked for: it begins at the key, goes down
\* without a gap to the tipset at which the caller is done, and every tipset of
\* it is stored whole and valid, whichever peers the parts came from.
FetchedIsChain ==
    f.pc = "returned" =>
      /\ f.out = [i \in 1..(Top - Stop + 1) |-> Top - i + 1]
      /\ \A b \in UNION {BlocksOf(u) : u \in Stop..Top} :
           /\ Header(b) \in store /\ b \notin world.badHeaders
           /\ world.mode = "full" => Parts(b) \subseteq store /\ b \notin world.badMessages

\* The message list of the key's tipset has been stored in part: the retry asks
\* for the root of the list with the selector of a block, which reaches nothing
\* (loadAndVerifySubComponents), so this fetch cannot complete it.
PartialList ==
    world.mode = "full" /\ f.out = <<>>
      /\ \E b \in BlocksOf(Top) : Root(b) \in store /\ Message(b) \notin store

\* A peer that has the whole chain and answers in full is never given up: the
\* fetch goes on to another peer, or fails for want of one, only past peers
\* that lacked something or stopped answering.
CompletePeerSuffices ==
    LET past == IF f.err = "no untried peers" THEN f.tried ELSE f.tried \ {f.peer}
    IN  \A p \in past \intersect Peers : world.has[p] = Whole => p \in f.cut \/ PartialList

\* A fetch returns the whole chain asked for, and does so whenever one of its
\* peers has all of it and answers.
FetchIsExact == TypeOK /\ FetchedIsChain /\ CompletePeerSuffices

\* A tracked peer without a connection is one whose disconnection has yet to be
\* notified, or whose hello was answered after its connection was closed: the
\* disconnect callback leaves no other behind.
TrackedIsConnected == tracked \subseteq live \union dropped \union late

\* Every fetch ends: each answer extends the chain or uses up a peer.
FetchEnds == f.pc \notin {"idle", "returned", "failed"} ~> f.pc \in {"returned", "failed"}

\* The submodule starts: while as many bootstrap peers as the threshold asks for
\* can be reached, their hellos come and Start returns, unless connections made
\* before the hello handler was registered keep the bootstrapper from dialling.
StartReturns ==
    []<>(\/ start = "ready" \/ unheard # {}
         \/ Cardinality(BootstrapPeers \intersect up) < MinPeerThreshold)

\* The node does not stay below its threshold while a bootstrap peer that can
\* be reached is not connected.
ConnectivityRestored == []<>(peersNeeded < 1 \/ BootstrapPeers \intersect up \subseteq live)

\* Heartbeats resume after every failure while the aggregator can be reached.
HeartbeatResumes == []<>(Aggregator \notin up \/ stream)

\* The node gets and stays connected: Start returns, lost bootstrap peers are
\* dialled again, and heartbeats resume.
NodeStaysConnected == StartReturns /\ ConnectivityRestored /\ HeartbeatResumes
=============================================================================
