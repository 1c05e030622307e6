----------------------------- MODULE Discovery -----------------------------
(***************************************************************************)
(* How a node finds its peers: the bootstrapper, the hello protocol, the   *)
(* peer tracker and the start of the discovery submodule, with the         *)
(* heartbeat service, which opens and closes connections of its own        *)
(* (internal/pkg/discovery, internal/pkg/metrics/heartbeat.go).            *)
(*                                                                         *)
(* The libp2p host is external: at most one connection to a peer is live;  *)
(* a new one starts a goroutine of the hello protocol, and a closed one is *)
(* notified later, from a goroutine of its own.                            *)
(***************************************************************************)
EXTENDS Integers, Sequences, FiniteSets

CONSTANTS Peers,
          Foreign,          \* peers with another genesis block
          BootstrapPeers,   \* the configured bootstrap addresses
          Aggregator,       \* the peer heartbeats are sent to
          MinPeerThreshold,
          MaxHellos,        \* bound: hello goroutines of one peer
          MaxFaults         \* bound: lost connections, failed reads, peers gone

ASSUME DiscoveryAssumption ==
    /\ Foreign \subseteq Peers /\ BootstrapPeers \subseteq Peers /\ Aggregator \in Peers
    /\ MinPeerThreshold \in Nat /\ MaxHellos \in Nat \ {0} /\ MaxFaults \in Nat

VARIABLES up,               \* peers that can be reached
          live,             \* peers with a live connection
          dropped,          \* peers with a closed connection not yet notified
          hellos,           \* peer -> its goroutines: [at, open, was]
          tracked,          \* PeerTracker.peers
          start,            \* how far Start of the submodule has come
          remaining,        \* count of the latch BootstrapReady
          dialing,          \* peers the bootstrapper is connecting to
          heart,            \* the heartbeat service: "idle" or "beating"
          stream,           \* whether its stream's connection is open
          late,             \* history: peers tracked after their connection closed
          unheard,          \* history: peers connected before the hello handler was
          faults            \* counts faults

netVars == <<up, live, dropped, hellos, unheard>>
discoveryVars ==
    <<netVars, tracked, start, remaining, dialing, heart, stream, late, faults>>

Stages == <<"new", "bootstrap", "disconnects", "wait", "ready">>
StageOf(s) == CHOOSE i \in DOMAIN Stages : Stages[i] = s
Reached(s) == StageOf(start) >= StageOf(s)

DiscoveryInit ==
    /\ up = Peers /\ live = {} /\ dropped = {} /\ hellos = [p \in Peers |-> <<>>]
    /\ tracked = {} /\ start = "new" /\ remaining = MinPeerThreshold
    /\ dialing = {}
    /\ heart = "idle" /\ stream = FALSE
    /\ late = {} /\ unheard = {} /\ faults = 0

Fault == faults < MaxFaults /\ faults' = faults + 1

-----------------------------------------------------------------------------
(* The host *)

CanOpen(p) == p \in up \ live /\ Len(hellos[p]) < MaxHellos

\* Connected: once the hello handler is registered, a goroutine reads the hello.
Open(p) ==
    /\ live' = live \union {p}
    /\ IF Reached("wait")
       THEN /\ hellos' = [hellos EXCEPT ![p] = Append(@, [at |-> "read", open |-> TRUE])]
            /\ UNCHANGED unheard
       ELSE unheard' = unheard \union {p} /\ UNCHANGED hellos
    /\ UNCHANGED <<up, dropped>>

\* The goroutines after the connection to p is closed.
Closed(p) == [i \in DOMAIN hellos[p] |-> [hellos[p][i] EXCEPT !.open = FALSE]]

Close(p, hs) ==
    /\ live' = live \ {p} /\ dropped' = dropped \union {p} /\ unheard' = unheard \ {p}
    /\ hellos' = [hellos EXCEPT ![p] = hs]
    /\ stream' = (stream /\ p # Aggregator)

\* A peer connects to the node.
Inbound(p) ==
    /\ CanOpen(p) /\ Open(p)
    /\ IF p \in Foreign THEN Fault ELSE UNCHANGED faults
    /\ UNCHANGED <<tracked, start, remaining, dialing, heart, stream, late>>

\* A connection is lost; the peer may have gone away.
Lose(p) ==
    /\ p \in live /\ Fault
    /\ Close(p, Closed(p))
    /\ up' \in {up, up \ {p}}
    /\ UNCHANGED <<tracked, start, remaining, dialing, heart, late>>

Return(p) ==
    /\ p \notin up /\ up' = up \union {p}
    /\ UNCHANGED <<live, dropped, hellos, unheard, tracked, start, remaining, dialing,
                   heart, stream, late, faults>>

-----------------------------------------------------------------------------
(* peer_tracker.go *)

Track(p) == tracked' = tracked \union {p}

RemoveMutant(p) == p \in dropped /\ UNCHANGED tracked

Remove(p) == p \in dropped /\ tracked' = tracked \ {p}

\* The Disconnected callback removes the peer, whichever connection was closed.
RegisterDisconnect(p) ==
    /\ IF Reached("disconnects") THEN Remove(p) ELSE p \in dropped /\ UNCHANGED tracked
    /\ dropped' = dropped \ {p} /\ late' = late \ {p}
    /\ UNCHANGED <<up, live, hellos, unheard, start, remaining, dialing, heart,
                   stream, faults>>

-----------------------------------------------------------------------------
(* hello_protocol.go *)

Others(p, i) == SubSeq(hellos[p], 1, i - 1) \o SubSeq(hellos[p], i + 1, Len(hellos[p]))

\* Opening the stream dials the peer anew when its connection is gone.
NewStream(p, i) ==
    /\ hellos[p][i].at = "read" /\ CanOpen(p) /\ Open(p)
    /\ UNCHANGED <<tracked, start, remaining, dialing, heart, stream, late, faults>>

\* processHelloMessage: the genesis of the hello is the node's own.
SameGenesis(p) == p \notin Foreign

\* The peer's hello is read and its genesis compared.  An error, a timeout or
\* another genesis closes the connection the goroutine was started for.
receiveHello(p, i) ==
    LET g == hellos[p][i]
        failed == IF g.open THEN Close(p, [j \in DOMAIN Others(p, i) |->
                                              [Others(p, i)[j] EXCEPT !.open = FALSE]])
                  ELSE /\ hellos' = [hellos EXCEPT ![p] = Others(p, i)]
                       /\ UNCHANGED <<live, dropped, unheard, stream>>
    IN  /\ g.at = "read"
        /\ \/ /\ p \in live /\ SameGenesis(p)
              /\ hellos' = [hellos EXCEPT ![p][i].at = "told"]
              /\ UNCHANGED <<up, live, dropped, unheard, stream, faults>>
           \/ p \in live /\ SameGenesis(p) /\ Fault /\ failed /\ UNCHANGED up
           \/ ~(p \in live /\ SameGenesis(p)) /\ failed /\ UNCHANGED <<up, faults>>
        /\ UNCHANGED <<tracked, start, remaining, dialing, heart, late>>

\* Latch.Done.
Done(n) == IF n > 0 THEN n - 1 ELSE 0

\* The callback of Start: the peer is tracked and the latch counted down.
peerDiscovered(p, i) ==
    LET g == hellos[p][i]
    IN  /\ g.at = "told"
        /\ Track(p)
        /\ late' = IF g.open THEN late ELSE late \union {p}
        /\ remaining' = Done(remaining)
        /\ hellos' = [hellos EXCEPT ![p] = Others(p, i)]
        /\ UNCHANGED <<up, live, dropped, unheard, start, dialing, heart, stream, faults>>

-----------------------------------------------------------------------------
(* bootstrap.go *)

peersNeeded == MinPeerThreshold - Cardinality(live)

bootstrapMutant ==
    /\ Reached("bootstrap") /\ dialing = {}
    /\ peersNeeded >= MinPeerThreshold
    /\ \E S \in SUBSET (BootstrapPeers \ live) :
         /\ S # {}
         /\ \/ Cardinality(S) = peersNeeded
            \/ Cardinality(S) < peersNeeded /\ S = BootstrapPeers \ live
         /\ dialing' = S
    /\ UNCHANGED <<netVars, tracked, start, remaining, heart, stream, late, faults>>

\* On a tick with too few connections: a random choice of as many bootstrap
\* peers as are missing, or all there are, is dialled at once.
bootstrap ==
    /\ Reached("bootstrap") /\ dialing = {}
    /\ peersNeeded >= 1
    /\ \E S \in SUBSET (BootstrapPeers \ live) :
         /\ S # {}
         /\ \/ Cardinality(S) = peersNeeded
            \/ Cardinality(S) < peersNeeded /\ S = BootstrapPeers \ live
         /\ dialing' = S
    /\ UNCHANGED <<netVars, tracked, start, remaining, heart, stream, late, faults>>

\* One dial ends.  (After the last of the first round the routing table of the
\* DHT is bootstrapped, once; nothing here depends on it.)
Connect(p) ==
    /\ p \in dialing /\ dialing' = dialing \ {p}
    /\ IF p \in up \ live THEN CanOpen(p) /\ Open(p) ELSE UNCHANGED netVars
    /\ UNCHANGED <<tracked, start, remaining, heart, stream, late, faults>>

-----------------------------------------------------------------------------
(* heartbeat.go *)

\* The reconnect tick opens a stream to the aggregator, dialling it if need be.
HeartbeatConnect ==
    /\ heart = "idle" /\ Aggregator \in up
    /\ IF Aggregator \in live THEN UNCHANGED netVars ELSE CanOpen(Aggregator) /\ Open(Aggregator)
    /\ heart' = "beating" /\ stream' = TRUE
    /\ UNCHANGED <<tracked, start, remaining, dialing, late, faults>>

\* A beat that cannot be written closes the connection; the loop reconnects.
Run ==
    /\ heart = "beating"
    /\ IF stream THEN Fault /\ Close(Aggregator, Closed(Aggregator)) /\ UNCHANGED up
       ELSE UNCHANGED <<netVars, stream, faults>>
    /\ heart' = "idle"
    /\ UNCHANGED <<tracked, start, remaining, dialing, late>>

-----------------------------------------------------------------------------
(* discovery_submodule.go *)

\* Start: the bootstrapper, then the disconnect callback, then the hello
\* handler; then it waits for the latch.
Start ==
    /\ start # "ready"
    /\ start = "wait" => remaining = 0
    /\ start' = Stages[StageOf(start) + 1]
    /\ UNCHANGED <<netVars, tracked, remaining, dialing, heart, stream, late, faults>>

DiscoveryNext ==
    \/ Start \/ bootstrap \/ HeartbeatConnect \/ Run
    \/ \E p \in Peers :
         \/ Inbound(p) \/ Lose(p) \/ Return(p) \/ RegisterDisconnect(p) \/ Connect(p)
         \/ \E i \in DOMAIN hellos[p] :
              NewStream(p, i) \/ receiveHello(p, i) \/ peerDiscovered(p, i)
=============================================================================
