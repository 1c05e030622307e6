--------------------------- MODULE FetcherProofs ---------------------------
(***************************************************************************)
(* Proofs about GraphSyncFetcher and the Discovery module it is composed   *)
(* with: a tracked peer is connected or about to be dropped, and a fetch   *)
(* returns the whole chain, for every set of peers, chain and world.       *)
(***************************************************************************)
EXTENDS GraphSyncFetcher, SequenceTheorems, WellFoundedInduction, TLAPS

\* Time limits with a wide margin: every leaf takes about a second.
USE SMTT(60), ZenonT(60), SMTT(61)

-----------------------------------------------------------------------------
(* The stages of Start *)

\* The place of each stage of the discovery submodule's Start.
LEMMA StagePlaces ==
    /\ StageOf("new") = 1 /\ StageOf("bootstrap") = 2 /\ StageOf("disconnects") = 3
    /\ StageOf("wait") = 4 /\ StageOf("ready") = 5
<1> DEFINE S == <<"new", "bootstrap", "disconnects", "wait", "ready">>
<1>1. DOMAIN S = 1..5 OBVIOUS
<1>2. /\ S[1] = "new" /\ S[2] = "bootstrap" /\ S[3] = "disconnects"
      /\ S[4] = "wait" /\ S[5] = "ready"
  OBVIOUS
<1>3. ASSUME NEW i \in 1..5 PROVE i = 1 \/ i = 2 \/ i = 3 \/ i = 4 \/ i = 5
  OBVIOUS
<1>4. ASSUME NEW s, NEW n \in 1..5, S[n] = s,
             \A i \in 1..5 : S[i] = s => i = n
      PROVE  StageOf(s) = n
  <2>1. \E i \in DOMAIN Stages : Stages[i] = s BY <1>1, <1>4 DEF Stages
  <2>2. StageOf(s) \in 1..5 /\ S[StageOf(s)] = s BY <1>1, <2>1 DEF StageOf, Stages
  <2> QED BY <1>4, <2>2
<1> QED BY <1>2, <1>3, <1>4

\* The stages of Start, as a set.
StageNames == {"new", "bootstrap", "disconnects", "wait", "ready"}

\* What stages have been reached, and what the next one is.
LEMMA StageFacts ==
    ASSUME start \in StageNames
    PROVE  /\ Reached("wait") <=> start \in {"wait", "ready"}
           /\ Reached("wait") => Reached("disconnects")
           /\ start # "ready" => Stages[StageOf(start) + 1] \in StageNames
           /\ start = "wait" => Stages[StageOf(start) + 1] = "ready"
<1>1. /\ Stages[2] = "bootstrap" /\ Stages[3] = "disconnects" /\ Stages[4] = "wait"
      /\ Stages[5] = "ready"
  BY DEF Stages
<1>2. CASE start = "new" BY <1>1, <1>2, StagePlaces DEF Reached, StageNames
<1>3. CASE start = "bootstrap" BY <1>1, <1>3, StagePlaces DEF Reached, StageNames
<1>4. CASE start = "disconnects" BY <1>1, <1>4, StagePlaces DEF Reached, StageNames
<1>5. CASE start = "wait" BY <1>1, <1>5, StagePlaces DEF Reached, StageNames
<1>6. CASE start = "ready" BY <1>1, <1>6, StagePlaces DEF Reached, StageNames
<1> QED BY <1>2, <1>3, <1>4, <1>5, <1>6 DEF StageNames

-----------------------------------------------------------------------------
(* The goroutines of the hello protocol *)

Goroutine == [at : {"read", "told"}, open : BOOLEAN]

\* The goroutines s of peer p are sound when con says whether p is connected.
HellosOK(s, p, con) ==
    /\ s \in Seq(Goroutine) /\ Len(s) <= MaxHellos
    /\ \A i \in DOMAIN s : /\ s[i].open => con
                           /\ s[i].at = "told" => p \notin Foreign

\* A new connection adds a goroutine.
LEMMA HelloAdded ==
    ASSUME NEW s, NEW p, NEW con, HellosOK(s, p, con), Len(s) < MaxHellos
    PROVE  HellosOK(Append(s, [at |-> "read", open |-> TRUE]), p, TRUE)
<1> DEFINE g == [at |-> "read", open |-> TRUE]
           t == Append(s, g)
<1>1. g \in Goroutine /\ g.at = "read" BY DEF Goroutine
<1>2. s \in Seq(Goroutine) /\ Len(s) \in Nat BY LenProperties DEF HellosOK
<1> HIDE DEF g
<1>3. /\ t \in Seq(Goroutine) /\ Len(t) = Len(s) + 1
      /\ \A i \in 1..Len(s) : t[i] = s[i]
      /\ t[Len(s) + 1] = g
  BY <1>1, <1>2, AppendProperties
<1>4. DOMAIN t = 1..(Len(s) + 1) /\ DOMAIN s = 1..Len(s) BY <1>2, <1>3, LenProperties
<1> HIDE DEF t
<1>5. Len(t) <= MaxHellos BY <1>2, <1>3, DiscoveryAssumption
<1>6. ASSUME NEW i \in DOMAIN t PROVE t[i].at = "told" => p \notin Foreign
  <2>1. CASE i = Len(s) + 1 BY <1>1, <1>3, <2>1
  <2>2. CASE i \in 1..Len(s) BY <1>3, <1>4, <2>2 DEF HellosOK
  <2> QED BY <1>2, <1>4, <2>1, <2>2
<1>7. HellosOK(t, p, TRUE) BY <1>3, <1>5, <1>6 DEF HellosOK
<1> QED BY <1>7, ZenonT(60) DEF t, g

\* A closed connection marks the goroutines.
LEMMA HelloClosed ==
    ASSUME NEW s, NEW p, NEW con, NEW new, HellosOK(s, p, con)
    PROVE  HellosOK([i \in DOMAIN s |-> [s[i] EXCEPT !.open = FALSE]], p, new)
<1> DEFINE t == [i \in DOMAIN s |-> [s[i] EXCEPT !.open = FALSE]]
<1>1. s \in Seq(Goroutine) /\ Len(s) \in Nat /\ DOMAIN s = 1..Len(s)
  BY LenProperties DEF HellosOK
<1>2. \A i \in DOMAIN s : s[i] \in Goroutine BY <1>1, ElementOfSeq
<1>3. \A i \in DOMAIN s : /\ t[i] \in Goroutine
                          /\ ~t[i].open /\ t[i].at = s[i].at
  BY <1>2, ZenonT(60) DEF Goroutine
<1>4. DOMAIN t = 1..Len(s) BY <1>1
<1> HIDE DEF t
<1>5. t \in Seq(Goroutine) /\ Len(t) = Len(s)
  <2>1. t = [i \in 1..Len(s) |-> t[i]] BY <1>1, <1>4 DEF t
  <2>2. [i \in 1..Len(s) |-> t[i]] \in Seq(Goroutine) BY <1>1, <1>3, IsASeq
  <2>3. t \in Seq(Goroutine) BY <2>1, <2>2
  <2> QED BY <1>1, <1>4, <2>3, LenProperties
<1>6. HellosOK(t, p, new) BY <1>1, <1>3, <1>4, <1>5 DEF HellosOK
<1> QED BY <1>6 DEF t

\* A goroutine that ends leaves the others.
LEMMA HelloEnded ==
    ASSUME NEW s, NEW p, NEW con, HellosOK(s, p, con), NEW i \in DOMAIN s
    PROVE  HellosOK(SubSeq(s, 1, i - 1) \o SubSeq(s, i + 1, Len(s)), p, con)
<1> DEFINE a == SubSeq(s, 1, i - 1)
           b == SubSeq(s, i + 1, Len(s))
<1>1. s \in Seq(Goroutine) /\ Len(s) \in Nat /\ DOMAIN s = 1..Len(s) /\ i \in 1..Len(s)
  BY LenProperties DEF HellosOK
<1>2. a \in Seq(Goroutine) /\ Len(a) = i - 1 /\ \A j \in 1..(i - 1) : a[j] = s[j]
  <2>1. CASE i = 1
    <3>1. a = <<>> BY <1>1, <2>1, SubSeqEmpty
    <3> QED BY <2>1, <3>1
  <2>2. CASE i > 1
    <3>1. 1 \in 1..(Len(s) + 1) /\ i - 1 \in 1..Len(s) BY <1>1, <2>2
    <3> QED BY <1>1, <2>2, <3>1, SubSeqProperties
  <2> QED BY <1>1, <2>1, <2>2
<1>3. b \in Seq(Goroutine) /\ Len(b) = Len(s) - i
      /\ \A j \in 1..(Len(s) - i) : b[j] = s[i + j]
  <2>1. CASE i = Len(s)
    <3>1. b = <<>> BY <1>1, <2>1, SubSeqEmpty
    <3> QED BY <2>1, <3>1
  <2>2. CASE i < Len(s)
    <3>1. i + 1 \in 1..(Len(s) + 1) /\ Len(s) \in i..Len(s) BY <1>1, <2>2
    <3>2. /\ b \in Seq(Goroutine) /\ Len(b) = Len(s) - i
          /\ \A j \in 1..(Len(s) - i) : b[j] = s[i + 1 + j - 1]
      BY <1>1, <2>2, <3>1, SubSeqProperties
    <3> QED BY <1>1, <3>2
  <2> QED BY <1>1, <2>1, <2>2
<1> HIDE DEF a, b
<1>4. /\ a \o b \in Seq(Goroutine) /\ Len(a \o b) = Len(s) - 1
      /\ \A j \in 1..(Len(s) - 1) : (a \o b)[j] = IF j <= i - 1 THEN a[j] ELSE b[j - (i - 1)]
  <2>1. /\ a \o b \in Seq(Goroutine) /\ Len(a \o b) = Len(a) + Len(b)
        /\ \A j \in 1..(Len(a) + Len(b)) :
             (a \o b)[j] = IF j <= Len(a) THEN a[j] ELSE b[j - Len(a)]
    BY <1>2, <1>3, ConcatProperties, ZenonT(60)
  <2>2. Len(a) + Len(b) = Len(s) - 1 /\ Len(a) = i - 1 BY <1>1, <1>2, <1>3
  <2> QED BY <2>1, <2>2
<1>5. \A j \in 1..(Len(s) - 1) : \E k \in 1..Len(s) : (a \o b)[j] = s[k]
  <2> SUFFICES ASSUME NEW j \in 1..(Len(s) - 1)
               PROVE  \E k \in 1..Len(s) : (a \o b)[j] = s[k]
    BY ZenonT(60)
  <2>1. CASE j <= i - 1 BY <1>1, <1>2, <1>4, <2>1
  <2>2. CASE j > i - 1
    <3>1. j - (i - 1) \in 1..(Len(s) - i) BY <1>1, <2>2
    <3>2. (a \o b)[j] = s[i + (j - (i - 1))] BY <1>1, <1>3, <1>4, <2>2, <3>1
    <3>3. i + (j - (i - 1)) \in 1..Len(s) BY <1>1, <3>1
    <3> QED BY <3>2, <3>3
  <2>3. j <= i - 1 \/ j > i - 1 BY <1>1
  <2> QED BY <2>1, <2>2, <2>3, ZenonT(60)
<1>6. DOMAIN (a \o b) = 1..(Len(s) - 1) BY <1>4, LenProperties
<1>7. Len(a \o b) <= MaxHellos BY <1>1, <1>4, DiscoveryAssumption DEF HellosOK
<1> DEFINE t == a \o b
<1> HIDE DEF t
<1>8. HellosOK(t, p, con)
  <2>1. ASSUME NEW j \in DOMAIN t
        PROVE  /\ t[j].open => con
               /\ t[j].at = "told" => p \notin Foreign
    <3>1. PICK k \in 1..Len(s) : t[j] = s[k] BY <1>5, <1>6 DEF t
    <3> QED BY <1>1, <3>1 DEF HellosOK
  <2>2. t \in Seq(Goroutine) /\ Len(t) <= MaxHellos BY <1>4, <1>7 DEF t
  <2> QED BY <2>1, <2>2 DEF HellosOK
<1> QED BY <1>8 DEF t, a, b

\* A goroutine reads the hello of a peer of the node's own network.
LEMMA HelloTold ==
    ASSUME NEW s, NEW p, NEW con, HellosOK(s, p, con), NEW i \in DOMAIN s, p \notin Foreign
    PROVE  HellosOK([s EXCEPT ![i].at = "told"], p, con)
<1>1. s \in Seq(Goroutine) /\ Len(s) \in Nat /\ DOMAIN s = 1..Len(s) /\ i \in 1..Len(s)
  BY LenProperties DEF HellosOK
<1>2. s[i] \in Goroutine BY <1>1, ElementOfSeq
<1> DEFINE e == [s[i] EXCEPT !.at = "told"]
           t == [s EXCEPT ![i] = e]
<1>3. e \in Goroutine /\ e.open = s[i].open BY <1>2 DEF Goroutine
<1>4. t = [s EXCEPT ![i].at = "told"] OBVIOUS
<1> HIDE DEF e
<1>5. /\ t \in Seq(Goroutine) /\ Len(t) = Len(s)
      /\ \A j \in 1..Len(s) : t[j] = IF j = i THEN e ELSE s[j]
  BY <1>1, <1>3, ExceptSeq
<1> HIDE DEF t
<1>6. DOMAIN t = 1..Len(s) BY <1>5, LenProperties
<1>7. HellosOK(t, p, con) BY <1>1, <1>3, <1>5, <1>6 DEF HellosOK
<1> QED BY <1>4, <1>7

-----------------------------------------------------------------------------
(* Discovery *)

\* The connections and the goroutines: one runs only once the hello handler is
\* registered, and knows whether its connection is still open.
NetInv ==
    /\ up \subseteq Peers /\ live \subseteq up /\ dropped \subseteq Peers /\ unheard \subseteq live
    /\ start \in StageNames /\ hellos \in [Peers -> Seq(Goroutine)]
    /\ \A p \in Peers : HellosOK(hellos[p], p, p \in live)
    /\ \A p \in Peers : hellos[p] # <<>> => start \in {"wait", "ready"}

\* With the types of the rest: a peer is tracked only once the disconnect
\* callback is registered too.
DiscoveryInv ==
    /\ NetInv
    /\ late \subseteq Peers /\ dialing \subseteq BootstrapPeers /\ tracked \subseteq Peers \ Foreign
    /\ remaining \in 0..MinPeerThreshold
    /\ heart \in {"idle", "beating"}
    /\ stream \in BOOLEAN /\ (stream => heart = "beating" /\ Aggregator \in live)
    /\ tracked # {} => start \in {"wait", "ready"}
    /\ TrackedIsConnected

\* DiscoveryInv holds when the node is created.
LEMMA InitDiscovery == DiscoveryInit => DiscoveryInv
<1> SUFFICES ASSUME DiscoveryInit PROVE DiscoveryInv OBVIOUS
<1>1. ASSUME NEW p \in Peers PROVE HellosOK(hellos[p], p, p \in live)
  <2>1. hellos[p] = <<>> BY DEF DiscoveryInit
  <2>2. <<>> \in Seq(Goroutine) /\ Len(<<>>) = 0 /\ DOMAIN <<>> = {} BY EmptySeq
  <2> QED BY <2>1, <2>2, DiscoveryAssumption DEF HellosOK
<1>2. hellos \in [Peers -> Seq(Goroutine)] /\ \A p \in Peers : hellos[p] = <<>>
  BY EmptySeq DEF DiscoveryInit
<1>3. remaining \in 0..MinPeerThreshold BY DiscoveryAssumption DEF DiscoveryInit
<1>4. NetInv BY <1>1, <1>2 DEF NetInv, DiscoveryInit, StageNames
<1> QED BY <1>3, <1>4, ZenonT(60) DEF DiscoveryInv, DiscoveryInit, TrackedIsConnected

\* The goroutines of one peer change and the rest of the net does not.
LEMMA NetHellos ==
    ASSUME NetInv, NEW p \in Peers, NEW hs, hellos' = [hellos EXCEPT ![p] = hs],
           UNCHANGED start, up' \subseteq Peers, live' \subseteq up', dropped' \subseteq Peers,
           unheard' \subseteq live', \A q \in Peers \ {p} : q \in live' <=> q \in live,
           HellosOK(hs, p, p \in live'), hs # <<>> => start \in {"wait", "ready"}
    PROVE  NetInv'
<1>1. hellos' \in [Peers -> Seq(Goroutine)] /\ hellos'[p] = hs
      /\ \A q \in Peers \ {p} : hellos'[q] = hellos[q]
  BY DEF NetInv, HellosOK
<1>2. ASSUME NEW q \in Peers PROVE HellosOK(hellos[q], q, q \in live)'
  <2>1. CASE q = p BY <1>1, <2>1
  <2>2. CASE q # p
    <3>1. hellos'[q] = hellos[q] /\ (q \in live' <=> q \in live) BY <1>1, <2>2
    <3>2. HellosOK(hellos[q], q, q \in live) BY DEF NetInv
    <3> QED BY <3>1, <3>2 DEF HellosOK
  <2> QED BY <2>1, <2>2
<1>3. ASSUME NEW q \in Peers, hellos'[q] # <<>> PROVE start' \in {"wait", "ready"}
  <2>1. CASE q = p BY <1>1, <1>3, <2>1
  <2>2. CASE q # p BY <1>1, <1>3, <2>2 DEF NetInv
  <2> QED BY <2>1, <2>2
<1>4. start' \in StageNames BY DEF NetInv
<1> QED BY <1>1, <1>2, <1>3, <1>4 DEF NetInv

\* A new connection.
LEMMA NetOpen ==
    ASSUME NetInv, NEW p \in Peers, CanOpen(p), Open(p), UNCHANGED start
    PROVE  NetInv' /\ live' = live \union {p} /\ dropped' = dropped
<1>1. live' = live \union {p} /\ up' = up /\ dropped' = dropped /\ p \in up BY DEF Open, CanOpen
<1>2. HellosOK(hellos[p], p, p \in live) /\ Len(hellos[p]) < MaxHellos BY DEF NetInv, CanOpen
<1>3. CASE Reached("wait")
  <2> DEFINE hs == Append(hellos[p], [at |-> "read", open |-> TRUE])
  <2>1. hellos' = [hellos EXCEPT ![p] = hs] /\ unheard' = unheard BY <1>3 DEF Open
  <2>2. HellosOK(hs, p, TRUE) BY <1>2, HelloAdded, ZenonT(60)
  <2> HIDE DEF hs
  <2>3. HellosOK(hs, p, p \in live')
    <3>1. (p \in live') = TRUE BY <1>1
    <3> QED BY <2>2, <3>1 DEF HellosOK
  <2>4. start \in {"wait", "ready"} BY <1>3, StageFacts DEF NetInv
  <2>5. /\ up' \subseteq Peers /\ live' \subseteq up' /\ dropped' \subseteq Peers /\ unheard' \subseteq live'
        /\ \A q \in Peers \ {p} : q \in live' <=> q \in live
    BY <1>1, <2>1 DEF NetInv
  <2> QED BY <1>1, <2>1, <2>3, <2>4, <2>5, NetHellos, ZenonT(60)
<1>4. CASE ~Reached("wait")
  <2> DEFINE hs == hellos[p]
  <2>1. hellos' = hellos /\ unheard' = unheard \union {p} BY <1>4 DEF Open
  <2>2. hellos' = [hellos EXCEPT ![p] = hs] BY <2>1 DEF NetInv
  <2>3. HellosOK(hs, p, p \in live')
    <3>1. p \in live => p \in live' BY <1>1
    <3> QED BY <1>2, <3>1 DEF HellosOK
  <2>4. hs # <<>> => start \in {"wait", "ready"} BY DEF NetInv
  <2>5. /\ up' \subseteq Peers /\ live' \subseteq up' /\ dropped' \subseteq Peers /\ unheard' \subseteq live'
        /\ \A q \in Peers \ {p} : q \in live' <=> q \in live
    BY <1>1, <2>1 DEF NetInv
  <2> HIDE DEF hs
  <2> QED BY <1>1, <2>2, <2>3, <2>4, <2>5, NetHellos, ZenonT(60)
<1> QED BY <1>3, <1>4

\* A connection is closed, for whatever reason.
LEMMA NetClose ==
    ASSUME NetInv, NEW p \in Peers, NEW hs, Close(p, hs), UNCHANGED start,
           up' = up \/ up' = up \ {p}, HellosOK(hs, p, FALSE),
           hellos[p] # <<>> \/ hs = <<>>
    PROVE  NetInv' /\ live' = live \ {p} /\ dropped' = dropped \union {p}
           /\ (stream' <=> stream /\ p # Aggregator) /\ stream' \in BOOLEAN
<1>1. /\ live' = live \ {p} /\ dropped' = dropped \union {p} /\ unheard' = unheard \ {p}
      /\ hellos' = [hellos EXCEPT ![p] = hs]
      /\ stream' = (stream /\ p # Aggregator)
  BY DEF Close
<1>2. /\ up' \subseteq Peers /\ live' \subseteq up' /\ dropped' \subseteq Peers /\ unheard' \subseteq live'
      /\ \A q \in Peers \ {p} : q \in live' <=> q \in live
  BY <1>1 DEF NetInv
<1>3. HellosOK(hs, p, p \in live') BY <1>1 DEF HellosOK
<1>4. hs # <<>> => start \in {"wait", "ready"} BY DEF NetInv
<1>5. NetInv' BY <1>1, <1>2, <1>3, <1>4, NetHellos, ZenonT(60)
<1> QED BY <1>1, <1>5, ZenonT(60)

\* The rest of the invariant after a connection was opened.
LEMMA AfterOpen ==
    ASSUME DiscoveryInv, NetInv', NEW p \in Peers, live' = live \union {p}, dropped' = dropped,
           dialing' \subseteq BootstrapPeers, UNCHANGED <<tracked, start, remaining, late>>,
           heart' \in {"idle", "beating"}, stream' \in BOOLEAN,
           stream' => heart' = "beating" /\ Aggregator \in live'
    PROVE  DiscoveryInv'
<1>1. TrackedIsConnected' BY DEF DiscoveryInv, TrackedIsConnected
<1> QED BY <1>1 DEF DiscoveryInv

\* The rest of the invariant after a connection was closed: the peer waits for
\* its disconnection to be notified.
LEMMA AfterClose ==
    ASSUME DiscoveryInv, NetInv', NEW p \in Peers, live' = live \ {p},
           dropped' = dropped \union {p}, UNCHANGED <<tracked, start, remaining, dialing, late>>,
           heart' \in {"idle", "beating"}, stream' \in BOOLEAN,
           stream' => heart' = "beating" /\ Aggregator \in live'
    PROVE  DiscoveryInv'
<1>1. TrackedIsConnected' BY DEF DiscoveryInv, TrackedIsConnected
<1> QED BY <1>1 DEF DiscoveryInv

\* A connection lost while its goroutines run, or one of them has ended.
LEMMA ClosedHellos ==
    ASSUME NetInv, NEW p \in Peers
    PROVE  /\ HellosOK(Closed(p), p, FALSE)
           /\ hellos[p] = <<>> => Closed(p) = <<>>
           /\ \A i \in DOMAIN hellos[p] :
                /\ hellos[p] # <<>>
                /\ HellosOK(Others(p, i), p, p \in live)
                /\ HellosOK([j \in DOMAIN Others(p, i) |->
                               [Others(p, i)[j] EXCEPT !.open = FALSE]], p, FALSE)
<1>1. HellosOK(hellos[p], p, p \in live) BY DEF NetInv
<1>2. HellosOK(Closed(p), p, FALSE) BY <1>1, HelloClosed, ZenonT(60) DEF Closed
<1>3. hellos[p] = <<>> => Closed(p) = <<>>
  <2> SUFFICES ASSUME hellos[p] = <<>> PROVE Closed(p) = <<>> OBVIOUS
  <2>1. DOMAIN hellos[p] = {} OBVIOUS
  <2>2. DOMAIN Closed(p) = {} BY <2>1 DEF Closed
  <2>3. Closed(p) \in Seq(Goroutine) BY <1>2 DEF HellosOK
  <2>4. Len(Closed(p)) = 0
    <3>1. Len(Closed(p)) \in Nat /\ 1..Len(Closed(p)) = {} BY <2>2, <2>3, LenProperties
    <3>2. Len(Closed(p)) # 0 => 1 \in 1..Len(Closed(p)) BY <3>1
    <3> QED BY <3>1, <3>2
  <2> QED BY <2>3, <2>4, EmptySeq
<1>4. ASSUME NEW i \in DOMAIN hellos[p]
      PROVE  /\ HellosOK(Others(p, i), p, p \in live) /\ hellos[p] # <<>>
             /\ HellosOK([j \in DOMAIN Others(p, i) |->
                            [Others(p, i)[j] EXCEPT !.open = FALSE]], p, FALSE)
  <2>1. HellosOK(Others(p, i), p, p \in live) BY <1>1, HelloEnded DEF Others
  <2>2. HellosOK([j \in DOMAIN Others(p, i) |->
                    [Others(p, i)[j] EXCEPT !.open = FALSE]], p, FALSE)
    BY <2>1, HelloClosed, ZenonT(60)
  <2>3. hellos[p] # <<>> OBVIOUS
  <2> QED BY <2>1, <2>2, <2>3, ZenonT(60)
<1> QED BY <1>2, <1>3, <1>4, ZenonT(60)

\* One goroutine of the hello protocol takes a step.
LEMMA HelloStep ==
    ASSUME DiscoveryInv, NEW p \in Peers, NEW i \in DOMAIN hellos[p],
           NewStream(p, i) \/ receiveHello(p, i) \/ peerDiscovered(p, i)
    PROVE  DiscoveryInv'
<1> DEFINE g == hellos[p][i]
           marked == [j \in DOMAIN Others(p, i) |-> [Others(p, i)[j] EXCEPT !.open = FALSE]]
<1>1. NetInv /\ up' = up /\ start' = start
  BY DEF DiscoveryInv, NewStream, receiveHello, peerDiscovered, Open
<1>2. /\ HellosOK(hellos[p], p, p \in live) /\ HellosOK(Others(p, i), p, p \in live)
      /\ HellosOK(marked, p, FALSE) /\ hellos[p] # <<>>
  BY <1>1, ClosedHellos, ZenonT(60) DEF NetInv
<1>3. start \in {"wait", "ready"} BY <1>1, <1>2 DEF NetInv
<1>4. /\ up \subseteq Peers /\ live \subseteq up /\ dropped \subseteq Peers /\ unheard \subseteq live
  BY <1>1 DEF NetInv
<1>5. CASE NewStream(p, i)
  <2>1. CanOpen(p) /\ Open(p) /\ UNCHANGED <<tracked, start, remaining, dialing, heart, stream, late>>
    BY <1>5 DEF NewStream
  <2>2. NetInv' /\ live' = live \union {p} /\ dropped' = dropped BY <1>1, <2>1, NetOpen
  <2> QED BY <2>1, <2>2, AfterOpen DEF DiscoveryInv
<1>6. CASE receiveHello(p, i)
  <2>1. UNCHANGED <<tracked, start, remaining, dialing, heart, late>> BY <1>6 DEF receiveHello
  <2>2. CASE /\ SameGenesis(p) /\ hellos' = [hellos EXCEPT ![p][i].at = "told"]
             /\ UNCHANGED <<up, live, dropped, unheard, stream>>
    <3> DEFINE hs == [hellos[p] EXCEPT ![i].at = "told"]
    <3>1. HellosOK(hs, p, p \in live') BY <1>2, <2>2, HelloTold DEF SameGenesis
    <3>2. hellos' = [hellos EXCEPT ![p] = hs] BY <2>2
    <3> HIDE DEF hs
    <3>3. NetInv' BY <1>1, <1>3, <1>4, <2>2, <3>1, <3>2, NetHellos, ZenonT(60)
    <3> QED BY <2>1, <2>2, <3>3 DEF DiscoveryInv, TrackedIsConnected
  <2>3. CASE g.open /\ Close(p, marked)
    <3>1. /\ NetInv' /\ live' = live \ {p} /\ dropped' = dropped \union {p}
          /\ (stream' <=> stream /\ p # Aggregator) /\ stream' \in BOOLEAN
      BY <1>1, <1>2, <2>3, NetClose, ZenonT(60)
    <3>2. stream' => heart' = "beating" /\ Aggregator \in live' BY <2>1, <3>1 DEF DiscoveryInv
    <3>3. heart' \in {"idle", "beating"} BY <2>1 DEF DiscoveryInv
    <3> QED BY <2>1, <3>1, <3>2, <3>3, AfterClose
  <2>4. CASE /\ hellos' = [hellos EXCEPT ![p] = Others(p, i)]
             /\ UNCHANGED <<live, dropped, unheard, stream>>
    <3>1. NetInv'
      <4> DEFINE hs == Others(p, i)
      <4>1. HellosOK(hs, p, p \in live') BY <1>2, <2>4
      <4>2. hellos' = [hellos EXCEPT ![p] = hs] BY <2>4
      <4> HIDE DEF hs
      <4> QED BY <1>1, <1>3, <1>4, <2>4, <4>1, <4>2, NetHellos, ZenonT(60)
    <3> QED BY <2>1, <2>4, <3>1 DEF DiscoveryInv, TrackedIsConnected
  <2> QED BY <1>6, <2>2, <2>3, <2>4 DEF receiveHello
<1>7. CASE peerDiscovered(p, i)
  <2>1. /\ g.at = "told" /\ tracked' = tracked \union {p} /\ remaining' = Done(remaining)
        /\ late' = (IF g.open THEN late ELSE late \union {p})
        /\ hellos' = [hellos EXCEPT ![p] = Others(p, i)]
        /\ UNCHANGED <<up, live, dropped, unheard, start, dialing, heart, stream>>
    BY <1>7 DEF peerDiscovered, Track
  <2>2. NetInv'
    <3> DEFINE hs == Others(p, i)
    <3>1. HellosOK(hs, p, p \in live') BY <1>2, <2>1
    <3>2. hellos' = [hellos EXCEPT ![p] = hs] BY <2>1
    <3> HIDE DEF hs
    <3> QED BY <1>1, <1>3, <1>4, <2>1, <3>1, <3>2, NetHellos, ZenonT(60)
  <2>3. p \notin Foreign /\ (g.open => p \in live) BY <1>2, <2>1 DEF HellosOK
  <2>4. remaining' \in 0..MinPeerThreshold
    BY <2>1, DiscoveryAssumption DEF DiscoveryInv, Done
  <2>5. TrackedIsConnected' BY <2>1, <2>3 DEF DiscoveryInv, TrackedIsConnected
  <2>6. late' \subseteq Peers /\ tracked' \subseteq Peers \ Foreign BY <2>1, <2>3 DEF DiscoveryInv
  <2>7. start' \in {"wait", "ready"} BY <1>1, <1>3
  <2> QED BY <2>1, <2>2, <2>4, <2>5, <2>6, <2>7 DEF DiscoveryInv
<1> QED BY <1>5, <1>6, <1>7

\* Every step of discovery keeps its invariant.
LEMMA DiscoveryStep ==
    ASSUME DiscoveryInv, DiscoveryNext
    PROVE  DiscoveryInv'
<1>1. NetInv BY DEF DiscoveryInv
<1>2. CASE Start
  <2>1. /\ start # "ready" /\ start' = Stages[StageOf(start) + 1]
        /\ UNCHANGED <<netVars, tracked, remaining, dialing, heart, stream, late>>
    BY <1>2 DEF Start
  <2>2. start' \in StageNames /\ (start \in {"wait", "ready"} => start' \in {"wait", "ready"})
    BY <1>1, <2>1, StageFacts DEF NetInv
  <2>3. NetInv' BY <1>1, <2>1, <2>2 DEF NetInv, netVars
  <2> QED BY <2>1, <2>2, <2>3 DEF DiscoveryInv, TrackedIsConnected, netVars
<1>3. CASE bootstrap
  <2>1. /\ dialing' \subseteq BootstrapPeers
        /\ UNCHANGED <<netVars, tracked, start, remaining, heart, stream, late>>
    BY <1>3 DEF bootstrap
  <2>2. NetInv' BY <1>1, <2>1 DEF NetInv, netVars
  <2> QED BY <2>1, <2>2 DEF DiscoveryInv, TrackedIsConnected, netVars
<1>4. CASE HeartbeatConnect
  <2>1. /\ UNCHANGED <<tracked, start, remaining, dialing, late>> /\ heart' = "beating" /\ stream' = TRUE
        /\ Aggregator \in Peers
    BY <1>4, DiscoveryAssumption DEF HeartbeatConnect
  <2>2. CASE Aggregator \in live
    <3>1. UNCHANGED netVars BY <1>4, <2>2 DEF HeartbeatConnect
    <3>2. NetInv' /\ Aggregator \in live' BY <1>1, <2>1, <2>2, <3>1 DEF NetInv, netVars
    <3> QED BY <2>1, <3>1, <3>2 DEF DiscoveryInv, TrackedIsConnected, netVars
  <2>3. CASE Aggregator \notin live
    <3>1. CanOpen(Aggregator) /\ Open(Aggregator) BY <1>4, <2>3 DEF HeartbeatConnect
    <3>2. NetInv' /\ live' = live \union {Aggregator} /\ dropped' = dropped
      BY <1>1, <2>1, <3>1, NetOpen
    <3>3. dialing' \subseteq BootstrapPeers BY <2>1 DEF DiscoveryInv
    <3> QED BY <2>1, <3>2, <3>3, AfterOpen
  <2> QED BY <2>2, <2>3
<1>5. CASE Run
  <2>1. /\ UNCHANGED <<tracked, start, remaining, dialing, late>> /\ heart' = "idle"
        /\ Aggregator \in Peers
    BY <1>5, DiscoveryAssumption DEF Run
  <2>2. CASE stream
    <3>1. Close(Aggregator, Closed(Aggregator)) /\ up' = up BY <1>5, <2>2 DEF Run
    <3>2. /\ NetInv' /\ live' = live \ {Aggregator} /\ dropped' = dropped \union {Aggregator}
          /\ ~stream' /\ stream' \in BOOLEAN
      <4> DEFINE hs == Closed(Aggregator)
      <4>1. HellosOK(hs, Aggregator, FALSE) /\ (hellos[Aggregator] # <<>> \/ hs = <<>>)
        BY <1>1, <2>1, ClosedHellos, ZenonT(60)
      <4> HIDE DEF hs
      <4> QED BY <1>1, <2>1, <3>1, <4>1, NetClose, ZenonT(60) DEF hs
    <3> QED BY <2>1, <3>2, AfterClose
  <2>3. CASE ~stream
    <3>1. UNCHANGED <<netVars, stream>> BY <1>5, <2>3 DEF Run
    <3>2. NetInv' BY <1>1, <2>1, <3>1 DEF NetInv, netVars
    <3> QED BY <2>1, <2>3, <3>1, <3>2 DEF DiscoveryInv, TrackedIsConnected, netVars
  <2> QED BY <2>2, <2>3
<1>6. ASSUME NEW p \in Peers, Inbound(p) PROVE DiscoveryInv'
  <2>1. CanOpen(p) /\ Open(p) /\ UNCHANGED <<tracked, start, remaining, dialing, heart, stream, late>>
    BY <1>6 DEF Inbound
  <2>2. NetInv' /\ live' = live \union {p} /\ dropped' = dropped BY <1>1, <2>1, NetOpen
  <2> QED BY <2>1, <2>2, AfterOpen DEF DiscoveryInv
<1>7. ASSUME NEW p \in Peers, Lose(p) PROVE DiscoveryInv'
  <2>1. /\ Close(p, Closed(p)) /\ (up' = up \/ up' = up \ {p})
        /\ UNCHANGED <<tracked, start, remaining, dialing, heart, late>>
    BY <1>7 DEF Lose
  <2>2. /\ NetInv' /\ live' = live \ {p} /\ dropped' = dropped \union {p}
        /\ (stream' <=> stream /\ p # Aggregator) /\ stream' \in BOOLEAN
    <3> DEFINE hs == Closed(p)
    <3>1. HellosOK(hs, p, FALSE) /\ (hellos[p] # <<>> \/ hs = <<>>) BY <1>1, ClosedHellos, ZenonT(60)
    <3>2. Close(p, hs) BY <2>1
    <3> HIDE DEF hs
    <3> QED BY <1>1, <2>1, <3>1, <3>2, NetClose, ZenonT(60)
  <2>3. stream' => heart' = "beating" /\ Aggregator \in live' BY <2>1, <2>2 DEF DiscoveryInv
  <2>4. heart' \in {"idle", "beating"} BY <2>1 DEF DiscoveryInv
  <2> QED BY <2>1, <2>2, <2>3, <2>4, AfterClose
<1>8. ASSUME NEW p \in Peers, Return(p) PROVE DiscoveryInv'
  <2>1. /\ up' = up \union {p}
        /\ UNCHANGED <<live, dropped, hellos, unheard, tracked, start, remaining, dialing,
                       heart, stream, late>>
    BY <1>8 DEF Return
  <2>2. NetInv' BY <1>1, <2>1 DEF NetInv
  <2> QED BY <2>1, <2>2 DEF DiscoveryInv, TrackedIsConnected
<1>9. ASSUME NEW p \in Peers, RegisterDisconnect(p) PROVE DiscoveryInv'
  <2>1. /\ dropped' = dropped \ {p} /\ late' = late \ {p}
        /\ UNCHANGED <<up, live, hellos, unheard, start, remaining, dialing, heart, stream>>
    BY <1>9 DEF RegisterDisconnect
  <2>2. tracked' = tracked \ {p}
    <3>1. CASE Reached("disconnects") BY <1>9, <3>1 DEF RegisterDisconnect, Remove
    <3>2. CASE ~Reached("disconnects")
      <4>1. tracked' = tracked BY <1>9, <3>2 DEF RegisterDisconnect
      <4>2. start \notin {"wait", "ready"} BY <1>1, <3>2, StageFacts DEF NetInv
      <4> QED BY <4>1, <4>2 DEF DiscoveryInv
    <3> QED BY <3>1, <3>2
  <2>3. NetInv' BY <1>1, <2>1 DEF NetInv
  <2> QED BY <2>1, <2>2, <2>3 DEF DiscoveryInv, TrackedIsConnected
<1>10. ASSUME NEW p \in Peers, Connect(p) PROVE DiscoveryInv'
  <2>1. /\ dialing' = dialing \ {p}
        /\ UNCHANGED <<tracked, start, remaining, heart, stream, late>>
    BY <1>10 DEF Connect
  <2>2. CASE p \in up \ live
    <3>1. CanOpen(p) /\ Open(p) BY <1>10, <2>2 DEF Connect
    <3>2. NetInv' /\ live' = live \union {p} /\ dropped' = dropped BY <1>1, <2>1, <3>1, NetOpen
    <3>3. dialing' \subseteq BootstrapPeers BY <2>1 DEF DiscoveryInv
    <3>4. stream' => heart' = "beating" /\ Aggregator \in live' BY <2>1, <3>2 DEF DiscoveryInv
    <3>5. heart' \in {"idle", "beating"} /\ stream' \in BOOLEAN BY <2>1 DEF DiscoveryInv
    <3> QED BY <2>1, <3>2, <3>3, <3>4, <3>5, AfterOpen
  <2>3. CASE p \notin up \ live
    <3>1. UNCHANGED netVars BY <1>10, <2>3 DEF Connect
    <3>2. NetInv' BY <1>1, <2>1, <3>1 DEF NetInv, netVars
    <3> QED BY <2>1, <3>1, <3>2 DEF DiscoveryInv, TrackedIsConnected, netVars
  <2> QED BY <2>2, <2>3
<1> QED BY <1>2, <1>3, <1>4, <1>5, <1>6, <1>7, <1>8, <1>9, <1>10, HelloStep DEF DiscoveryNext

\* A step that leaves discovery alone, but for the count of faults.
LEMMA DiscoveryFrame ==
    ASSUME DiscoveryInv,
           UNCHANGED <<netVars, tracked, start, remaining, dialing, heart, stream, late>>
    PROVE  DiscoveryInv'
BY DEF DiscoveryInv, NetInv, TrackedIsConnected, netVars

\* DiscoveryInv holds in every reachable state.
LEMMA DiscoveryAlways == Spec => []DiscoveryInv
<1>1. Init => DiscoveryInv BY InitDiscovery DEF Init
<1>2. DiscoveryInv /\ [Next]_vars => DiscoveryInv'
  <2> SUFFICES ASSUME DiscoveryInv, [Next]_vars PROVE DiscoveryInv' OBVIOUS
  <2>1. CASE DiscoveryNext BY <2>1, DiscoveryStep
  <2>2. CASE FetchTipSets BY <2>2, DiscoveryFrame DEF FetchTipSets, discoveryVars
  <2>3. CASE fetchBlocks BY <2>3, DiscoveryFrame DEF fetchBlocks
  <2>4. CASE fetchFirstTipset BY <2>4, DiscoveryFrame DEF fetchFirstTipset, discoveryVars
  <2>5. CASE fetchBlocksRecursively BY <2>5, DiscoveryFrame DEF fetchBlocksRecursively
  <2>6. CASE fetchRemainingTipsets BY <2>6, DiscoveryFrame DEF fetchRemainingTipsets, discoveryVars
  <2>7. CASE UNCHANGED vars BY <2>7, DiscoveryFrame DEF vars, discoveryVars
  <2> QED BY <2>1, <2>2, <2>3, <2>4, <2>5, <2>6, <2>7 DEF Next
<1> QED BY <1>1, <1>2, PTL DEF Spec

\* A tracked peer is connected, or its disconnection has yet to be notified, or
\* its hello was answered too late: the callbacks of Discovery keep no other
\* peer tracked, in whatever order connections open, close and are notified.
THEOREM TrackedPeersConnected == Spec => []TrackedIsConnected
<1>1. DiscoveryInv => TrackedIsConnected BY DEF DiscoveryInv
<1> QED BY <1>1, DiscoveryAlways, PTL

-----------------------------------------------------------------------------
(* The fetch *)

AllBlocks == UNION {BlocksOf(t) : t \in DOMAIN Blocks}

\* What the mode of the fetch needs of a block is in the store; the messages of
\* a block have been stored in part; a block is stored and valid.
Stored(b) == Header(b) \in store /\ (world.mode = "full" => Root(b) \in store /\ Message(b) \in store)
Partial(b) == world.mode = "full" /\ Root(b) \in store /\ Message(b) \notin store
Verified(b) ==
    /\ Stored(b) /\ b \notin world.badHeaders
    /\ world.mode = "full" => b \notin world.badMessages

\* The chain of n tipsets down from the key.
Down(n) == [i \in 1..n |-> Top - i + 1]

Asked == Peers \union {Self}
Fetch == [pc : {"idle", "first", "checkFirst", "recursive", "check", "returned", "failed"},
          want : SUBSET Whole, peer : Asked, tried : SUBSET Asked, out : Seq(Int),
          depth : Nat, level : Nat, err : {"", "invalid", "done", "no untried peers"},
          cut : SUBSET Asked]

Past == IF f.err = "no untried peers" THEN f.tried ELSE f.tried \ {f.peer}
Complete(p) == p \in Peers /\ world.has[p] = Whole /\ p \notin f.cut

FetchType ==
    /\ world \in Worlds /\ store \subseteq Whole /\ f \in Fetch
    /\ f.pc \notin {"returned", "failed"} => f.err = ""
    /\ f.pc = "returned" => f.err = ""
    /\ f.pc # "idle" /\ f.err # "no untried peers" => f.peer \in f.tried
    /\ f.pc = "idle" => f.tried = {}

\* A root is stored after its header, and asked for by itself only then.
RootsHeld ==
    /\ \A b \in AllBlocks : Root(b) \in store => Header(b) \in store
    /\ \A c \in f.want : \E b \in BlocksOf(Top) :
         c = Header(b) \/ (c = Root(b) /\ Header(b) \in store)

\* The tipsets accepted so far are the chain down from the key, and hold.
ChainSoFar ==
    /\ f.out = Down(Len(f.out)) /\ f.depth >= 1
    /\ \A i \in 1..Len(f.out) : \A b \in BlocksOf(Top - i + 1) : Verified(b)
    /\ f.pc \in {"idle", "first", "checkFirst"} => Len(f.out) = 0
    /\ f.pc \in {"recursive", "check"} => Len(f.out) \in 1..(Top - Stop)
    /\ f.pc \in {"idle", "first", "checkFirst", "recursive"} => f.level = 0
    /\ f.pc = "check" => f.level < f.depth
    /\ f.pc = "returned" => Len(f.out) = Top - Stop + 1

\* No complete peer is in the past; while an answer is checked, what its peer
\* was asked for is stored, if it is such a peer.
PeersSoFar ==
    /\ \A p \in Past : Complete(p) => Len(f.out) = 0 /\ \E b \in BlocksOf(Top) : Partial(b)
    /\ f.pc = "first" =>
         /\ \A b \in BlocksOf(Top) : Header(b) \in f.want \/ Stored(b) \/ Partial(b)
         /\ \/ Past \subseteq {Self}
            \/ \A b \in BlocksOf(Top) : Partial(b) => Header(b) \notin f.want
    /\ f.pc = "checkFirst" /\ Complete(f.peer) =>
         \A b \in BlocksOf(Top) : Stored(b) \/ Partial(b)
    /\ f.pc = "check" /\ Complete(f.peer) =>
         \A j \in 1..(f.depth - f.level) : Top - Len(f.out) + 1 - j >= 1 =>
            \A b \in BlocksOf(Top - Len(f.out) + 1 - j) : Stored(b)

FetchInv == FetchType /\ RootsHeld /\ ChainSoFar /\ PeersSoFar
-----------------------------------------------------------------------------
(* What is read back from the store *)

\* A nonempty set of natural numbers has a least element.
LEMMA LeastElement ==
    ASSUME NEW T, T \subseteq Nat, T # {}
    PROVE  \E m \in T : \A n \in T : m <= n
<1> DEFINE R == OpToRel(<, Nat)
<1>1. IsWellFoundedOn(R, Nat) BY NatLessThanWellFounded, ZenonT(60)
<1>2. \A x, y \in Nat : y < x => <<y, x>> \in R BY DEF OpToRel
<1> HIDE DEF R
<1>3. PICK x \in T : \A y \in T : ~(<<y, x>> \in R) BY <1>1, WFMin, ZenonT(60)
<1>4. x \in Nat OBVIOUS
<1>5. ASSUME NEW n \in T PROVE x <= n
  <2>1. n \in Nat OBVIOUS
  <2>2. ~(n < x) BY <1>2, <1>3, <1>4, <2>1, ZenonT(60)
  <2> QED BY <1>4, <2>1, <2>2
<1> QED BY <1>5

\* The three parts of a block tell their kind and their block.
LEMMA PartsApart ==
    ASSUME NEW b, NEW c
    PROVE  /\ Header(b)[1] = "header" /\ Header(b)[2] = b
           /\ Root(b)[1] = "root" /\ Root(b)[2] = b
           /\ Message(b)[1] = "message" /\ Message(b)[2] = b
           /\ Header(b) # Root(c) /\ Header(b) # Message(c) /\ Root(b) # Message(c)
           /\ Header(b) = Header(c) => b = c
           /\ Root(b) = Root(c) => b = c
           /\ Message(b) = Message(c) => b = c
BY DEF Header, Root, Message

\* The blocks of a tipset, in their order, and their parts.
LEMMA BlocksOfTipset ==
    ASSUME NEW t \in 1..Top
    PROVE  /\ t \in DOMAIN Blocks /\ 1 \in DOMAIN Blocks[t] /\ Blocks[t][1] \in BlocksOf(t)
           /\ \A b \in BlocksOf(t) : \E i \in DOMAIN Blocks[t] : b = Blocks[t][i]
           /\ \A i \in DOMAIN Blocks[t] : Blocks[t][i] \in BlocksOf(t)
           /\ DOMAIN Blocks[t] \subseteq Nat
           /\ \A i \in DOMAIN Blocks[t] : 1..(i - 1) \subseteq DOMAIN Blocks[t]
           /\ BlocksOf(t) \subseteq AllBlocks
<1>1. t \in DOMAIN Blocks BY FetcherAssumption
<1>2. PICK n \in 1..Len(Blocks[t]) : DOMAIN Blocks[t] = 1..n BY FetcherAssumption
<1>3. n \in Nat /\ n >= 1
  <2>1. 1..Len(Blocks[t]) \subseteq Nat OBVIOUS
  <2> QED BY <1>2
<1> QED BY <1>1, <1>2, <1>3 DEF BlocksOf, Range, AllBlocks

\* A block at which the check of the messages ends, and the first of them.
Unsound(b) ==
    /\ Header(b) \in store /\ Root(b) \in store
    /\ Message(b) \notin store \/ b \in world.badMessages
FirstUnsound(t) ==
    {Blocks[t][i] : i \in {j \in DOMAIN Blocks[t] :
                             Unsound(Blocks[t][j]) /\ \A k \in 1..(j - 1) : ~Unsound(Blocks[t][k])}}

\* When there is an unsound block there is a first one.
LEMMA UnsoundHasFirst ==
    ASSUME NEW t \in 1..Top
    PROVE  /\ FirstUnsound(t) \subseteq {b \in BlocksOf(t) : Unsound(b)}
           /\ FirstUnsound(t) = {} => \A b \in BlocksOf(t) : ~Unsound(b)
<1>1. FirstUnsound(t) \subseteq {b \in BlocksOf(t) : Unsound(b)}
  BY BlocksOfTipset DEF FirstUnsound
<1>2. ASSUME NEW b \in BlocksOf(t), Unsound(b) PROVE FirstUnsound(t) # {}
  <2> DEFINE T == {i \in DOMAIN Blocks[t] : Unsound(Blocks[t][i])}
  <2>1. PICK i \in DOMAIN Blocks[t] : b = Blocks[t][i] BY BlocksOfTipset
  <2>2. T \subseteq Nat /\ T # {} BY <1>2, <2>1, BlocksOfTipset
  <2>3. PICK m \in T : \A n \in T : m <= n BY <2>2, LeastElement, ZenonT(60)
  <2>4. m \in Nat BY <2>2
  <2>5. ASSUME NEW k \in 1..(m - 1) PROVE ~Unsound(Blocks[t][k])
    <3>1. k \in DOMAIN Blocks[t] BY BlocksOfTipset
    <3>2. ~(m <= k) BY <2>4
    <3> QED BY <2>3, <3>1, <3>2
  <2>6. Blocks[t][m] \in FirstUnsound(t) BY <2>3, <2>5 DEF FirstUnsound
  <2> QED BY <2>6
<1> QED BY <1>1, <1>2

\* What loadAndVerify computes.
LEMMA LoadedTipset ==
    ASSUME NEW t \in 1..Top, world.mode \in {"full", "headers"}
    PROVE  /\ loadAndVerify(t).err <=>
                \/ \E b \in BlocksOf(t) : Header(b) \in store /\ b \in world.badHeaders
                \/ world.mode = "full" /\ \E b \in FirstUnsound(t) : Message(b) \in store
           /\ \A c : c \in loadAndVerify(t).incomplete <=>
                \/ \E b \in BlocksOf(t) : c = Header(b) /\ c \notin store
                \/ /\ world.mode = "full"
                   /\ \E b \in BlocksOf(t) : c = Header(b) /\ c \in store /\ Root(b) \notin store
                \/ /\ world.mode = "full"
                   /\ \E b \in FirstUnsound(t) : c = Root(b) /\ Message(b) \notin store
<1>1. ~sanitizeBlocks(t) <=> \E b \in BlocksOf(t) : Header(b) \in store /\ b \in world.badHeaders
  BY DEF sanitizeBlocks, InTip
<1>2. \A c : c \in loadTipHeaders(t) <=> \E b \in BlocksOf(t) : c = Header(b) /\ c \notin store
  BY DEF loadTipHeaders
<1>3. CASE world.mode = "headers"
  <2>1. loadAndVerify(t).err = ~sanitizeBlocks(t) /\ loadAndVerify(t).incomplete = loadTipHeaders(t)
    BY <1>3 DEF loadAndVerify, loadAndVerifyHeader
  <2> QED BY <1>1, <1>2, <1>3, <2>1, ZenonT(60)
<1>4. CASE world.mode = "full"
  <2> DEFINE sub == loadAndVerifySubComponents(t)
  <2>1. loadAndVerify(t).err = (~sanitizeBlocks(t) \/ sub.err)
        /\ loadAndVerify(t).incomplete = loadTipHeaders(t) \union sub.incomplete
    BY <1>4 DEF loadAndVerify, loadAndVerifyFullBlock
  <2>2. /\ sub.err = (\E b \in FirstUnsound(t) : Message(b) \in store)
        /\ sub.incomplete = {Header(b) : b \in {c \in InTip(t) : Root(c) \notin store}}
                   \union {Root(b) : b \in {c \in FirstUnsound(t) : Message(c) \notin store}}
    BY ZenonT(60) DEF loadAndVerifySubComponents, FirstUnsound, Unsound
  <2> HIDE DEF sub
  <2>3. \A c : c \in sub.incomplete <=>
          \/ \E b \in BlocksOf(t) : c = Header(b) /\ c \in store /\ Root(b) \notin store
          \/ \E b \in FirstUnsound(t) : c = Root(b) /\ Message(b) \notin store
    BY <2>2 DEF InTip
  <2> QED BY <1>1, <1>2, <1>4, <2>1, <2>2, <2>3, ZenonT(60)
<1> QED BY <1>3, <1>4

\* A tipset that is read back without error and without anything missing is
\* verified; one that is stored has nothing missing; and what is missing is
\* asked for by its header, but for a message list stored in part.
LEMMA LoadMeans ==
    ASSUME NEW t \in 1..Top, world.mode \in {"full", "headers"},
           \A b \in AllBlocks : Root(b) \in store => Header(b) \in store
    PROVE  /\ ~loadAndVerify(t).err /\ loadAndVerify(t).incomplete = {} =>
                \A b \in BlocksOf(t) : Verified(b) /\ ~Partial(b)
           /\ (\A b \in BlocksOf(t) : Stored(b)) => loadAndVerify(t).incomplete = {}
           /\ (\A b \in BlocksOf(t) : Stored(b) \/ Partial(b)) =>
                \/ loadAndVerify(t).incomplete = {}
                \/ \E b \in BlocksOf(t) : Partial(b)
           /\ \A c \in loadAndVerify(t).incomplete : \E b \in BlocksOf(t) :
                c = Header(b) \/ (c = Root(b) /\ Header(b) \in store)
           /\ \A b \in BlocksOf(t) :
                /\ Header(b) \in loadAndVerify(t).incomplete \/ Stored(b) \/ Partial(b)
                /\ Partial(b) => Header(b) \notin loadAndVerify(t).incomplete
<1> DEFINE err == loadAndVerify(t).err
           inc == loadAndVerify(t).incomplete
<1>1. err <=> \/ \E b \in BlocksOf(t) : Header(b) \in store /\ b \in world.badHeaders
              \/ world.mode = "full" /\ \E b \in FirstUnsound(t) : Message(b) \in store
  BY LoadedTipset
<1>2. \A c : c \in inc <=>
         \/ \E b \in BlocksOf(t) : c = Header(b) /\ c \notin store
         \/ /\ world.mode = "full"
            /\ \E b \in BlocksOf(t) : c = Header(b) /\ c \in store /\ Root(b) \notin store
         \/ /\ world.mode = "full"
            /\ \E b \in FirstUnsound(t) : c = Root(b) /\ Message(b) \notin store
  BY LoadedTipset
<1>3. \A b \in FirstUnsound(t) : b \in BlocksOf(t) /\ Unsound(b) BY UnsoundHasFirst
<1>4. FirstUnsound(t) = {} => \A b \in BlocksOf(t) : ~Unsound(b) BY UnsoundHasFirst
<1>5. \A b \in BlocksOf(t) : Root(b) \in store => Header(b) \in store BY BlocksOfTipset
<1> HIDE DEF err, inc
<1>6. ASSUME ~err, inc = {}, NEW b \in BlocksOf(t) PROVE Verified(b) /\ ~Partial(b)
  <2>1. Header(b) \in store /\ b \notin world.badHeaders BY <1>1, <1>2, <1>6
  <2>2. ASSUME world.mode = "full"
        PROVE  Root(b) \in store /\ Message(b) \in store /\ b \notin world.badMessages
    <3>1. Root(b) \in store BY <1>2, <1>6, <2>1, <2>2
    <3>2. FirstUnsound(t) = {} BY <1>1, <1>2, <1>6, <2>2
    <3>3. ~Unsound(b) BY <1>4, <3>2
    <3> QED BY <2>1, <3>1, <3>3 DEF Unsound
  <2> QED BY <2>1, <2>2 DEF Verified, Stored, Partial
<1>7. ASSUME \A b \in BlocksOf(t) : Stored(b) PROVE inc = {}
  <2>1. ASSUME NEW c \in inc PROVE FALSE BY <1>2, <1>3, <1>7, <2>1 DEF Stored
  <2> QED BY <2>1
<1>8. ASSUME \A b \in BlocksOf(t) : Stored(b) \/ Partial(b), inc # {}
      PROVE  \E b \in BlocksOf(t) : Partial(b)
  <2>1. CASE \A b \in BlocksOf(t) : Stored(b) BY <1>7, <1>8, <2>1
  <2>2. CASE ~ \A b \in BlocksOf(t) : Stored(b) BY <1>8, <2>2
  <2> QED BY <2>1, <2>2
<1>9. ASSUME NEW c \in inc
      PROVE  \E b \in BlocksOf(t) : c = Header(b) \/ (c = Root(b) /\ Header(b) \in store)
  BY <1>2, <1>3 DEF Unsound
<1>10. ASSUME NEW b \in BlocksOf(t) PROVE Header(b) \in inc \/ Stored(b) \/ Partial(b)
  BY <1>2, <1>5 DEF Stored, Partial
<1>11. ASSUME NEW b \in BlocksOf(t), Partial(b) PROVE Header(b) \notin inc
  <2>1. Header(b) \in store /\ Root(b) \in store BY <1>5, <1>11 DEF Partial
  <2>2. ASSUME NEW c \in BlocksOf(t), Header(b) = Header(c) PROVE c = b BY <2>2, PartsApart
  <2>3. \A c : Header(b) # Root(c) BY PartsApart
  <2> QED BY <1>2, <2>1, <2>2, <2>3
<1> QED BY <1>6, <1>7, <1>8, <1>9, <1>10, <1>11 DEF err, inc

-----------------------------------------------------------------------------
(* What an answer brings *)

\* The answer to a selector: parts of its block that the peer has, a root with
\* its header, and from a peer that has the block all that the mode needs.
LEMMA SelMeans ==
    ASSUME NEW mode, NEW b, NEW h
    PROVE  /\ Sel(mode, b, h) \subseteq h /\ Sel(mode, b, h) \subseteq Parts(b)
           /\ Root(b) \in Sel(mode, b, h) => Header(b) \in Sel(mode, b, h)
           /\ Parts(b) \subseteq h =>
                /\ Header(b) \in Sel(mode, b, h)
                /\ mode = "full" => Root(b) \in Sel(mode, b, h) /\ Message(b) \in Sel(mode, b, h)
<1>1. Root(b) # Header(b) BY PartsApart
<1> QED BY <1>1, ZenonT(60) DEF Sel, fullBlockSel, headerSel, Parts

\* A part of a block that is in the parts of another is the other's.
LEMMA PartOf ==
    ASSUME NEW b, NEW c
    PROVE  /\ Header(c) \in Parts(b) => c = b
           /\ Root(c) \in Parts(b) => c = b
           /\ Message(c) \in Parts(b) => c = b
BY PartsApart DEF Parts

\* The parts of a block of a tipset are in the whole chain.
LEMMA PartsInWhole ==
    ASSUME NEW t \in 1..Top, NEW b \in BlocksOf(t)
    PROVE  Parts(b) \subseteq Whole
BY BlocksOfTipset DEF Whole

\* A set of parts that may be stored: no root comes without its header.
Storable(S) == S \subseteq Whole /\ \A b \in AllBlocks : Root(b) \in S => Header(b) \in S \union store

\* The answer to a request for blocks of the key's tipset.
LEMMA BlocksAnswer ==
    ASSUME RootsHeld, NEW mode, NEW h, h \subseteq Whole
    PROVE  LET S == Reached1(mode, f.want, h)
           IN  /\ Storable(S)
               /\ \A b \in AllBlocks : Message(b) \in S => Header(b) \in f.want
               /\ h = Whole => \A b \in BlocksOf(Top) : Header(b) \in f.want =>
                    Header(b) \in S /\ (mode = "full" => Root(b) \in S /\ Message(b) \in S)
<1> DEFINE S == Reached1(mode, f.want, h)
           Of(c) == IF c[1] = "header" THEN Sel(mode, c[2], h) ELSE {c} \intersect h
<1>1. S = UNION {Of(c) : c \in f.want} BY DEF Reached1
<1>2. \A b : Of(Header(b)) = Sel(mode, b, h) BY PartsApart
<1>3. \A b : Of(Root(b)) = {Root(b)} \intersect h BY PartsApart
<1> HIDE DEF S, Of
<1>4. ASSUME NEW x \in S
      PROVE  \/ \E b \in BlocksOf(Top) : Header(b) \in f.want /\ x \in Sel(mode, b, h)
             \/ \E b \in BlocksOf(Top) : x = Root(b) /\ Header(b) \in store /\ x \in h
  <2>1. PICK c \in f.want : x \in Of(c) BY <1>1
  <2>2. PICK b \in BlocksOf(Top) : c = Header(b) \/ (c = Root(b) /\ Header(b) \in store)
    BY DEF RootsHeld
  <2> QED BY <1>2, <1>3, <2>1, <2>2
<1>5. S \subseteq Whole BY <1>4, SelMeans
<1>6. ASSUME NEW b \in AllBlocks, Root(b) \in S PROVE Header(b) \in S \union store
  <2>1. CASE \E c \in BlocksOf(Top) : Header(c) \in f.want /\ Root(b) \in Sel(mode, c, h)
    <3>1. PICK c \in BlocksOf(Top) : Header(c) \in f.want /\ Root(b) \in Sel(mode, c, h) BY <2>1
    <3>2. b = c BY <3>1, SelMeans, PartOf
    <3>3. Header(b) \in Sel(mode, b, h) BY <3>1, <3>2, SelMeans
    <3> QED BY <1>1, <1>2, <3>1, <3>2, <3>3
  <2>2. CASE \E c \in BlocksOf(Top) : Root(b) = Root(c) /\ Header(c) \in store
    BY <2>2, PartsApart
  <2> QED BY <1>4, <1>6, <2>1, <2>2
<1>7. ASSUME NEW b \in AllBlocks, Message(b) \in S PROVE Header(b) \in f.want
  <2>1. \A c : Message(b) # Root(c) BY PartsApart
  <2>2. PICK c \in BlocksOf(Top) : Header(c) \in f.want /\ Message(b) \in Sel(mode, c, h)
    BY <1>4, <1>7, <2>1, ZenonT(60)
  <2>3. b = c BY <2>2, SelMeans, PartOf
  <2> QED BY <2>2, <2>3
<1>8. ASSUME h = Whole, NEW b \in BlocksOf(Top), Header(b) \in f.want
      PROVE  Header(b) \in S /\ (mode = "full" => Root(b) \in S /\ Message(b) \in S)
  <2>1. Top \in 1..Top BY FetcherAssumption
  <2>2. Parts(b) \subseteq h BY <1>8, <2>1, PartsInWhole
  <2>3. Sel(mode, b, h) \subseteq S BY <1>1, <1>2, <1>8
  <2> QED BY <2>2, <2>3, SelMeans
<1> QED BY <1>5, <1>6, <1>7, <1>8, ZenonT(60) DEF Storable, S

\* The answer to a request for the tipsets below one.
LEMMA ChainAnswer ==
    ASSUME NEW mode, NEW h, h \subseteq Whole, NEW t \in 1..Top, NEW depth \in Nat
    PROVE  LET S == recSel(mode, t, depth, h)
           IN  /\ Storable(S)
               /\ h = Whole => \A j \in 1..depth : t - j >= 1 => \A b \in BlocksOf(t - j) :
                    Header(b) \in S /\ (mode = "full" => Root(b) \in S /\ Message(b) \in S)
<1> DEFINE S == recSel(mode, t, depth, h)
<1>1. \A x : x \in S <=> \E j \in Levels(t, depth, h) : \E b \in BlocksOf(t - j) : x \in Sel(mode, b, h)
  BY DEF recSel
<1> HIDE DEF S
<1>2. S \subseteq Whole BY <1>1, SelMeans
<1>3. ASSUME NEW b \in AllBlocks, Root(b) \in S PROVE Header(b) \in S
  <2>1. PICK j \in Levels(t, depth, h) : \E c \in BlocksOf(t - j) : Root(b) \in Sel(mode, c, h)
    BY <1>1, <1>3
  <2>2. PICK c \in BlocksOf(t - j) : Root(b) \in Sel(mode, c, h) BY <2>1
  <2>3. b = c BY <2>2, SelMeans, PartOf
  <2>4. Header(b) \in Sel(mode, b, h) BY <2>2, <2>3, SelMeans
  <2> QED BY <1>1, <2>2, <2>3, <2>4
<1>4. ASSUME h = Whole, NEW j \in 1..depth, t - j >= 1, NEW b \in BlocksOf(t - j)
      PROVE  Header(b) \in S /\ (mode = "full" => Root(b) \in S /\ Message(b) \in S)
  <2>0. Top \in Nat /\ t \in Nat /\ j \in Nat BY FetcherAssumption
  <2>1. ASSUME NEW i \in 0..(j - 1) PROVE Header(Blocks[t - i][1]) \in h
    <3>1. t - i \in 1..Top BY <1>4, <2>0
    <3>2. Blocks[t - i][1] \in BlocksOf(t - i) BY <3>1, BlocksOfTipset
    <3>3. Parts(Blocks[t - i][1]) \subseteq Whole BY <3>1, <3>2, PartsInWhole
    <3> QED BY <1>4, <3>3 DEF Parts
  <2>2. j \in Levels(t, depth, h) BY <1>4, <2>1 DEF Levels
  <2>3. t - j \in 1..Top BY <1>4, <2>0
  <2>4. Parts(b) \subseteq h BY <1>4, <2>3, PartsInWhole
  <2> QED BY <1>1, <1>4, <2>2, <2>4, SelMeans, ZenonT(60)
<1> QED BY <1>2, <1>3, <1>4 DEF Storable, S

\* One request is answered in full, in part, or not at all, and then the peer
\* is among those that were cut off.
LEMMA Response ==
    ASSUME DiscoveryInv, FetchType, RootsHeld, NEW S, Storable(S),
           NEW next \in {"checkFirst", "check"}, consumeResponse(S, next)
    PROVE  \E T \in SUBSET S, c \in SUBSET Asked :
             /\ store' = store \union T /\ Storable(T)
             /\ f' = [f EXCEPT !.pc = next, !.cut = c] /\ f.cut \subseteq c
             /\ f.peer \in c \/ (T = S /\ f.peer \in Peers)
<1>1. f \in Fetch /\ f.peer \in Asked /\ f.cut \in SUBSET Asked BY ZenonT(60) DEF FetchType, Fetch
<1>2. live \subseteq Peers BY DEF DiscoveryInv, NetInv
<1>3. CASE f.peer \in live /\ store' = store \union S /\ f' = [f EXCEPT !.pc = next]
  <2>1. f' = [f EXCEPT !.pc = next, !.cut = f.cut] BY <1>1, <1>3, ZenonT(60) DEF Fetch
  <2> QED BY <1>1, <1>2, <1>3, <2>1, ZenonT(60)
<1>4. CASE \E T \in SUBSET S : Ordered(T) /\ store' = store \union T
                              /\ f' = [f EXCEPT !.pc = next, !.cut = @ \union {f.peer}]
  <2>1. PICK T \in SUBSET S : Ordered(T) /\ store' = store \union T
                              /\ f' = [f EXCEPT !.pc = next, !.cut = @ \union {f.peer}]
    BY <1>4
  <2>2. ASSUME NEW b \in AllBlocks, Root(b) \in T PROVE Header(b) \in T \union store
    <3>1. b \in {s[2] : s \in T} BY <2>2, PartsApart
    <3>2. Root(b) \in T \ store => Header(b) \in T \union store BY <2>1, <3>1 DEF Ordered
    <3>3. Root(b) \in store => Header(b) \in store BY DEF RootsHeld
    <3> QED BY <2>2, <3>2, <3>3
  <2>3. Storable(T) BY <2>2 DEF Storable
  <2>4. f' = [f EXCEPT !.pc = next, !.cut = f.cut \union {f.peer}] BY <1>1, <2>1, ZenonT(60) DEF Fetch
  <2> QED BY <1>1, <2>1, <2>3, <2>4, ZenonT(60)
<1>5. CASE f' = [f EXCEPT !.pc = next, !.cut = @ \union {f.peer}] /\ UNCHANGED store
  <2>1. f' = [f EXCEPT !.pc = next, !.cut = f.cut \union {f.peer}] BY <1>1, <1>5, ZenonT(60) DEF Fetch
  <2>2. store' = store \union {} /\ Storable({}) BY <1>5 DEF Storable
  <2> QED BY <1>1, <2>1, <2>2, ZenonT(60)
<1> QED BY <1>3, <1>4, <1>5, ZenonT(60) DEF consumeResponse

\* What is stored stays stored.
LEMMA StoreGrows ==
    ASSUME NEW T, store' = store \union T, UNCHANGED world, NEW b
    PROVE  /\ Stored(b) => Stored(b)'
           /\ Verified(b) => Verified(b)'
           /\ Partial(b) => Root(b) \in store' /\ world.mode = "full"
           /\ Partial(b) /\ Message(b) \notin T => Partial(b)'
BY DEF Stored, Verified, Partial, Header, Root, Message

\* The parts of the invariant that an answer cannot disturb.
LEMMA AfterAnswer ==
    ASSUME FetchInv, UNCHANGED world, NEW T, Storable(T), store' = store \union T,
           NEW next \in {"checkFirst", "check"}, NEW c \in SUBSET Asked, f.cut \subseteq c,
           f.pc = (IF next = "check" THEN "recursive" ELSE "first"),
           f' = [f EXCEPT !.pc = next, !.cut = c]
    PROVE  /\ FetchType' /\ RootsHeld' /\ ChainSoFar'
           /\ Past' = Past /\ f'.out = f.out /\ f'.pc = next /\ f'.peer = f.peer
           /\ f'.depth = f.depth /\ f'.level = f.level /\ f'.want = f.want /\ f'.cut = c
           /\ \A p : Complete(p)' => Complete(p)
<1>1. /\ f' \in Fetch /\ f'.pc = next /\ f'.want = f.want /\ f'.peer = f.peer
      /\ f'.tried = f.tried /\ f'.out = f.out /\ f'.depth = f.depth /\ f'.level = f.level
      /\ f'.err = f.err /\ f'.cut = c
  BY ZenonT(60) DEF FetchInv, FetchType, Fetch
<1>2. FetchType' BY <1>1, ZenonT(60) DEF FetchInv, FetchType, Storable
<1>3. RootsHeld'
  <2>1. ASSUME NEW b \in AllBlocks, Root(b) \in store' PROVE Header(b) \in store'
    BY <2>1 DEF FetchInv, RootsHeld, Storable
  <2>2. ASSUME NEW x \in f'.want
        PROVE  \E b \in BlocksOf(Top) : x = Header(b) \/ (x = Root(b) /\ Header(b) \in store')
    BY <1>1 DEF FetchInv, RootsHeld
  <2> QED BY <2>1, <2>2, ZenonT(60) DEF RootsHeld, AllBlocks, BlocksOf, Header, Root
<1>4. ChainSoFar'
  <2>1. ASSUME NEW i \in 1..Len(f'.out), NEW b \in BlocksOf(Top - i + 1) PROVE Verified(b)'
    <3>1. Verified(b) BY <1>1 DEF FetchInv, ChainSoFar
    <3> QED BY <3>1, StoreGrows
  <2>2. f'.out = Down(Len(f'.out)) BY <1>1 DEF FetchInv, ChainSoFar
  <2>3. f.depth \in Nat /\ f.level \in Nat BY ZenonT(60) DEF FetchInv, FetchType, Fetch
  <2> QED BY <1>1, <2>1, <2>2, <2>3 DEF FetchInv, ChainSoFar, Down, BlocksOf
<1>5. Past' = Past BY <1>1 DEF Past
<1>6. ASSUME NEW p, Complete(p)' PROVE Complete(p) BY <1>1, <1>6 DEF Complete
<1> QED BY <1>1, <1>2, <1>3, <1>4, <1>5, <1>6

-----------------------------------------------------------------------------
(* The steps of a fetch *)

\* A key's tipset is a tipset, and what a world is.
LEMMA WorldFacts ==
    ASSUME FetchType
    PROVE  /\ Top \in 1..Top /\ Top \in Nat /\ Stop \in 1..Top /\ Stop \in Nat
           /\ world.mode \in {"full", "headers"} /\ Self \notin Peers
           /\ \A p \in Peers : world.has[p] \subseteq Whole
           /\ f.peer # Self => f.peer \in Peers
<1>1. f.peer \in Peers \union {Self} BY ZenonT(60) DEF FetchType, Fetch, Asked
<1>2. Top \in Nat /\ Stop \in 1..Top /\ Self \notin Peers BY FetcherAssumption
<1>3. Top \in 1..Top /\ Stop \in Nat BY <1>2
<1>4. world.mode \in {"full", "headers"} /\ \A p \in Peers : world.has[p] \subseteq Whole
  BY FetcherAssumption, ZenonT(60) DEF FetchType
<1> QED BY <1>1, <1>2, <1>3, <1>4

\* A place of the chain down from the key.
LEMMA DownAt ==
    ASSUME NEW n \in Nat, NEW i \in 1..n
    PROVE  Down(n)[i] = Top - i + 1
BY DEF Down

\* The first request.
LEMMA FetchBlocksStep ==
    ASSUME DiscoveryInv, FetchInv, fetchBlocks
    PROVE  FetchInv'
<1> DEFINE S == IF f.peer = Self THEN {} ELSE Reached1(world.mode, f.want, world.has[f.peer])
<1>1. f.pc = "first" /\ consumeResponse(S, "checkFirst") /\ world' = world
  BY DEF fetchBlocks
<1>2. FetchType /\ RootsHeld /\ ChainSoFar /\ PeersSoFar BY DEF FetchInv
<1>3. /\ Storable(S)
      /\ \A b \in AllBlocks : Message(b) \in S => Header(b) \in f.want
      /\ f.peer \in Peers /\ world.has[f.peer] = Whole =>
           \A b \in BlocksOf(Top) : Header(b) \in f.want =>
             Header(b) \in S /\ (world.mode = "full" => Root(b) \in S /\ Message(b) \in S)
  <2>1. CASE f.peer = Self BY <1>2, <2>1, WorldFacts DEF Storable
  <2>2. CASE f.peer # Self
    <3>1. world.has[f.peer] \subseteq Whole BY <1>2, <2>2, WorldFacts
    <3>2. S = Reached1(world.mode, f.want, world.has[f.peer]) BY <2>2
    <3> HIDE DEF S
    <3> QED BY <1>2, <3>1, <3>2, BlocksAnswer, ZenonT(60)
  <2> QED BY <2>1, <2>2, ZenonT(60)
<1> HIDE DEF S
<1>4. PICK T \in SUBSET S, c \in SUBSET Asked :
        /\ store' = store \union T /\ Storable(T)
        /\ f' = [f EXCEPT !.pc = "checkFirst", !.cut = c] /\ f.cut \subseteq c
        /\ f.peer \in c \/ (T = S /\ f.peer \in Peers)
  BY <1>1, <1>2, <1>3, Response, ZenonT(60)
<1>5. /\ FetchType' /\ RootsHeld' /\ ChainSoFar'
      /\ Past' = Past /\ f'.out = f.out /\ f'.pc = "checkFirst" /\ f'.peer = f.peer /\ f'.cut = c
      /\ \A p : Complete(p)' => Complete(p)
  BY <1>1, <1>4, AfterAnswer, ZenonT(60)
<1>6. ASSUME NEW p \in Past', Complete(p)'
      PROVE  Len(f'.out) = 0 /\ \E b \in BlocksOf(Top) : Partial(b)'
  <2>1. p \in Past /\ Complete(p) BY <1>5, <1>6
  <2>2. Len(f.out) = 0 /\ \E b \in BlocksOf(Top) : Partial(b) BY <1>2, <2>1 DEF PeersSoFar
  <2>3. p # Self BY <1>2, <2>1, WorldFacts DEF Complete
  <2>4. \A b \in BlocksOf(Top) : Partial(b) => Header(b) \notin f.want
    BY <1>1, <1>2, <2>1, <2>3 DEF PeersSoFar
  <2>5. PICK b \in BlocksOf(Top) : Partial(b) /\ Header(b) \notin f.want BY <2>2, <2>4
  <2>6. b \in AllBlocks BY <1>2, WorldFacts, BlocksOfTipset
  <2>7. Message(b) \notin T BY <1>3, <2>5, <2>6, ZenonT(60)
  <2>8. Partial(b)' BY <1>1, <1>4, <2>5, <2>7, StoreGrows
  <2> QED BY <1>5, <2>2, <2>8, ZenonT(60)
<1>7. ASSUME Complete(f.peer)', NEW b \in BlocksOf(Top)
      PROVE  Stored(b)' \/ Partial(b)'
  <2>1. f.peer \in Peers /\ world.has[f.peer] = Whole /\ f.peer \notin c /\ T = S
    BY <1>1, <1>4, <1>5, <1>7 DEF Complete
  <2>2. Header(b) \in f.want \/ Stored(b) \/ Partial(b) BY <1>1, <1>2 DEF PeersSoFar
  <2>3. CASE Header(b) \in f.want
    <3>1. Header(b) \in S /\ (world.mode = "full" => Root(b) \in S /\ Message(b) \in S)
      BY <1>3, <2>1, <2>3
    <3>2. Stored(b)' BY <1>1, <1>4, <2>1, <3>1 DEF Stored, Header, Root, Message
    <3> QED BY <3>2
  <2>4. CASE Stored(b) BY <1>1, <1>4, <2>4, StoreGrows
  <2>5. CASE Partial(b)
    <3>1. Root(b) \in store' /\ world.mode = "full" BY <1>1, <1>4, <2>5, StoreGrows
    <3>2. b \in AllBlocks BY <1>2, WorldFacts, BlocksOfTipset
    <3>3. Header(b) \in store' BY <1>2, <1>4, <2>5, <3>2 DEF RootsHeld, Partial
    <3> QED BY <1>1, <3>1, <3>3 DEF Stored, Partial, Header, Root, Message
  <2> QED BY <2>2, <2>3, <2>4, <2>5
<1>8. PeersSoFar'
  <2>1. f'.pc # "first" /\ f'.pc # "check" BY <1>5, ZenonT(60)
  <2> QED BY <1>6, <1>7, <2>1, ZenonT(60) DEF PeersSoFar, BlocksOf
<1> QED BY <1>5, <1>8 DEF FetchInv

\* The later requests.
LEMMA FetchBlocksRecursivelyStep ==
    ASSUME DiscoveryInv, FetchInv, fetchBlocksRecursively
    PROVE  FetchInv'
<1> DEFINE S == IF f.peer = Self THEN {} ELSE recSel(world.mode, anchor, f.depth, world.has[f.peer])
<1>1. f.pc = "recursive" /\ consumeResponse(S, "check") /\ world' = world
  BY DEF fetchBlocksRecursively
<1>2. FetchType /\ RootsHeld /\ ChainSoFar /\ PeersSoFar BY DEF FetchInv
<1>3. Top \in Nat /\ Stop \in Nat /\ Len(f.out) \in 1..(Top - Stop) /\ f.level = 0 /\ f.depth \in Nat
  BY <1>1, <1>2, WorldFacts, ZenonT(60) DEF ChainSoFar, FetchType, Fetch
<1>4. anchor = Top - Len(f.out) + 1 /\ anchor \in 1..Top
  <2>1. anchor = Down(Len(f.out))[Len(f.out)] BY <1>2 DEF ChainSoFar, anchor
  <2>2. Len(f.out) \in Nat /\ Len(f.out) \in 1..Len(f.out) BY <1>3
  <2>3. anchor = Top - Len(f.out) + 1 BY <2>1, <2>2, DownAt
  <2> QED BY <1>3, <2>3
<1>5. /\ Storable(S)
      /\ f.peer \in Peers /\ world.has[f.peer] = Whole =>
           \A j \in 1..f.depth : anchor - j >= 1 => \A b \in BlocksOf(anchor - j) :
             Header(b) \in S /\ (world.mode = "full" => Root(b) \in S /\ Message(b) \in S)
  <2>1. CASE f.peer = Self BY <1>2, <2>1, WorldFacts, ZenonT(60) DEF Storable
  <2>2. CASE f.peer # Self
    <3>1. world.has[f.peer] \subseteq Whole BY <1>2, <2>2, WorldFacts
    <3>2. S = recSel(world.mode, anchor, f.depth, world.has[f.peer]) BY <2>2
    <3> HIDE DEF S
    <3> QED BY <1>3, <1>4, <3>1, <3>2, ChainAnswer, ZenonT(60)
  <2> QED BY <2>1, <2>2, ZenonT(60)
<1> HIDE DEF S
<1>6. PICK T \in SUBSET S, c \in SUBSET Asked :
        /\ store' = store \union T /\ Storable(T)
        /\ f' = [f EXCEPT !.pc = "check", !.cut = c] /\ f.cut \subseteq c
        /\ f.peer \in c \/ (T = S /\ f.peer \in Peers)
  BY <1>1, <1>2, <1>5, Response, ZenonT(60)
<1>7. /\ FetchType' /\ RootsHeld' /\ ChainSoFar'
      /\ Past' = Past /\ f'.out = f.out /\ f'.pc = "check" /\ f'.peer = f.peer /\ f'.cut = c
      /\ f'.depth = f.depth /\ f'.level = 0
      /\ \A p : Complete(p)' => Complete(p)
  BY <1>1, <1>3, <1>6, AfterAnswer, ZenonT(60)
<1>8. \A p \in Past' : ~Complete(p)'
  <2>1. Len(f.out) # 0 BY <1>3
  <2> QED BY <1>2, <1>7, <2>1, ZenonT(60) DEF PeersSoFar
<1>9. ASSUME Complete(f.peer)', NEW j \in 1..f.depth, anchor - j >= 1, NEW b \in BlocksOf(anchor - j)
      PROVE  Stored(b)'
  <2>1. f.peer \in Peers /\ world.has[f.peer] = Whole /\ T = S
    BY <1>1, <1>6, <1>7, <1>9 DEF Complete
  <2>2. Header(b) \in S /\ (world.mode = "full" => Root(b) \in S /\ Message(b) \in S)
    BY <1>5, <1>9, <2>1
  <2> QED BY <1>1, <1>6, <2>1, <2>2 DEF Stored, Header, Root, Message
<1>10. ASSUME Complete(f.peer)', NEW j \in 1..(f'.depth - f'.level), Top - Len(f'.out) + 1 - j >= 1,
              NEW b \in BlocksOf(Top - Len(f'.out) + 1 - j)
       PROVE  Stored(b)'
  <2>1. f'.depth - f'.level = f.depth BY <1>3, <1>7
  <2>2. Top - Len(f'.out) + 1 - j = anchor - j
    <3>1. Len(f'.out) = Len(f.out) BY <1>7
    <3> QED BY <1>3, <1>4, <3>1
  <2>3. j \in 1..f.depth /\ anchor - j >= 1 /\ b \in BlocksOf(anchor - j) BY <1>10, <2>1, <2>2
  <2> QED BY <1>9, <1>10, <2>3
<1>11. PeersSoFar' BY <1>7, <1>8, <1>10 DEF PeersSoFar, BlocksOf
<1> QED BY <1>7, <1>11 DEF FetchInv

\* The search for the next peer leaves the tried ones behind.
LEMMA NextPeer ==
    ASSUME DiscoveryInv, NEW g \in Fetch, g.err = "", FindNextPeer(g)
    PROVE  /\ f' \in Fetch /\ f'.want = g.want /\ f'.out = g.out /\ f'.depth = g.depth
           /\ f'.level = g.level /\ f'.cut = g.cut /\ Past' = g.tried
           /\ \/ f'.pc = "failed" /\ f'.err = "no untried peers"
              \/ f'.pc = g.pc /\ f'.err = "" /\ f'.peer \in f'.tried
<1>1. tracked \subseteq Asked BY ZenonT(60) DEF DiscoveryInv, Asked
<1>2. CASE tracked \subseteq g.tried
  <2>1. f' = [g EXCEPT !.pc = "failed", !.err = "no untried peers"]
    BY <1>2, ZenonT(60) DEF FindNextPeer, Failed
  <2>2. /\ f' \in Fetch /\ f'.want = g.want /\ f'.out = g.out /\ f'.depth = g.depth
        /\ f'.level = g.level /\ f'.cut = g.cut /\ f'.tried = g.tried
        /\ f'.pc = "failed" /\ f'.err = "no untried peers"
    BY <2>1, ZenonT(60) DEF Fetch
  <2> QED BY <2>2, ZenonT(60) DEF Past
<1>3. CASE ~(tracked \subseteq g.tried)
  <2>1. PICK p \in tracked \ g.tried : f' = [g EXCEPT !.peer = p, !.tried = @ \union {p}]
    BY <1>3, ZenonT(60) DEF FindNextPeer
  <2>2. /\ f' \in Fetch /\ f'.want = g.want /\ f'.out = g.out /\ f'.depth = g.depth
        /\ f'.level = g.level /\ f'.cut = g.cut /\ f'.tried = g.tried \union {p}
        /\ f'.peer = p /\ f'.pc = g.pc /\ f'.err = ""
    BY <1>1, <2>1, ZenonT(60) DEF Fetch
  <2>3. Past' = (g.tried \union {p}) \ {p} BY <2>2, ZenonT(60) DEF Past
  <2> QED BY <2>1, <2>2, <2>3, ZenonT(60)
<1> QED BY <1>2, <1>3, ZenonT(60)

\* The next tipset of the chain.
LEMMA DownAppend ==
    ASSUME NEW n \in Nat
    PROVE  /\ Down(n) \in Seq(Int) /\ Len(Down(n)) = n
           /\ Append(Down(n), Top - n) = Down(n + 1)
<1>1. Top \in Int BY FetcherAssumption
<1>2. Down(n) \in Seq(Int) /\ Len(Down(n)) = n BY <1>1 DEF Down
<1>3. Down(n + 1) \in Seq(Int) /\ Len(Down(n + 1)) = n + 1 BY <1>1 DEF Down
<1>4. /\ Append(Down(n), Top - n) \in Seq(Int) /\ Len(Append(Down(n), Top - n)) = n + 1
      /\ \A i \in 1..n : Append(Down(n), Top - n)[i] = Down(n)[i]
      /\ Append(Down(n), Top - n)[n + 1] = Top - n
  <2>1. Top - n \in Int BY <1>1
  <2> QED BY <1>2, <2>1, AppendProperties
<1>5. ASSUME NEW i \in 1..(n + 1) PROVE Append(Down(n), Top - n)[i] = Down(n + 1)[i]
  <2>1. n + 1 \in Nat OBVIOUS
  <2>2. Down(n + 1)[i] = Top - i + 1 BY <2>1, DownAt
  <2>3. CASE i \in 1..n BY <1>4, <2>2, <2>3, DownAt
  <2>4. CASE i = n + 1
    <3>1. Top - i + 1 = Top - n BY <1>1, <2>4
    <3> QED BY <1>4, <2>2, <2>4, <3>1
  <2>5. i \in 1..n \/ i = n + 1 OBVIOUS
  <2> QED BY <2>3, <2>4, <2>5, ZenonT(60)
<1>6. Append(Down(n), Top - n) = Down(n + 1) BY <1>3, <1>4, <1>5, SeqEqual
<1> QED BY <1>2, <1>6

\* The fetch h is g after tipset t has joined its chain.
Joined(g, h, t) ==
    /\ h \in Fetch /\ h.want = g.want /\ h.peer = g.peer /\ h.tried = g.tried
    /\ h.depth = g.depth /\ h.level = g.level /\ h.cut = g.cut
    /\ h.out = Append(g.out, t)
    /\ \/ h.pc = "failed" /\ h.err = "done"
       \/ h.pc = "returned" /\ h.err = g.err /\ t = Stop
       \/ h.pc = g.pc /\ h.err = g.err /\ t # Stop

\* A tipset joins the chain.
LEMMA Accepted ==
    ASSUME NEW g \in Fetch, NEW t \in Int
    PROVE  Joined(g, Accept(g, t), t)
<1> DEFINE o == Append(g.out, t)
           a == [g EXCEPT !.out = o]
<1>1. o \in Seq(Int) BY AppendProperties, ZenonT(60) DEF Fetch
<1> HIDE DEF o
<1>2. a \in Fetch BY <1>1, ZenonT(60) DEF Fetch
<1>3. a = [g EXCEPT !.out = Append(@, t)] BY ZenonT(60) DEF Fetch, Joined, o
<1>4. CASE t \in world.refused
  <2>1. Accept(g, t) = [a EXCEPT !.pc = "failed", !.err = "done"] BY <1>3, <1>4, ZenonT(60) DEF Accept, Failed
  <2> QED BY <1>1, <2>1, ZenonT(60) DEF Fetch, Joined, o
<1>5. CASE t \notin world.refused /\ t = Stop
  <2>1. Accept(g, t) = [a EXCEPT !.pc = "returned"] BY <1>3, <1>5, ZenonT(60) DEF Accept
  <2> QED BY <1>1, <1>5, <2>1, ZenonT(60) DEF Fetch, Joined, o
<1>6. CASE t \notin world.refused /\ t # Stop
  <2>1. Accept(g, t) = [a EXCEPT !.pc = a.pc] BY <1>3, <1>6, ZenonT(60) DEF Accept
  <2> QED BY <1>1, <1>6, <2>1, ZenonT(60) DEF Fetch, Joined, o
<1> QED BY <1>4, <1>5, <1>6

\* The chain so far, one tipset longer.
LEMMA ChainLonger ==
    ASSUME FetchInv, UNCHANGED <<world, store>>, NEW t \in 1..Top, t = Top - Len(f.out),
           ~loadAndVerify(t).err, loadAndVerify(t).incomplete = {},
           f'.out = Append(f.out, t)
    PROVE  /\ f'.out = Down(Len(f'.out)) /\ Len(f'.out) = Len(f.out) + 1
           /\ \A i \in 1..Len(f'.out) : \A b \in BlocksOf(Top - i + 1) : Verified(b)'
<1>1. FetchType /\ RootsHeld /\ f.out = Down(Len(f.out)) BY DEF FetchInv, ChainSoFar
<1>2. PICK n \in Nat : n = Len(f.out) BY <1>1, LenProperties, ZenonT(60) DEF FetchType, Fetch
<1>3. f'.out = Down(n + 1) BY <1>1, <1>2, DownAppend, ZenonT(60)
<1>4. n + 1 \in Nat /\ Top \in Nat BY <1>1, <1>2, WorldFacts
<1>5. Len(f'.out) = n + 1 BY <1>3, <1>4, DownAppend, ZenonT(60)
<1>6. ASSUME NEW i \in 1..(n + 1), NEW b \in BlocksOf(Top - i + 1) PROVE Verified(b)'
  <2>1. CASE i \in 1..n
    <3>1. Verified(b) BY <1>2, <1>6, <2>1 DEF FetchInv, ChainSoFar
    <3> QED BY <3>1 DEF Verified, Stored, Header, Root, Message
  <2>2. CASE i = n + 1
    <3>1. Top - i + 1 = t BY <1>2, <1>4, <2>2
    <3>2. Verified(b) BY <1>1, <1>6, <3>1, LoadMeans, WorldFacts, ZenonT(60) DEF RootsHeld
    <3> QED BY <3>2 DEF Verified, Stored, Header, Root, Message
  <2>3. i \in 1..n \/ i = n + 1 BY <1>2
  <2> QED BY <2>1, <2>2, <2>3
<1> QED BY <1>2, <1>3, <1>5, <1>6

\* A step that leaves the world and the store alone keeps what is said of them.
LEMMA StoreSame ==
    ASSUME UNCHANGED <<world, store>>, NEW b
    PROVE  /\ Stored(b)' <=> Stored(b)
           /\ Verified(b)' <=> Verified(b)
           /\ Partial(b)' <=> Partial(b)
BY DEF Stored, Verified, Partial, Header, Root, Message

\* The state of no fetch.
LEMMA IdleFacts ==
    /\ Idle \in Fetch /\ Idle.pc = "idle" /\ Idle.want = {} /\ Idle.peer = Self
    /\ Idle.tried = {} /\ Idle.out = <<>> /\ Idle.depth = 1 /\ Idle.level = 0
    /\ Idle.err = "" /\ Idle.cut = {}
<1>1. PICK e \in Seq(Int) : e = <<>> BY EmptySeq, ZenonT(60)
<1>2. Self \in Asked BY DEF Asked
<1>3. PICK i \in Fetch : i = [pc |-> "idle", want |-> {}, peer |-> Self, tried |-> {}, out |-> e,
                            depth |-> 1, level |-> 0, err |-> "", cut |-> {}]
  BY <1>1, <1>2, ZenonT(60) DEF Fetch
<1>4. Idle = i BY <1>1, <1>3, ZenonT(60) DEF Idle
<1> QED BY <1>1, <1>3, <1>4, ZenonT(60) DEF Fetch

\* A fetch is asked for.
LEMMA FetchTipSetsStep ==
    ASSUME DiscoveryInv, FetchInv, FetchTipSets
    PROVE  FetchInv'
<1> DEFINE w == {Header(b) : b \in BlocksOf(Top)}
           g == [Idle EXCEPT !.pc = "first", !.want = w]
<1>1. /\ UNCHANGED <<world, store>>
      /\ IF world.fetchFromSelf THEN f' = [g EXCEPT !.tried = {Self}] ELSE FindNextPeer(g)
  BY DEF FetchTipSets
<1>2. FetchType /\ RootsHeld BY DEF FetchInv
<1>3. w \in SUBSET Whole
  <2>1. ASSUME NEW b \in BlocksOf(Top) PROVE Header(b) \in Whole
    BY <1>2, WorldFacts, PartsInWhole DEF Parts
  <2> QED BY <2>1
<1> HIDE DEF w
<1>4. /\ g \in Fetch /\ g.pc = "first" /\ g.want = w /\ g.peer = Self /\ g.tried = {} /\ g.out = <<>>
      /\ g.depth = 1 /\ g.level = 0 /\ g.err = "" /\ g.cut = {}
  BY <1>3, IdleFacts, ZenonT(60) DEF Fetch
<1> HIDE DEF g
<1>5. /\ f' \in Fetch /\ f'.want = w /\ f'.out = <<>> /\ f'.depth = 1 /\ f'.level = 0
      /\ Past' \subseteq {Self}
      /\ \/ f'.pc = "failed" /\ f'.err = "no untried peers"
         \/ f'.pc = "first" /\ f'.err = "" /\ f'.peer \in f'.tried
  <2>1. CASE world.fetchFromSelf
    <3>1. f' = [g EXCEPT !.tried = {Self}] BY <1>1, <2>1
    <3>2. /\ f' \in Fetch /\ f'.want = w /\ f'.out = <<>> /\ f'.depth = 1 /\ f'.level = 0
          /\ f'.pc = "first" /\ f'.err = "" /\ f'.peer = Self /\ f'.tried = {Self}
      BY <1>4, <3>1, ZenonT(60) DEF Fetch, Asked
    <3> QED BY <3>2, ZenonT(60) DEF Past
  <2>2. CASE ~world.fetchFromSelf BY <1>1, <1>4, <2>2, NextPeer, ZenonT(60)
  <2> QED BY <2>1, <2>2, ZenonT(60)
<1>6. FetchType' BY <1>1, <1>2, <1>5, ZenonT(60) DEF FetchType
<1>7. RootsHeld'
  <2>1. \A b \in AllBlocks : Root(b) \in store' => Header(b) \in store' BY <1>1, <1>2 DEF RootsHeld
  <2>2. \A c \in f'.want : \E b \in BlocksOf(Top) : c = Header(b) BY <1>5, ZenonT(60) DEF w
  <2> QED BY <2>1, <2>2 DEF RootsHeld, AllBlocks, BlocksOf, Header, Root
<1>8. ChainSoFar'
  <2>1. Len(f'.out) = 0 BY <1>5, ZenonT(60)
  <2>2. f'.out = Down(0)
    <3>1. Down(0) \in Seq(Int) /\ Len(Down(0)) = 0 BY DownAppend
    <3>2. Down(0) = <<>> BY <3>1, EmptySeq
    <3> QED BY <1>5, <3>2, ZenonT(60)
  <2>3. f'.depth >= 1
    <3>1. f'.depth = 1 BY <1>5, ZenonT(60)
    <3> QED BY <3>1
  <2>4. \A i \in 1..Len(f'.out) : FALSE BY <2>1
  <2> QED BY <1>5, <2>1, <2>2, <2>3, <2>4, ZenonT(60) DEF ChainSoFar, Down
<1>9. PeersSoFar'
  <2>1. \A p \in Past' : ~Complete(p)' BY <1>2, <1>5, WorldFacts, ZenonT(60) DEF Complete
  <2>2. \A b \in BlocksOf(Top) : Header(b) \in f'.want BY <1>5, ZenonT(60) DEF w
  <2> QED BY <1>5, <2>1, <2>2, ZenonT(60) DEF PeersSoFar, BlocksOf, Header
<1> QED BY <1>6, <1>7, <1>8, <1>9 DEF FetchInv

\* A step that only changes the place of the fetch to an end.
LEMMA FetchFails ==
    ASSUME FetchInv, UNCHANGED <<world, store>>, f.pc \in {"checkFirst", "check"},
           f' = Failed(f, "invalid")
    PROVE  FetchInv'
<1>1. FetchType /\ f.err = "" BY ZenonT(60) DEF FetchInv, FetchType
<1>2. /\ f' \in Fetch /\ f'.pc = "failed" /\ f'.want = f.want /\ f'.peer = f.peer
      /\ f'.tried = f.tried /\ f'.out = f.out /\ f'.depth = f.depth /\ f'.level = f.level
      /\ f'.err = "invalid" /\ f'.cut = f.cut
  BY ZenonT(60) DEF FetchInv, FetchType, Fetch, Failed
<1>3. FetchType' BY <1>1, <1>2, ZenonT(60) DEF FetchType
<1>4. RootsHeld' BY <1>2 DEF FetchInv, RootsHeld, AllBlocks, BlocksOf, Header, Root
<1>5. ChainSoFar'
  <2>1. \A i \in 1..Len(f'.out) : \A b \in BlocksOf(Top - i + 1) : Verified(b)'
    BY <1>2, StoreSame, ZenonT(60) DEF FetchInv, ChainSoFar
  <2> QED BY <1>2, <2>1 DEF FetchInv, ChainSoFar, Down, BlocksOf
<1>6. Past' = Past BY <1>1, <1>2, ZenonT(60) DEF Past
<1>7. ASSUME NEW p \in Past', Complete(p)'
      PROVE  Len(f'.out) = 0 /\ \E b \in BlocksOf(Top) : Partial(b)'
  <2>1. Complete(p) BY <1>2, <1>7 DEF Complete
  <2>2. Len(f.out) = 0 /\ \E b \in BlocksOf(Top) : Partial(b) BY <1>6, <2>1 DEF FetchInv, PeersSoFar
  <2> QED BY <1>2, <2>2, StoreSame
<1>8. PeersSoFar' BY <1>2, <1>7, ZenonT(60) DEF PeersSoFar, BlocksOf
<1> QED BY <1>3, <1>4, <1>5, <1>8 DEF FetchInv

\* The answer to the first request is checked.
LEMMA FetchFirstTipsetStep ==
    ASSUME DiscoveryInv, FetchInv, fetchFirstTipset
    PROVE  FetchInv'
<1> DEFINE err == loadAndVerify(Top).err
           inc == loadAndVerify(Top).incomplete
<1>1. f.pc = "checkFirst" /\ UNCHANGED <<world, store>> BY DEF fetchFirstTipset
<1>2. FetchType /\ RootsHeld /\ ChainSoFar /\ PeersSoFar /\ f \in Fetch BY ZenonT(60) DEF FetchInv, FetchType
<1>0. Len(f.out) = 0 BY <1>1, <1>2 DEF ChainSoFar
<1>3. f.level = 0 /\ f.err = "" /\ f.depth \in Nat /\ f.depth >= 1 /\ f.peer \in f.tried
  BY <1>1, <1>2, ZenonT(60) DEF ChainSoFar, FetchType, Fetch
<1>4. Top \in 1..Top /\ Top \in Nat /\ Stop \in 1..Top /\ Stop \in Nat
      /\ world.mode \in {"full", "headers"}
  BY <1>2, WorldFacts
<1>5. /\ ~err /\ inc = {} => \A b \in BlocksOf(Top) : Verified(b) /\ ~Partial(b)
      /\ (\A b \in BlocksOf(Top) : Stored(b) \/ Partial(b)) =>
           inc = {} \/ \E b \in BlocksOf(Top) : Partial(b)
      /\ \A c \in inc : \E b \in BlocksOf(Top) : c = Header(b) \/ (c = Root(b) /\ Header(b) \in store)
      /\ \A b \in BlocksOf(Top) : /\ Header(b) \in inc \/ Stored(b) \/ Partial(b)
                                  /\ Partial(b) => Header(b) \notin inc
  BY <1>2, <1>4, LoadMeans, ZenonT(60) DEF RootsHeld
<1>6. CASE err
  <2>1. f' = Failed(f, "invalid") BY <1>6 DEF fetchFirstTipset
  <2> QED BY <1>1, <2>1, FetchFails
<1>7. CASE ~err /\ inc = {}
  <2> DEFINE g == [f EXCEPT !.pc = "recursive"]
  <2>1. f' = Accept(g, Top) BY <1>7 DEF fetchFirstTipset
  <2>2. /\ g \in Fetch /\ g.pc = "recursive" /\ g.want = f.want /\ g.peer = f.peer
        /\ g.tried = f.tried /\ g.out = f.out /\ g.depth = f.depth /\ g.level = 0
        /\ g.err = "" /\ g.cut = f.cut
    BY <1>2, <1>3, ZenonT(60) DEF Fetch
  <2> HIDE DEF g
  <2>3. /\ f' \in Fetch /\ f'.want = f.want /\ f'.peer = f.peer /\ f'.tried = f.tried
        /\ f'.depth = f.depth /\ f'.level = 0 /\ f'.cut = f.cut /\ f'.out = Append(f.out, Top)
        /\ \/ f'.pc = "failed" /\ f'.err = "done"
           \/ f'.pc = "returned" /\ f'.err = "" /\ Top = Stop
           \/ f'.pc = "recursive" /\ f'.err = "" /\ Top # Stop
    <3>1. Top \in Int BY <1>4
    <3>2. Joined(g, f', Top) BY <2>1, <2>2, <3>1, Accepted, ZenonT(60)
    <3> QED BY <2>2, <3>2, ZenonT(60) DEF Joined
  <2>4. /\ f'.out = Down(Len(f'.out)) /\ Len(f'.out) = Len(f.out) + 1
        /\ \A i \in 1..Len(f'.out) : \A b \in BlocksOf(Top - i + 1) : Verified(b)'
    <3>1. Top = Top - Len(f.out) BY <1>0, <1>4
    <3>2. f'.out = Append(f.out, Top) BY <2>3, ZenonT(60)
    <3> QED BY <1>1, <1>4, <1>7, <3>1, <3>2, ChainLonger
  <2>5. Len(f'.out) = 1
    <3>1. Len(f'.out) = Len(f.out) + 1 BY <2>4
    <3> QED BY <1>0, <3>1
  <2>6. FetchType' BY <1>1, <1>2, <1>3, <2>3, ZenonT(60) DEF FetchType
  <2>7. RootsHeld' BY <1>1, <1>2, <2>3, ZenonT(60) DEF RootsHeld, AllBlocks, BlocksOf, Header, Root
  <2>8. ChainSoFar'
    <3>1. f'.pc = "recursive" => 1 \in 1..(Top - Stop)
      <4>1. Top # Stop => 1 \in 1..(Top - Stop) BY <1>4
      <4>2. f'.pc = "recursive" => Top # Stop BY <2>3, ZenonT(60)
      <4> QED BY <4>1, <4>2
    <3>2. f'.pc = "returned" => 1 = Top - Stop + 1
      <4>1. Top = Stop => 1 = Top - Stop + 1 BY <1>4
      <4>2. f'.pc = "returned" => Top = Stop BY <2>3, ZenonT(60)
      <4> QED BY <4>1, <4>2
    <3>3. f'.depth >= 1
      <4>1. f'.depth = f.depth BY <2>3, ZenonT(60)
      <4> QED BY <1>3, <4>1, ZenonT(60)
    <3> QED BY <2>3, <2>4, <2>5, <3>1, <3>2, <3>3, ZenonT(60) DEF ChainSoFar, Down, BlocksOf
  <2>9. Past' = Past BY <1>3, <2>3, ZenonT(60) DEF Past
  <2>10. \A p \in Past' : ~Complete(p)'
    <3>1. ASSUME NEW p \in Past', Complete(p)' PROVE FALSE
      <4>1. Complete(p) BY <1>1, <2>3, <3>1, ZenonT(60) DEF Complete
      <4>2. \E b \in BlocksOf(Top) : Partial(b) BY <1>2, <2>9, <4>1, ZenonT(60) DEF PeersSoFar
      <4> QED BY <1>5, <1>7, <4>2, ZenonT(60)
    <3> QED BY <3>1
  <2>11. PeersSoFar' BY <2>3, <2>10, ZenonT(60) DEF PeersSoFar
  <2> QED BY <2>6, <2>7, <2>8, <2>11 DEF FetchInv
<1>8. CASE ~err /\ inc # {}
  <2> DEFINE g == [f EXCEPT !.pc = "first", !.want = inc]
  <2>1. FindNextPeer(g) BY <1>8 DEF fetchFirstTipset
  <2>2. inc \in SUBSET Whole
    <3>1. ASSUME NEW c \in inc PROVE c \in Whole
      <4>1. PICK b \in BlocksOf(Top) : c = Header(b) \/ c = Root(b) BY <1>5, ZenonT(60)
      <4> QED BY <1>4, <4>1, PartsInWhole DEF Parts
    <3> QED BY <3>1
  <2>3. /\ g \in Fetch /\ g.pc = "first" /\ g.want = inc /\ g.peer = f.peer
        /\ g.tried = f.tried /\ g.out = f.out /\ g.depth = f.depth /\ g.level = f.level
        /\ g.err = "" /\ g.cut = f.cut
    <3> HIDE DEF inc
    <3> QED BY <1>2, <1>3, <2>2, ZenonT(60) DEF Fetch
  <2> HIDE DEF g
  <2>4. /\ f' \in Fetch /\ f'.want = inc /\ f'.out = f.out /\ f'.depth = f.depth
        /\ f'.level = f.level /\ f'.cut = f.cut /\ Past' = f.tried
        /\ \/ f'.pc = "failed" /\ f'.err = "no untried peers"
           \/ f'.pc = "first" /\ f'.err = "" /\ f'.peer \in f'.tried
    <3> HIDE DEF inc
    <3> QED BY <2>1, <2>3, NextPeer, ZenonT(60)
  <2> HIDE DEF err, inc
  <2>5. FetchType' BY <1>1, <1>2, <2>4, ZenonT(60) DEF FetchType
  <2>6. RootsHeld'
    <3>1. \A b \in AllBlocks : Root(b) \in store' => Header(b) \in store' BY <1>1, <1>2 DEF RootsHeld
    <3>2. \A c \in f'.want : \E b \in BlocksOf(Top) :
            c = Header(b) \/ (c = Root(b) /\ Header(b) \in store')
      BY <1>1, <1>5, <2>4, ZenonT(60)
    <3> QED BY <3>1, <3>2 DEF RootsHeld, AllBlocks, BlocksOf, Header, Root
  <2>7. ChainSoFar'
    <3>1. \A i \in 1..Len(f'.out) : \A b \in BlocksOf(Top - i + 1) : Verified(b)'
      BY <1>1, <1>2, <2>4, StoreSame, ZenonT(60) DEF ChainSoFar
    <3> QED BY <1>0, <1>1, <1>2, <1>3, <2>4, <3>1, ZenonT(60) DEF ChainSoFar, Down, BlocksOf
  <2>8. ASSUME NEW p \in Past', Complete(p)'
        PROVE  Len(f'.out) = 0 /\ \E b \in BlocksOf(Top) : Partial(b)'
    <3>1. Complete(p) /\ p \in f.tried BY <1>1, <2>4, <2>8, ZenonT(60) DEF Complete
    <3>2. \E b \in BlocksOf(Top) : Partial(b)
      <4>1. CASE p = f.peer
        <5>1. \A b \in BlocksOf(Top) : Stored(b) \/ Partial(b)
          BY <1>1, <1>2, <3>1, <4>1 DEF PeersSoFar
        <5> QED BY <1>5, <1>8, <5>1
      <4>2. CASE p # f.peer
        <5>1. p \in Past BY <1>3, <3>1, <4>2, ZenonT(60) DEF Past
        <5> QED BY <1>2, <3>1, <5>1 DEF PeersSoFar
      <4> QED BY <4>1, <4>2
    <3> QED BY <1>0, <1>1, <2>4, <3>2, StoreSame, ZenonT(60)
  <2>9. /\ \A b \in BlocksOf(Top) : Header(b) \in f'.want \/ Stored(b)' \/ Partial(b)'
        /\ \A b \in BlocksOf(Top) : Partial(b)' => Header(b) \notin f'.want
    BY <1>1, <1>5, <2>4, StoreSame, ZenonT(60)
  <2>10. PeersSoFar' BY <2>4, <2>8, <2>9, ZenonT(60) DEF PeersSoFar, BlocksOf, Header
  <2> QED BY <2>5, <2>6, <2>7, <2>10 DEF FetchInv
<1> QED BY <1>6, <1>7, <1>8

\* The next tipset of an answer is checked.
LEMMA FetchRemainingTipsetsStep ==
    ASSUME DiscoveryInv, FetchInv, fetchRemainingTipsets
    PROVE  FetchInv'
<1> DEFINE t == anchor - 1
           err == loadAndVerify(t).err
           inc == loadAndVerify(t).incomplete
           deeper == IF f.depth < maxRecursionDepth THEN f.depth * recursionMultiplier ELSE f.depth
           e == [f EXCEPT !.level = @ + 1]
           g == Accept(e, t)
<1>1. f.pc = "check" /\ UNCHANGED <<world, store>> BY DEF fetchRemainingTipsets
<1>2. FetchType /\ RootsHeld /\ ChainSoFar /\ PeersSoFar /\ f \in Fetch BY ZenonT(60) DEF FetchInv, FetchType
<1>3. f.err = "" /\ f.peer \in f.tried BY <1>1, <1>2, ZenonT(60) DEF FetchType
<1>4. f.depth \in Nat /\ f.level \in Nat /\ f.level < f.depth /\ f.depth >= 1
  BY <1>1, <1>2, ZenonT(60) DEF ChainSoFar, Fetch
<1>5. Top \in Nat /\ Stop \in Nat /\ Stop >= 1 /\ world.mode \in {"full", "headers"}
  BY <1>2, WorldFacts
<1>6. PICK n \in Nat : n = Len(f.out) /\ n \in 1..(Top - Stop)
  BY <1>1, <1>2, <1>5 DEF ChainSoFar
<1>7. t = Top - n /\ t \in 1..Top /\ t \in Int /\ t >= Stop
  <2>1. anchor = Down(n)[n] BY <1>2, <1>6 DEF ChainSoFar, anchor
  <2>2. anchor = Top - n + 1 BY <1>6, <2>1, DownAt
  <2>3. t = Top - n BY <1>5, <2>2
  <2>4. Top - n \in 1..Top /\ Top - n \in Int /\ Top - n >= Stop BY <1>5, <1>6
  <2> QED BY <2>3, <2>4
<1>8. \A p \in Past : ~Complete(p)
  <2>1. Len(f.out) # 0 BY <1>6
  <2> QED BY <1>2, <2>1 DEF PeersSoFar
<1>9. Past = f.tried \ {f.peer} BY <1>3, ZenonT(60) DEF Past
<1>10. /\ (\A b \in BlocksOf(t) : Stored(b)) => inc = {}
  BY <1>2, <1>5, <1>7, LoadMeans, ZenonT(60) DEF RootsHeld
<1>11. CASE err
  <2>1. f' = Failed(f, "invalid") BY <1>11 DEF fetchRemainingTipsets
  <2> QED BY <1>1, <2>1, FetchFails
<1>12. CASE ~err /\ inc # {}
  <2> DEFINE h == [f EXCEPT !.pc = "recursive", !.level = 0]
  <2>1. FindNextPeer(h) BY <1>12 DEF fetchRemainingTipsets
  <2>2. /\ h \in Fetch /\ h.pc = "recursive" /\ h.want = f.want
        /\ h.tried = f.tried /\ h.out = f.out /\ h.depth = f.depth /\ h.level = 0
        /\ h.err = "" /\ h.cut = f.cut
    BY <1>2, <1>3, ZenonT(60) DEF Fetch
  <2> HIDE DEF h
  <2>3. /\ f' \in Fetch /\ f'.want = f.want /\ f'.out = f.out /\ f'.depth = f.depth
        /\ f'.level = 0 /\ f'.cut = f.cut /\ Past' = f.tried
        /\ \/ f'.pc = "failed" /\ f'.err = "no untried peers"
           \/ f'.pc = "recursive" /\ f'.err = "" /\ f'.peer \in f'.tried
    BY <2>1, <2>2, NextPeer, ZenonT(60)
  <2>4. FetchType' BY <1>1, <1>2, <2>3, ZenonT(60) DEF FetchType
  <2>5. RootsHeld' BY <1>1, <1>2, <2>3, ZenonT(60) DEF RootsHeld, AllBlocks, BlocksOf, Header, Root
  <2>6. ChainSoFar'
    <3>1. \A i \in 1..Len(f'.out) : \A b \in BlocksOf(Top - i + 1) : Verified(b)'
      BY <1>1, <1>2, <2>3, StoreSame, ZenonT(60) DEF ChainSoFar
    <3> QED BY <1>1, <1>2, <2>3, <3>1, ZenonT(60) DEF ChainSoFar, Down, BlocksOf
  <2>7. ~Complete(f.peer)
    <3>1. SUFFICES ASSUME Complete(f.peer) PROVE FALSE OBVIOUS
    <3>2. 1 \in 1..(f.depth - f.level) /\ Top - Len(f.out) + 1 - 1 = t
      BY <1>4, <1>5, <1>6, <1>7
    <3>3. t >= 1 BY <1>7
    <3>4. \A b \in BlocksOf(t) : Stored(b) BY <1>1, <1>2, <3>1, <3>2, <3>3 DEF PeersSoFar
    <3> QED BY <1>10, <1>12, <3>4
  <2>8. ASSUME NEW p \in Past', Complete(p)' PROVE FALSE
    <3>1. Complete(p) /\ p \in f.tried BY <1>1, <2>3, <2>8, ZenonT(60) DEF Complete
    <3> QED BY <1>8, <1>9, <2>7, <3>1
  <2>9. PeersSoFar' BY <2>3, <2>8, ZenonT(60) DEF PeersSoFar
  <2> QED BY <2>4, <2>5, <2>6, <2>9 DEF FetchInv
<1>13. CASE ~err /\ inc = {}
  <2>1. f' = IF g.pc = "check" /\ g.level = f.depth
             THEN [g EXCEPT !.pc = "recursive", !.level = 0, !.depth = deeper] ELSE g
    BY <1>13 DEF fetchRemainingTipsets
  <2>2. /\ e \in Fetch /\ e.pc = "check" /\ e.want = f.want /\ e.peer = f.peer
        /\ e.tried = f.tried /\ e.out = f.out /\ e.depth = f.depth /\ e.level = f.level + 1
        /\ e.err = "" /\ e.cut = f.cut
    <3>1. PICK l \in Nat : l = f.level + 1 BY <1>4
    <3>2. e = [f EXCEPT !.level = l] BY <3>1
    <3> HIDE DEF e
    <3> QED BY <1>1, <1>2, <1>3, <3>1, <3>2, ZenonT(60) DEF Fetch
  <2> HIDE DEF e, t
  <2>3. Joined(e, g, t) BY <1>7, <2>2, Accepted, ZenonT(60)
  <2> HIDE DEF g
  <2>4. /\ g \in Fetch /\ g.want = f.want /\ g.peer = f.peer /\ g.tried = f.tried
        /\ g.depth = f.depth /\ g.level = f.level + 1 /\ g.cut = f.cut
        /\ g.out = Append(f.out, t)
        /\ \/ g.pc = "failed" /\ g.err = "done"
           \/ g.pc = "returned" /\ g.err = "" /\ t = Stop
           \/ g.pc = "check" /\ g.err = "" /\ t # Stop
    BY <2>2, <2>3, ZenonT(60) DEF Joined
  <2>5. deeper \in Nat /\ deeper >= 1 BY <1>4 DEF maxRecursionDepth, recursionMultiplier
  <2> HIDE DEF deeper
  <2>6. /\ f' \in Fetch /\ f'.want = f.want /\ f'.peer = f.peer /\ f'.tried = f.tried
        /\ f'.cut = f.cut /\ f'.out = Append(f.out, t)
        /\ \/ /\ f'.pc = "recursive" /\ f'.level = 0 /\ f'.depth = deeper
              /\ f'.err = "" /\ t # Stop
           \/ /\ f'.pc = "check" /\ f'.level = f.level + 1 /\ f'.depth = f.depth
              /\ f'.level # f.depth /\ f'.err = "" /\ t # Stop
           \/ f'.pc = "returned" /\ f'.depth = f.depth /\ f'.err = "" /\ t = Stop
           \/ f'.pc = "failed" /\ f'.depth = f.depth /\ f'.err = "done"
    <3>1. CASE g.pc = "check" /\ g.level = f.depth
      <4>1. f' = [g EXCEPT !.pc = "recursive", !.level = 0, !.depth = deeper] BY <2>1, <3>1
      <4> QED BY <2>4, <2>5, <3>1, <4>1, ZenonT(60) DEF Fetch
    <3>2. CASE ~(g.pc = "check" /\ g.level = f.depth)
      <4>1. f' = g BY <2>1, <3>2
      <4> QED BY <2>4, <3>2, <4>1, ZenonT(60)
    <3> QED BY <3>1, <3>2, ZenonT(60)
  <2>7. /\ f'.out = Down(Len(f'.out)) /\ Len(f'.out) = Len(f.out) + 1
        /\ \A i \in 1..Len(f'.out) : \A b \in BlocksOf(Top - i + 1) : Verified(b)'
    <3>1. t = Top - Len(f.out) BY <1>6, <1>7
    <3>2. f'.out = Append(f.out, t) BY <2>6, ZenonT(60)
    <3> QED BY <1>1, <1>7, <1>13, <3>1, <3>2, ChainLonger
  <2>8. FetchType' BY <1>1, <1>2, <1>3, <2>6, ZenonT(60) DEF FetchType
  <2>9. RootsHeld' BY <1>1, <1>2, <2>6, ZenonT(60) DEF RootsHeld, AllBlocks, BlocksOf, Header, Root
  <2>10. Len(f'.out) = n + 1
    <3>1. Len(f'.out) = Len(f.out) + 1 BY <2>7
    <3> QED BY <1>6, <3>1
  <2>11. ChainSoFar'
    <3>1. t # Stop => n + 1 \in 1..(Top - Stop) BY <1>5, <1>6, <1>7
    <3>2. t = Stop => n + 1 = Top - Stop + 1 BY <1>5, <1>6, <1>7
    <3>3. f'.depth >= 1
      <4>1. f'.depth = deeper \/ f'.depth = f.depth BY <2>6, ZenonT(60)
      <4> QED BY <1>4, <2>5, <4>1
    <3>4. f'.pc = "check" => f'.level < f'.depth
      <4>1. f'.pc = "check" => f'.level = f.level + 1 /\ f'.depth = f.depth /\ f'.level # f.depth
        BY <2>6, ZenonT(60)
      <4> QED BY <1>4, <4>1
    <3>5. /\ f'.pc \in {"recursive", "check"} => t # Stop
          /\ f'.pc = "returned" => t = Stop
          /\ f'.pc \notin {"idle", "first", "checkFirst"}
          /\ f'.pc = "recursive" => f'.level = 0
      BY <2>6, ZenonT(60)
    <3> QED BY <2>7, <2>10, <3>1, <3>2, <3>3, <3>4, <3>5 DEF ChainSoFar, Down, BlocksOf
  <2>12. Past' = Past BY <1>3, <2>6, ZenonT(60) DEF Past
  <2>13. ASSUME NEW p \in Past', Complete(p)' PROVE FALSE
    <3>1. Complete(p) BY <1>1, <2>6, <2>13, ZenonT(60) DEF Complete
    <3> QED BY <1>8, <2>12, <2>13, <3>1
  <2>14. ASSUME f'.pc = "check", Complete(f.peer)', NEW j \in 1..(f'.depth - f'.level),
                Top - Len(f'.out) + 1 - j >= 1, NEW b \in BlocksOf(Top - Len(f'.out) + 1 - j)
         PROVE  Stored(b)'
    <3>1. Complete(f.peer) BY <1>1, <2>6, <2>14, ZenonT(60) DEF Complete
    <3>2. f'.level = f.level + 1 /\ f'.depth = f.depth BY <2>6, <2>14, ZenonT(60)
    <3>3. PICK k \in Nat : k = j + 1
      <4>1. f.depth - (f.level + 1) \in Int /\ j \in 1..(f.depth - (f.level + 1)) BY <1>4, <3>2
      <4>2. j + 1 \in Nat BY <4>1
      <4> QED BY <4>2
    <3>4. k \in 1..(f.depth - f.level) BY <1>4, <3>2, <3>3
    <3>5. Top - Len(f'.out) + 1 - j = Top - Len(f.out) + 1 - k BY <1>5, <1>6, <2>10, <3>3
    <3>6. Stored(b) BY <1>1, <1>2, <2>14, <3>1, <3>4, <3>5 DEF PeersSoFar
    <3> QED BY <1>1, <3>6, StoreSame
  <2>15. f'.pc \notin {"first", "checkFirst"} BY <2>6, ZenonT(60)
  <2>16. f'.pc = "check" /\ Complete(f.peer)' =>
           \A j \in 1..(f'.depth - f'.level) : Top - Len(f'.out) + 1 - j >= 1 =>
             \A b \in BlocksOf(Top - Len(f'.out) + 1 - j) : Stored(b)'
    BY <2>14
  <2>17. PeersSoFar' BY <2>13, <2>15, <2>16, ZenonT(60) DEF PeersSoFar, BlocksOf
  <2> QED BY <2>8, <2>9, <2>11, <2>17 DEF FetchInv
<1> QED BY <1>11, <1>12, <1>13

\* FetchInv holds in every reachable state.
LEMMA FetchAlways == Spec => []FetchInv
<1>1. Init => FetchInv
  <2> SUFFICES ASSUME Init PROVE FetchInv OBVIOUS
  <2>1. world \in Worlds /\ store = {} /\ f = Idle BY DEF Init
  <2>2. FetchType BY <2>1, IdleFacts, ZenonT(60) DEF FetchType
  <2>3. RootsHeld BY <2>1, IdleFacts, ZenonT(60) DEF RootsHeld
  <2>4. ChainSoFar
    <3>1. Down(0) = <<>> BY DownAppend, EmptySeq
    <3>2. Len(f.out) = 0 /\ f.out = Down(0) BY <2>1, <3>1, IdleFacts, ZenonT(60)
    <3>3. f.depth >= 1
      <4>1. f.depth = 1 BY <2>1, IdleFacts, ZenonT(60)
      <4> QED BY <4>1
    <3>4. f.pc = "idle" /\ f.level = 0 BY <2>1, IdleFacts, ZenonT(60)
    <3>5. \A i \in 1..Len(f.out) : FALSE BY <3>2
    <3> QED BY <3>2, <3>3, <3>4, <3>5 DEF ChainSoFar
  <2>5. PeersSoFar
    <3>1. f.pc = "idle" /\ f.tried = {} /\ f.err = "" BY <2>1, IdleFacts, ZenonT(60)
    <3>2. Past = {} BY <3>1, ZenonT(60) DEF Past
    <3> QED BY <3>1, <3>2, ZenonT(60) DEF PeersSoFar
  <2> QED BY <2>2, <2>3, <2>4, <2>5 DEF FetchInv
<1>2. DiscoveryInv /\ FetchInv /\ [Next]_vars => FetchInv'
  <2> SUFFICES ASSUME DiscoveryInv, FetchInv, [Next]_vars PROVE FetchInv' OBVIOUS
  <2>1. CASE FetchTipSets BY <2>1, FetchTipSetsStep
  <2>2. CASE fetchBlocks BY <2>2, FetchBlocksStep
  <2>3. CASE fetchFirstTipset BY <2>3, FetchFirstTipsetStep
  <2>4. CASE fetchBlocksRecursively BY <2>4, FetchBlocksRecursivelyStep
  <2>5. CASE fetchRemainingTipsets BY <2>5, FetchRemainingTipsetsStep
  <2>6. CASE UNCHANGED fetchVars
    <3>1. FetchType' BY <2>6, ZenonT(60) DEF FetchInv, FetchType, fetchVars
    <3>2. RootsHeld' BY <2>6 DEF FetchInv, RootsHeld, fetchVars
    <3>3. ChainSoFar' BY <2>6 DEF FetchInv, ChainSoFar, Verified, Stored, fetchVars
    <3>4. PeersSoFar'
      BY <2>6, ZenonT(60) DEF FetchInv, PeersSoFar, Past, Complete, Partial, Stored, fetchVars
    <3> QED BY <3>1, <3>2, <3>3, <3>4 DEF FetchInv
  <2> QED BY <2>1, <2>2, <2>3, <2>4, <2>5, <2>6 DEF Next, vars
<1> QED BY <1>1, <1>2, DiscoveryAlways, PTL DEF Spec

\* The invariants give what FetchIsExact says of one state.
LEMMA InvIsExact ==
    ASSUME DiscoveryInv, FetchInv
    PROVE  FetchIsExact
<1>1. FetchType /\ RootsHeld /\ ChainSoFar /\ PeersSoFar BY DEF FetchInv
<1>2. Top \in Nat /\ Stop \in Nat /\ Stop >= 1 /\ Stop <= Top BY <1>1, WorldFacts
<1>3. TypeOK
  <2>1. \A p \in Peers : Len(hellos[p]) <= MaxHellos BY DEF DiscoveryInv, NetInv, HellosOK
  <2>2. start \in Range(Stages)
    <3>1. /\ Stages[1] = "new" /\ Stages[2] = "bootstrap" /\ Stages[3] = "disconnects"
          /\ Stages[4] = "wait" /\ Stages[5] = "ready" /\ DOMAIN Stages = 1..5
      BY DEF Stages
    <3>2. start \in StageNames BY DEF DiscoveryInv, NetInv
    <3>3. \A i \in 1..5 : Stages[i] \in Range(Stages) BY <3>1 DEF Range
    <3>4. 1 \in 1..5 /\ 2 \in 1..5 /\ 3 \in 1..5 /\ 4 \in 1..5 /\ 5 \in 1..5 OBVIOUS
    <3> QED BY <3>1, <3>2, <3>3, <3>4, ZenonT(60) DEF StageNames
  <2>3. f.pc # "idle" /\ f.err # "no untried peers" => f.peer \in f.tried BY <1>1, ZenonT(60) DEF FetchType
  <2> QED BY <1>1, <2>1, <2>2, <2>3, ZenonT(60) DEF TypeOK, DiscoveryInv, NetInv, FetchType
<1>4. FetchedIsChain
  <2> SUFFICES ASSUME f.pc = "returned" PROVE FetchedIsChain BY DEF FetchedIsChain
  <2>1. Len(f.out) = Top - Stop + 1 /\ f.out = Down(Len(f.out)) BY <1>1 DEF ChainSoFar
  <2>2. f.out = [i \in 1..(Top - Stop + 1) |-> Top - i + 1] BY <2>1 DEF Down
  <2>3. ASSUME NEW u \in Stop..Top, NEW b \in BlocksOf(u) PROVE Verified(b)
    <3>1. PICK i \in Nat : i = Top - u + 1 BY <1>2
    <3>2. i \in 1..(Top - Stop + 1) /\ Top - i + 1 = u BY <1>2, <3>1
    <3> QED BY <1>1, <2>1, <2>3, <3>2 DEF ChainSoFar
  <2>4. ASSUME NEW b \in UNION {BlocksOf(u) : u \in Stop..Top}
        PROVE  /\ Header(b) \in store /\ b \notin world.badHeaders
               /\ world.mode = "full" => Parts(b) \subseteq store /\ b \notin world.badMessages
    BY <2>3 DEF Verified, Stored, Parts
  <2> QED BY <2>2, <2>4 DEF FetchedIsChain
<1>5. CompletePeerSuffices
  <2> SUFFICES ASSUME NEW p \in Past, p \in Peers, world.has[p] = Whole, p \notin f.cut
               PROVE  PartialList
    BY ZenonT(60) DEF CompletePeerSuffices, Past
  <2>1. Len(f.out) = 0 /\ \E b \in BlocksOf(Top) : Partial(b) BY <1>1, ZenonT(60) DEF PeersSoFar, Complete
  <2>2. f.out = <<>>
    <3>1. f.out \in Seq(Int) BY <1>1, ZenonT(60) DEF FetchType, Fetch
    <3> QED BY <2>1, <3>1, EmptySeq
  <2> QED BY <2>1, <2>2 DEF PartialList, Partial
<1> QED BY <1>3, <1>4, <1>5 DEF FetchIsExact

\* A fetch returns exactly the chain asked for, stored whole and valid, however
\* its parts were put together from peers that lack some, stop or vanish; and no
\* peer with the whole chain that answers in full is passed over.
THEOREM FetchesAreExact == Spec => []FetchIsExact
<1>1. DiscoveryInv /\ FetchInv => FetchIsExact BY InvIsExact
<1> QED BY <1>1, DiscoveryAlways, FetchAlways, PTL
=============================================================================
