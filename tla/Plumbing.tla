------------------------------ MODULE Plumbing ------------------------------
(***************************************************************************)
(* The services the API commands of a node are built from: the config, the *)
(* wallet, the outbox, the message pool, reads of the chain state at the   *)
(* head, the head events of the chain store and the message waiter         *)
(* (internal/app/go-filecoin/plumbing).  Every command is run by a client  *)
(* of its own; each operator Xxx(c, k) below is the call k made by client  *)
(* c, one step of that client that either returns or fails the command.    *)
(*                                                                         *)
(* The chain only grows here (no fork is chosen), and what the actors do   *)
(* with a message is reduced to what the commands read back.               *)
(***************************************************************************)
EXTENDS Integers, Sequences, FiniteSets, SequencesExt, TLC

CONSTANTS Clients,      \* the concurrent callers of the API
          Capacity,     \* buffer of a head event subscription (128 in the code)
          MaxHeight,    \* bound: tipsets of the chain
          MaxJump       \* bound: tipsets one new head may add

ASSUME PlumbingAssumption ==
    Capacity \in Nat \ {0} /\ MaxHeight \in Nat /\ MaxJump \in Nat \ {0}

VARIABLES config,       \* repo config: minerAddress, storagePrice, defaultAddress
          keys,         \* addresses whose keys the wallet holds
          node,         \* mining, sector builders made, worker, storage miner
          nonceLock,    \* the client inside Outbox.Send, or Nobody
          queue,        \* outbox: sender -> messages sent and not yet seen mined
          outgoing,     \* messages whose publish goroutine has not run
          pool,         \* the message pool
          network,      \* messages broadcast, which any miner may include
          chain,        \* tipsets from genesis: [msgs, exits, state, head], where head
                        \* says that the tipset was itself made the head
          events,       \* the head event publisher: [subs, head, left, pubbed]
          inbox,        \* subscriber -> heads delivered and not yet taken
          handled,      \* the head the node's head handler last took
          local         \* the state of each client's command

walletVars == <<config, keys>>
msgVars    == <<nonceLock, queue, outgoing, pool, network>>
chainVars  == <<chain, events, inbox, handled>>

Nobody == ""            \* the empty address, and no client
Node == "node"          \* the subscriber of handleNewChainHeads
Subscribers == Clients \union {Node}
Broker == "broker"      \* the payment broker actor
Market == "market"      \* the storage market actor

Height == Len(chain)
State == chain[Height].state
MinedBy(h) == UNION {Range(chain[i].msgs) : i \in 1..h}

KeyAddresses == {"a", "b", "c"}

\* The wallet lists its addresses always in the same order.
Addresses(ks) == SelectSeq(<<"a", "b", "c">>, LAMBDA a : a \in ks)

-----------------------------------------------------------------------------
(* The command a client is running *)

\* The fields a call may set; the command's reply is "" until it is made.
\* known: whether the message asked about had been sent when the command began.
Idle == [at |-> 0, from |-> Nobody, miner |-> Nobody, nonce |-> 0, sent |-> <<>>,
         exit |-> 0, make |-> TRUE, seen |-> {}, todo |-> <<>>, ans |-> <<>>,
         height |-> 0, since |-> 1, known |-> FALSE, reply |-> ""]

Return(c, l) == local' = [local EXCEPT ![c] = [l EXCEPT !.at = @ + 1]]
Fail(c) == local' = [local EXCEPT ![c].reply = "error"]

\* The address a call is about: the one given, the sender, or the miner read
\* from the config.
Sender == "sender"
About(c, k) == CASE k.of = Nobody -> local[c].miner
                 [] k.of = Sender -> local[c].from
                 [] OTHER -> k.of

-----------------------------------------------------------------------------
(* What the commands can see of the actors *)

Account(st, a) == a \in DOMAIN st.nonce
NewMiner(st) == <<"m1", "m2", "m3">>[Cardinality(DOMAIN st.miners) + 1]

\* The state a message leaves, its exit code and the address it returns.
Exit(st, code) == [state |-> st, exit |-> code, ret |-> Nobody]
WithMiner(st, m, guard, f) ==
    IF m.to \in DOMAIN st.miners /\ guard
    THEN Exit([st EXCEPT !.miners = (m.to :> f) @@ @], 0) ELSE Exit(st, 1)

createStorageMiner(st, m) ==
    [state |-> [st EXCEPT !.miners = (NewMiner(st) :> [owner |-> m.from, worker |-> m.from,
                                                       peer |-> m.arg, asks |-> <<>>]) @@ @],
     exit |-> 0, ret |-> NewMiner(st)]
AddAsk(st, m) ==
    WithMiner(st, m, m.from = st.miners[m.to].worker,
              [st.miners[m.to] EXCEPT !.asks = Append(@, m.arg)])
ChangeWorker(st, m) ==
    WithMiner(st, m, m.from = st.miners[m.to].owner, [st.miners[m.to] EXCEPT !.worker = m.arg])
UpdatePeerID(st, m) ==
    WithMiner(st, m, m.from = st.miners[m.to].worker, [st.miners[m.to] EXCEPT !.peer = m.arg])

\* A channel is the sequence of methods that took effect on it.
OnChannel(st, m) ==
    LET own == st.channels[m.from]
    IN  CASE m.method = "createChannel" ->
               Exit([st EXCEPT !.channels[m.from] = Append(own, <<m.method>>)], 0)
          [] m.method # "createChannel" /\ own # <<>> ->
               Exit([st EXCEPT !.channels[m.from][Len(own)] = Append(@, m.method)], 0)
          [] OTHER -> Exit(st, 1)

\* A message applied: its nonce is used whatever its exit code.  "cheap" stands
\* for a gas limit that covers no charge.
Applied(st, m) ==
    LET next == [st EXCEPT !.nonce[m.from] = @ + 1]
    IN  IF m.arg = "cheap" THEN Exit(next, 1)
        ELSE CASE m.method = "createStorageMiner" -> createStorageMiner(next, m)
               [] m.method = "addAsk" -> AddAsk(next, m)
               [] m.method = "changeWorker" -> ChangeWorker(next, m)
               [] m.method = "updatePeerID" -> UpdatePeerID(next, m)
               [] m.to = Broker -> OnChannel(next, m)
               [] OTHER -> Exit(next, 0)

-----------------------------------------------------------------------------
(* Config and wallet *)

\* ConfigGet of the miner address.  k.must says what the caller accepts:
\* "empty" (a miner may be created), "set" (MiningAddress) or "any".
ConfigGet(c, k) ==
    /\ IF \/ k.must = "empty" /\ config.minerAddress # Nobody
          \/ k.must = "set" /\ config.minerAddress = Nobody
       THEN Fail(c)
       ELSE Return(c, [local[c] EXCEPT !.miner = config.minerAddress])
    /\ UNCHANGED <<walletVars, node, msgVars, chainVars>>

\* ConfigSet replaces one value of the config file under the config's lock: the
\* value given, or the miner just created.
ConfigSet(c, k) ==
    /\ config' = [config EXCEPT ![k.field] = IF "value" \in DOMAIN k THEN k.value
                                             ELSE local[c].miner]
    /\ Return(c, local[c])
    /\ UNCHANGED <<keys, node, msgVars, chainVars>>

\* WalletDefaultAddress reads the configured default ...
DefaultRead(c, k) ==
    /\ Return(c, [local[c] EXCEPT !.from = config.defaultAddress])
    /\ UNCHANGED <<walletVars, node, msgVars, chainVars>>

\* ... and when there is none makes the first address of the wallet the default.
DefaultPick(c, k) ==
    /\ UNCHANGED <<keys, node, msgVars, chainVars>>
    /\ CASE local[c].from # Nobody -> Return(c, local[c]) /\ UNCHANGED config
         [] local[c].from = Nobody /\ keys = {} -> Fail(c) /\ UNCHANGED config
         [] OTHER -> LET first == Addresses(keys)[1]
                     IN  /\ config' = [config EXCEPT !.defaultAddress = first]
                         /\ Return(c, [local[c] EXCEPT !.from = first])

\* NewAddress and ImportKey store a key in the one datastore backend.
putKeyInfo(c, k) ==
    /\ keys' = keys \union {k.value}
    /\ Return(c, local[c])
    /\ UNCHANGED <<config, node, msgVars, chainVars>>

\* Export, SignBytes and GetPubKeyForAddress need the key of the address.
FindKey(c, k) ==
    /\ IF About(c, k) \in keys THEN Return(c, local[c]) ELSE Fail(c)
    /\ UNCHANGED <<walletVars, node, msgVars, chainVars>>

-----------------------------------------------------------------------------
(* Reads of the chain state *)

OfMiner == {"owner", "worker", "peer", "asks", "sectorSize", "lastSector", "window",
            "provingSet", "collateral", "power", "actorID", "inclusion"}

\* Whether a query of actor `of` succeeds on a state.
Answers(st, get, of) ==
    CASE get \in OfMiner -> of \in DOMAIN st.miners
      [] get = "actor" -> Account(st, of) \/ of \in DOMAIN st.miners \union {Broker, Market}
      [] get = "voucher" -> Account(st, of) /\ st.channels[of] # <<>>
      [] OTHER -> TRUE

\* What it answers.  The proofs made by miners change powers, windows and
\* collaterals alike: st.proofs stands for all of them.
View(st, get, of) ==
    CASE get = "owner" -> st.miners[of].owner
      [] get = "worker" -> st.miners[of].worker
      [] get = "peer" -> st.miners[of].peer
      [] get = "asks" -> st.miners[of].asks
      [] get = "channels" -> IF Account(st, of) THEN st.channels[of] ELSE <<>>
      [] get = "balance" -> Account(st, of)
      [] get = "actors" -> DOMAIN st.miners
      [] get \in {"sectorSize", "proofsMode", "networkName", "actor", "actorID", "voucher"} -> 0
      [] OTHER -> st.proofs

MessageQueryMutant(c, k) ==
    /\ LET st == chain[handled].state
       IN  IF ~local[c].make THEN Return(c, local[c])
           ELSE IF Answers(st, k.get, About(c, k))
           THEN Return(c, [local[c] EXCEPT !.ans = Append(@,
                    [get |-> k.get, of |-> About(c, k), val |-> View(st, k.get, About(c, k))])])
           ELSE Fail(c)
    /\ UNCHANGED <<walletVars, node, msgVars, chainVars>>

\* MessageQuery (and ActorGet) at the head key read for it.  A call that is
\* part of building something that is already there is skipped.
MessageQuery(c, k) ==
    /\ LET of == About(c, k)
       IN  IF ~local[c].make THEN Return(c, local[c])
           ELSE IF Answers(State, k.get, of)
           THEN Return(c, [local[c] EXCEPT !.ans = Append(@,
                    [get |-> k.get, of |-> of, val |-> View(State, k.get, of)])])
           ELSE Fail(c)
    /\ UNCHANGED <<walletVars, node, msgVars, chainVars>>

\* MessagePreview runs the method on the head's state and throws the result away.
MessagePreview(c, k) ==
    /\ IF About(c, k) \in KeyAddresses \/ Answers(State, "actor", About(c, k))
       THEN Return(c, local[c]) ELSE Fail(c)
    /\ UNCHANGED <<walletVars, node, msgVars, chainVars>>

\* The owner of the miner becomes the sender.
OwnerRead(c, k) ==
    /\ IF Answers(State, "owner", local[c].miner)
       THEN Return(c, [local[c] EXCEPT !.from = View(State, "owner", local[c].miner)])
       ELSE Fail(c)
    /\ UNCHANGED <<walletVars, node, msgVars, chainVars>>

\* The height of the head, kept for the arithmetic of a payment or as the base to mine on.
HeightRead(c, k) ==
    /\ Return(c, [local[c] EXCEPT !.height = Height])
    /\ UNCHANGED <<walletVars, node, msgVars, chainVars>>

\* The miner actors of the head's state, then the asks of each: the ids first
\* (id 0), then the asks by id, every read at the head of that moment.
ActorLs(c, k) ==
    /\ Return(c, [local[c] EXCEPT !.todo = [i \in 1..Cardinality(DOMAIN State.miners) |->
                                               <<(<<"m1", "m2", "m3">>)[i], 0>>]])
    /\ UNCHANGED <<walletVars, node, msgVars, chainVars>>

listAsksFromActorResult(c, k) ==
    /\ UNCHANGED <<walletVars, node, msgVars, chainVars>>
    /\ LET todo == local[c].todo
           miner == todo[1][1]
           id == todo[1][2]
           asks == View(State, "asks", miner)
       IN  IF todo = <<>> THEN Return(c, local[c])
           ELSE IF ~Answers(State, "asks", miner) \/ id > Len(asks) THEN Fail(c)
           ELSE local' = [local EXCEPT ![c].todo =
                    (IF id = 0 THEN [i \in DOMAIN asks |-> <<miner, i>>] ELSE <<>>) \o Tail(todo)]

-----------------------------------------------------------------------------
(* Sending a message *)

LargestNonce(q) == IF q = <<>> THEN -1 ELSE Last(q).nonce

nextNonce(from) == LET n == LargestNonce(queue[from]) + 1
                   IN  IF n > State.nonce[from] THEN n ELSE State.nonce[from]

NextNonceMutant(c, k) ==
    /\ IF Account(State, local[c].from)
       THEN Return(c, [local[c] EXCEPT !.nonce = nextNonce(local[c].from)]) /\ nonceLock' = c
       ELSE Fail(c) /\ UNCHANGED nonceLock
    /\ UNCHANGED <<walletVars, node, queue, outgoing, pool, network, chainVars>>

\* Outbox.Send, under the nonce lock: the sender's actor at the head and the
\* queue give the next nonce ...
NextNonce(c, k) ==
    /\ nonceLock = Nobody
    /\ IF Account(State, local[c].from)
       THEN Return(c, [local[c] EXCEPT !.nonce = nextNonce(local[c].from)]) /\ nonceLock' = c
       ELSE Fail(c) /\ UNCHANGED nonceLock
    /\ UNCHANGED <<walletVars, node, queue, outgoing, pool, network, chainVars>>

\* The queue takes a message only when its nonce follows the last one there.
Enqueued(c, m, l) ==
    IF queue[m.from] # <<>> /\ m.nonce # LargestNonce(queue[m.from]) + 1
    THEN Fail(c) /\ UNCHANGED <<queue, outgoing>>
    ELSE /\ queue' = [queue EXCEPT ![m.from] = Append(@, m)]
         /\ outgoing' = outgoing \union {m}
         /\ Return(c, [l EXCEPT !.sent = <<m>>])

\* ... then the message is signed, validated, enqueued and handed to a
\* goroutine that publishes it.
SignAndEnqueue(c, k) ==
    LET l == local[c]
        m == [from |-> l.from, nonce |-> l.nonce, to |-> About(c, k), method |-> k.method,
              arg |-> k.arg]
    IN  /\ IF l.from \in keys THEN Enqueued(c, m, l)
           ELSE Fail(c) /\ UNCHANGED <<queue, outgoing>>
        /\ nonceLock' = Nobody
        /\ UNCHANGED <<walletVars, node, pool, network, chainVars>>

\* SignedSend enqueues a message signed elsewhere, without the nonce lock.
SignedSend(c, k) ==
    /\ Enqueued(c, local[c].sent[1], local[c])
    /\ UNCHANGED <<walletVars, node, nonceLock, pool, network, chainVars>>

\* The pool refuses a used nonce and a second message of a sender with a nonce.
PoolAccepts(m) ==
    /\ Account(State, m.from) /\ m.nonce >= State.nonce[m.from]
    /\ \A o \in pool : o.from = m.from => o.nonce # m.nonce

\* The publisher adds the message to the pool and broadcasts it.
Publish(m) ==
    /\ m \in outgoing
    /\ outgoing' = outgoing \ {m}
    /\ IF PoolAccepts(m) THEN pool' = pool \union {m} /\ network' = network \union {m}
       ELSE UNCHANGED <<pool, network>>
    /\ UNCHANGED <<walletVars, node, nonceLock, queue, chainVars, local>>

\* Its context is the command's: once the command has replied it may be
\* cancelled before either step, and the message stays in the queue alone.
PublishCancelled(m) ==
    /\ m \in outgoing
    /\ \E c \in Clients : local[c].sent = <<m>> /\ local[c].reply # ""
    /\ outgoing' = outgoing \ {m}
    /\ \/ UNCHANGED pool
       \/ PoolAccepts(m) /\ pool' = pool \union {m}
    /\ UNCHANGED <<walletVars, node, nonceLock, queue, network, chainVars, local>>

\* MessagePoolGet, OutboxQueueLs and MessageFind look for the client's message.
MessagePoolGet(c, k) ==
    /\ IF local[c].sent[1] \in pool
       THEN Return(c, [local[c] EXCEPT !.seen = @ \union {"pool"}])
       ELSE IF k.must = "set" THEN Fail(c) ELSE Return(c, local[c])
    /\ UNCHANGED <<walletVars, node, msgVars, chainVars>>

OutboxQueueLs(c, k) ==
    /\ Return(c, IF \E a \in DOMAIN queue : local[c].sent # <<>>
                                            /\ local[c].sent[1] \in Range(queue[a])
                 THEN [local[c] EXCEPT !.seen = @ \union {"outbox"}] ELSE local[c])
    /\ UNCHANGED <<walletVars, node, msgVars, chainVars>>

MessagePoolRemove(c, k) ==
    /\ pool' = pool \ Range(local[c].sent)
    /\ Return(c, local[c])
    /\ UNCHANGED <<walletVars, node, nonceLock, queue, outgoing, network, chainVars>>

OutboxQueueClear(c, k) ==
    /\ queue' = [queue EXCEPT ![k.of] = <<>>]
    /\ Return(c, local[c])
    /\ UNCHANGED <<walletVars, node, nonceLock, outgoing, pool, network, chainVars>>

\* MessagePoolWait polls until there are enough messages.
MessagePoolWait(c, k) ==
    /\ Cardinality(pool) >= k.count
    /\ Return(c, local[c])
    /\ UNCHANGED <<walletVars, node, msgVars, chainVars>>

-----------------------------------------------------------------------------
(* Head events and the message waiter *)

\* The chain grows by a head: n tipsets, one of which holds messages.
Tipset(st, msgs) ==
    FoldLeft(LAMBDA ts, m : LET r == Applied(ts.state, m)
                            IN  [ts EXCEPT !.msgs = Append(@, m), !.state = r.state,
                                           !.exits = Append(@, [exit |-> r.exit, ret |-> r.ret])],
             [msgs |-> <<>>, exits |-> <<>>, state |-> [st EXCEPT !.proofs = @ + 1]], msgs)

Extended(ch, msgs, head) == Append(ch, [head |-> head] @@ Tipset(Last(ch).state, msgs))

\* What can be mined next: one message per sender, with the nonce of its actor.
Minable(from) ==
    {S \in SUBSET {m \in from \ MinedBy(Height) :
                       Account(State, m.from) /\ m.nonce = State.nonce[m.from]} :
        \A m, o \in S : m.from = o.from => m = o}

\* SetHead stores the head and publishes it, under one lock: the next head
\* waits until this one has been handed to the publisher.
NewHead ==
    /\ events.pubbed = Height
    /\ \E n \in 1..MaxJump, S \in Minable(network) :
         /\ Height + n <= MaxHeight
         /\ \E i \in 1..n :
              chain' = FoldLeft(LAMBDA ch, j : Extended(ch, IF j = i THEN SetToSeq(S) ELSE <<>>, j = n),
                                chain, [j \in 1..n |-> j])
    /\ UNCHANGED <<walletVars, node, msgVars, events, inbox, handled, local>>

\* The publisher runs one command at a time: publish, subscribe, unsubscribe.
\* Publishing hands the head to each subscriber in turn, and waits for room.
PublisherIdle == events.left = {}

Pub ==
    /\ PublisherIdle /\ events.pubbed < Height
    /\ events' = [events EXCEPT !.head = Height, !.left = events.subs, !.pubbed = Height]
    /\ UNCHANGED <<walletVars, node, msgVars, chain, inbox, handled, local>>

Deliver(s) ==
    /\ s \in events.left
    /\ Len(inbox[s]) < Capacity
    /\ inbox' = [inbox EXCEPT ![s] = Append(@, events.head)]
    /\ events' = [events EXCEPT !.left = @ \ {s}]
    /\ UNCHANGED <<walletVars, node, msgVars, chain, handled, local>>

\* The node takes a head: the outbox and the pool drop what the chain holds.
handleNewChainHeads ==
    /\ inbox[Node] # <<>>
    /\ LET h == Head(inbox[Node])
       IN  /\ handled' = h
           /\ queue' = [a \in DOMAIN queue |-> SelectSeq(queue[a], LAMBDA m : m \notin MinedBy(h))]
           /\ pool' = pool \ MinedBy(h)
    /\ inbox' = [inbox EXCEPT ![Node] = Tail(@)]
    /\ UNCHANGED <<walletVars, node, nonceLock, outgoing, network, chain, events, local>>

\* Wait subscribes first, then searches the chain below the head, and only
\* then reads the heads published to it.
Subscribe(c, k) ==
    /\ PublisherIdle
    /\ events' = [events EXCEPT !.subs = @ \union {c}]
    /\ inbox' = [inbox EXCEPT ![c] = <<>>]
    /\ Return(c, local[c])
    /\ UNCHANGED <<walletVars, node, msgVars, chain, handled>>

ReceiptIn(h, m) == chain[h].exits[CHOOSE i \in DOMAIN chain[h].msgs : chain[h].msgs[i] = m]

Found(l, h) == LET r == ReceiptIn(h, l.sent[1])
               IN  [l EXCEPT !.seen = @ \union {"chain"}, !.exit = r.exit,
                             !.miner = IF r.ret = Nobody THEN @ ELSE r.ret]

Find(c, k) ==
    /\ LET at == {h \in 1..Height : local[c].sent[1] \in Range(chain[h].msgs)}
       IN  Return(c, IF at = {} THEN local[c] ELSE Found(local[c], CHOOSE h \in at : TRUE))
    /\ UNCHANGED <<walletVars, node, msgVars, chainVars>>

waitForMessage(c, k) ==
    /\ UNCHANGED <<walletVars, node, msgVars, chain, events, handled>>
    /\ \/ /\ "chain" \in local[c].seen
          /\ Return(c, local[c]) /\ UNCHANGED inbox
       \/ /\ "chain" \notin local[c].seen /\ inbox[c] # <<>>
          /\ inbox' = [inbox EXCEPT ![c] = Tail(@)]
          /\ IF local[c].sent[1] \in Range(chain[Head(inbox[c])].msgs)
             THEN Return(c, Found(local[c], Head(inbox[c]))) ELSE UNCHANGED local
       \/ /\ "chain" \notin local[c].seen /\ k.timed
          /\ Return(c, local[c]) /\ UNCHANGED inbox

\* The deferred Unsub, then the callback's verdict: a wait that ended without
\* the message fails, and so does one whose caller requires exit code 0.
Unsubscribe(c, k) ==
    /\ PublisherIdle
    /\ events' = [events EXCEPT !.subs = @ \ {c}]
    /\ inbox' = [inbox EXCEPT ![c] = <<>>]
    /\ IF "chain" \notin local[c].seen \/ (k.must = "ok" /\ local[c].exit # 0)
       THEN Fail(c) ELSE Return(c, local[c])
    /\ UNCHANGED <<walletVars, node, msgVars, chain, handled>>

-----------------------------------------------------------------------------
(* Mining *)

\* SetupMining builds a part only when it is not there: check, then (after the
\* chain reads it needs) set.
CheckPart(c, k) ==
    /\ Return(c, [local[c] EXCEPT !.make = node[k.part] = 0])
    /\ UNCHANGED <<walletVars, node, msgVars, chainVars>>

SetPart(c, k) ==
    /\ node' = IF local[c].make THEN [node EXCEPT ![k.part] = @ + 1] ELSE node
    /\ Return(c, [local[c] EXCEPT !.make = TRUE])
    /\ UNCHANGED <<walletVars, msgVars, chainVars>>

\* Sealing now and adding a piece need the sector builder.
UseBuilder(c, k) ==
    /\ IF node.builder = 0 THEN Fail(c) ELSE Return(c, local[c])
    /\ UNCHANGED <<walletVars, node, msgVars, chainVars>>

\* StartMining, and MiningOnce, are refused while the node is mining.
NotMining(c, k) ==
    /\ IF node.mining THEN Fail(c) ELSE Return(c, local[c])
    /\ UNCHANGED <<walletVars, node, msgVars, chainVars>>

StartScheduler(c, k) ==
    /\ IF node.scheduler THEN Fail(c) /\ UNCHANGED node
       ELSE Return(c, local[c]) /\ node' = [node EXCEPT !.scheduler = TRUE]
    /\ UNCHANGED <<walletVars, msgVars, chainVars>>

setIsMining(c, k) ==
    /\ node' = [node EXCEPT !.mining = TRUE]
    /\ Return(c, local[c])
    /\ UNCHANGED <<walletVars, msgVars, chainVars>>

StopMining(c, k) ==
    /\ node' = [node EXCEPT !.mining = FALSE, !.scheduler = FALSE]
    /\ Return(c, local[c])
    /\ UNCHANGED <<walletVars, msgVars, chainVars>>

\* MiningOnce mines on the base read before; its block becomes the head only
\* when the chain has not grown meanwhile.
MineOnce(c, k) ==
    /\ events.pubbed = Height
    /\ \/ /\ local[c].height = Height /\ Height < MaxHeight
          /\ \E S \in Minable(pool) : chain' = Extended(chain, SetToSeq(S), TRUE)
       \/ /\ local[c].height < Height \/ Height = MaxHeight
          /\ UNCHANGED chain
    /\ Return(c, local[c])
    /\ UNCHANGED <<walletVars, node, msgVars, events, inbox, handled>>

-----------------------------------------------------------------------------
(* Calls answered elsewhere: the storage and retrieval protocols, the data   *)
(* store, the network.  They change none of this state, and may fail.        *)

Elsewhere(c, k) ==
    /\ Return(c, local[c]) \/ Fail(c)
    /\ UNCHANGED <<walletVars, node, msgVars, chainVars>>
=============================================================================
