----------------------------- MODULE Messaging -----------------------------
(***************************************************************************)
(* A node's outgoing and incoming messages.  The outbox gives a message    *)
(* its nonce, keeps it in a queue per sender and publishes it; the inbox   *)
(* keeps a pool of messages for mining.  When the chain store has a new    *)
(* head, the head handler takes the messages that were mined out of both   *)
(* and puts those of abandoned blocks back.                                *)
(*                                                                         *)
(* API calls, publishing goroutines, gossip and the head handler           *)
(* interleave; the queue and the pool lock each of their operations, and   *)
(* one lock serialises the outbox's Send.                                  *)
(***************************************************************************)
EXTENDS Integers, Sequences, FiniteSets, Functions

CONSTANTS
    Wallet,         \* addresses this node sends from
    Others,         \* other addresses
    Contents,       \* what tells apart messages with one sender and nonce
    MaxNonce,       \* bound: nonces in use
    SendContents,   \* what callers ask Send to send
    SignedMsgs,     \* messages that callers send already signed
    ClearAddrs,     \* senders whose queue the user clears
    GossipMsgs,     \* messages of other nodes that arrive by gossip
    Tips,           \* the tipsets of the chain store
    Genesis,
    Parent,         \* header: the parent tipset
    Height,         \* header: the epoch
    Rank,           \* place in the order of chain selection
    Mined,          \* the messages of a tipset's blocks, in order
    OutboxMaxAge,   \* OutboxMaxAgeRounds
    InboxMaxAge,    \* InboxMaxAgeTipsets
    MaxPoolSize,
    MaxNonceGap,
    MaxEvents       \* bound: head events waiting for the handler

Addr == Wallet \union Others
Nonce == 0..MaxNonce
Message == [from : Addr, nonce : Nonce, content : Contents]

Ancestors[ts \in Tips] ==
    IF ts = Genesis THEN {ts} ELSE {ts} \union Ancestors[Parent[ts]]

Chain(ts) == {t \in Tips : t \in Ancestors[ts]}

\* The messages in blocks of the chain up to ts, and the nonce that leaves an
\* account with in the state.
OnChain(ts) == UNION {Range(Mined[t]) : t \in Chain(ts)}
ActorNonce(ts, addr) ==
    Cardinality({m.nonce : m \in {n \in OnChain(ts) : n.from = addr}})

ASSUME MessagingAssumption ==
    /\ Genesis \in Tips
    /\ Parent \in [Tips -> Tips]
    /\ Height \in [Tips -> Nat]
    /\ Rank \in [Tips -> Nat]
    /\ \A ts \in Tips \ {Genesis} :
          Height[Parent[ts]] < Height[ts] /\ Rank[Parent[ts]] < Rank[ts]
    /\ SendContents \subseteq Contents
    /\ SignedMsgs \subseteq Message
    /\ ClearAddrs \subseteq Addr
    /\ GossipMsgs \subseteq Message
    /\ Mined \in [Tips -> Seq(Message)]
    /\ \A ts \in Tips, addr \in Addr : ActorNonce(ts, addr) \in Nat
    /\ \A ts \in Tips : \A m \in OnChain(ts) : m.nonce < ActorNonce(ts, m.from)
    /\ {MaxNonce, OutboxMaxAge, InboxMaxAge, MaxPoolSize, MaxNonceGap, MaxEvents}
          \subseteq Nat

VARIABLES
    head,          \* the chain store's head
    events,        \* new heads that the handler has not finished with
    prevHead,      \* the head the handler has finished with
    queue,         \* outbox: messages and stamps by sender, in nonce order
    pending,       \* pool: the height at which each message was added
    addressNonces, \* pool: the senders and nonces of its messages
    send,          \* the Send that holds the nonce lock
    publishing,    \* messages and stamps that goroutines are to publish
    network,       \* messages that were broadcast
    step,          \* what the handler does next,
    tips,          \* the tipsets it still has to do it for,
    todo,          \* the messages of the tipset it is at,
    removeCids     \* and the messages it still has to remove from the pool

outbox == <<queue, send>>
inbox == <<pending, addressNonces>>
work == <<step, tips, todo, removeCids>>
handler == <<events, prevHead, work>>
vars == <<head, events, prevHead, queue, pending, addressNonces, send, publishing,
          network, step, tips, todo, removeCids>>

NoSend == [at |-> "unlocked"]
Init ==
    /\ head = Genesis
    /\ events = <<>>
    /\ prevHead = Genesis
    /\ queue = [addr \in Addr |-> <<>>]
    /\ pending = [m \in {} |-> 0]
    /\ addressNonces = {}
    /\ send = NoSend
    /\ publishing = {}
    /\ network = {}
    /\ step = "wait"
    /\ tips = {}
    /\ todo = <<>>
    /\ removeCids = {}

-----------------------------------------------------------------------------
(* The outbound queue *)

CanEnqueue(m) == LET q == queue[m.from] IN
    q # <<>> => m.nonce = q[Len(q)].msg.nonce + 1
Enqueue(m, stamp) ==
    queue' = [queue EXCEPT ![m.from] = Append(@, [msg |-> m, stamp |-> stamp])]

CanRequeue(m) == LET q == queue[m.from] IN
    q # <<>> => m.nonce = q[1].msg.nonce - 1
Requeue(m, stamp) ==
    queue' = [queue EXCEPT ![m.from] = <<[msg |-> m, stamp |-> stamp]>> \o @]

\* RemoveNext errs if the queue still has an earlier message, and leaves a
\* queue alone that starts later.
CanRemoveNext(m) == LET q == queue[m.from] IN
    q # <<>> => m.nonce <= q[1].msg.nonce
RemoveNext(m) == LET q == queue[m.from] IN
    queue' = IF q # <<>> /\ m.nonce = q[1].msg.nonce
             THEN [queue EXCEPT ![m.from] = Tail(@)] ELSE queue

ExpireBefore(stamp) ==
    queue' = [addr \in Addr |-> LET q == queue[addr] IN
                 IF q # <<>> /\ q[1].stamp < stamp THEN <<>> ELSE q]

-----------------------------------------------------------------------------
(* The message pool *)

\* Mutant: a nonce that the chain is past is let through.
ValidateMessageMutant(m) ==
    /\ Cardinality(DOMAIN pending) < MaxPoolSize
    /\ <<m.from, m.nonce>> \notin addressNonces
    /\ m.nonce - ActorNonce(head, m.from) <= MaxNonceGap

\* Add's checks, against the state of the chain store's head.
ValidateMessage(m) ==
    /\ Cardinality(DOMAIN pending) < MaxPoolSize
    /\ <<m.from, m.nonce>> \notin addressNonces
    /\ m.nonce - ActorNonce(head, m.from) \in 0..MaxNonceGap

PoolAdd(m, height) ==
    IF m \notin DOMAIN pending /\ ValidateMessage(m)
    THEN /\ pending' = [n \in DOMAIN pending \union {m} |->
                           IF n = m THEN height ELSE pending[n]]
         /\ addressNonces' = addressNonces \union {<<m.from, m.nonce>>}
    ELSE UNCHANGED inbox

PoolRemove(M) ==
    LET gone == M \intersect DOMAIN pending IN
    /\ pending' = [n \in DOMAIN pending \ gone |-> pending[n]]
    /\ addressNonces' = addressNonces \ {<<m.from, m.nonce>> : m \in gone}

-----------------------------------------------------------------------------
(* Sending *)

\* Send takes the lock and reads the sender's actor at the head.
SendStart(from, content) ==
    /\ send = NoSend
    /\ send' = [at |-> "actor", from |-> from, content |-> content,
                nonce |-> ActorNonce(head, from)]
    /\ UNCHANGED <<head, handler, queue, inbox, publishing, network>>

NextNonce(addr, actorNonce) == LET q == queue[addr] IN
    IF q # <<>> /\ q[Len(q)].msg.nonce >= actorNonce
    THEN q[Len(q)].msg.nonce + 1 ELSE actorNonce

\* nextNonce looks at the queue; the message is signed, and stamped with the
\* height of what is now the head.
SendSign ==
    /\ send.at = "actor"
    /\ LET next == NextNonce(send.from, send.nonce) IN
          /\ next \in Nonce
          /\ send' = [at |-> "signed", stamp |-> Height[head],
                      msg |-> [from |-> send.from, nonce |-> next,
                               content |-> send.content]]
    /\ UNCHANGED <<head, handler, queue, inbox, publishing, network>>

\* The message is queued and a goroutine started to publish it.
SendEnqueue ==
    /\ send.at = "signed"
    /\ IF CanEnqueue(send.msg)
       THEN /\ Enqueue(send.msg, send.stamp)
            /\ publishing' = publishing \union {<<send.msg, send.stamp>>}
       ELSE UNCHANGED <<queue, publishing>>
    /\ send' = NoSend
    /\ UNCHANGED <<head, handler, inbox, network>>

\* SignedSend takes no lock.
SignedSend(m) ==
    /\ CanEnqueue(m)
    /\ Enqueue(m, Height[head])
    /\ publishing' = publishing \union {<<m, Height[head]>>}
    /\ UNCHANGED <<head, handler, inbox, send, network>>

\* The user gives up on the messages of a sender.
Clear(addr) ==
    /\ queue' = [queue EXCEPT ![addr] = <<>>]
    /\ UNCHANGED <<head, handler, inbox, send, publishing, network>>

\* The pool has to accept a message before it is broadcast.
Publish(m, stamp) ==
    /\ <<m, stamp>> \in publishing
    /\ publishing' = publishing \ {<<m, stamp>>}
    /\ PoolAdd(m, stamp)
    /\ \E bcast \in BOOLEAN :
          network' = IF bcast /\ m \in DOMAIN pending' THEN network \union {m} ELSE network
    /\ UNCHANGED <<head, handler, outbox>>

\* A message of another node arrives by gossip.
Receive(m) ==
    /\ PoolAdd(m, Height[head])
    /\ UNCHANGED <<head, handler, outbox, publishing, network>>

-----------------------------------------------------------------------------
(* New heads *)

\* The chain store sets a heavier head and publishes the event.  Messages of
\* this node are mined once they were broadcast.
SetHead(ts) ==
    /\ Rank[ts] > Rank[head]
    /\ \A m \in OnChain(ts) : m.from \in Wallet => m \in network
    /\ Len(events) < MaxEvents
    /\ head' = ts
    /\ events' = Append(events, ts)
    /\ UNCHANGED <<prevHead, work, outbox, inbox, publishing, network>>

\* CollectTipsToCommonAncestor for the event at the front.
NewHead == Head(events)
OldTips == Chain(prevHead) \ Chain(NewHead)
NewTips == Chain(NewHead) \ Chain(prevHead)

Highest(S) == {t \in S : \A u \in S : Height[u] <= Height[t]}
Lowest(S) == {t \in S : \A u \in S : Height[t] <= Height[u]}

\* The handler goes on to a loop over the messages of the tipsets S.
Start(loop, S) ==
    /\ step' = loop
    /\ tips' = S
    /\ todo' = <<>>
Done == tips = {} /\ todo = <<>>

\* The new tipsets are visited lowest first, the old ones highest first.
LoadMessages ==
    /\ todo = <<>>
    /\ \E t \in IF step = "remove" THEN Lowest(tips) ELSE Highest(tips) :
          /\ todo' = Mined[t]
          /\ tips' = tips \ {t}
    /\ UNCHANGED <<head, events, prevHead, outbox, inbox, publishing, network, step, removeCids>>

\* The outbox's handler, then the inbox's.
HandleNewHead ==
    /\ step = "wait"
    /\ events # <<>>
    /\ Start("remove", NewTips)
    /\ UNCHANGED <<head, events, prevHead, outbox, inbox, publishing, network, removeCids>>

\* The messages of the new tipsets leave the queue.  An error ends the
\* outbox's handler; the inbox's runs all the same.
RemoveMined ==
    /\ step = "remove"
    /\ todo # <<>>
    /\ IF CanRemoveNext(Head(todo))
       THEN RemoveNext(Head(todo)) /\ todo' = Tail(todo) /\ UNCHANGED <<step, tips>>
       ELSE Start("restore", OldTips) /\ UNCHANGED queue
    /\ UNCHANGED <<head, events, prevHead, send, inbox, publishing, network, removeCids>>

RemovedMined ==
    /\ step = "remove"
    /\ Done
    /\ Start("requeue", OldTips)
    /\ UNCHANGED <<head, events, prevHead, outbox, inbox, publishing, network, removeCids>>

\* Mutant: a message goes back to the queue whatever is in it.
RequeueRestoredMutant ==
    /\ step = "requeue"
    /\ todo # <<>>
    /\ Requeue(Head(todo), Height[NewHead])
    /\ todo' = Tail(todo)
    /\ UNCHANGED <<head, events, prevHead, send, inbox, publishing, network, step, tips, removeCids>>

\* The messages of the old tipsets go back to the front of the queue.
RequeueRestored ==
    /\ step = "requeue"
    /\ todo # <<>>
    /\ IF CanRequeue(Head(todo))
       THEN /\ Requeue(Head(todo), Height[NewHead])
            /\ todo' = Tail(todo)
            /\ UNCHANGED <<step, tips>>
       ELSE Start("restore", OldTips) /\ UNCHANGED queue
    /\ UNCHANGED <<head, events, prevHead, send, inbox, publishing, network, removeCids>>

Expire ==
    /\ step = "requeue"
    /\ Done
    /\ IF Height[NewHead] >= OutboxMaxAge
       THEN ExpireBefore(Height[NewHead] - OutboxMaxAge)
       ELSE UNCHANGED queue
    /\ Start("restore", OldTips)
    /\ UNCHANGED <<head, events, prevHead, send, inbox, publishing, network, removeCids>>

\* The inbox adds the messages of the old tipsets.  The outbox's handler has
\* reversed the list of new tipsets, so that the first of them, which stands
\* for the new head, is the lowest.
RestoreOld ==
    /\ step = "restore"
    /\ todo # <<>>
    /\ \E first \in Lowest(NewTips) : PoolAdd(Head(todo), Height[first])
    /\ todo' = Tail(todo)
    /\ UNCHANGED <<head, events, prevHead, outbox, publishing, network, step, tips, removeCids>>

RestoredOld ==
    /\ step = "restore"
    /\ Done
    /\ step' = "purge"
    /\ removeCids' = UNION {Range(Mined[t]) : t \in NewTips}
    /\ UNCHANGED <<head, events, prevHead, outbox, inbox, publishing, network, tips, todo>>

Purge(c) ==
    /\ step = "purge"
    /\ PoolRemove({c})
    /\ removeCids' = removeCids \ {c}
    /\ UNCHANGED <<head, events, prevHead, outbox, publishing, network, step, tips, todo>>

\* timeoutMessages walks back from the first of the new tipsets.
Back[n \in 0..InboxMaxAge] == [ts \in Tips |->
    IF n = 0 \/ ts = Genesis THEN ts ELSE Back[n - 1][Parent[ts]]]
MinimumHeight(first) == Height[Back[InboxMaxAge][first]]

TimeoutMessages ==
    /\ step = "purge"
    /\ removeCids = {}
    /\ \E first \in Lowest(NewTips) :
          PoolRemove({m \in DOMAIN pending : pending[m] < MinimumHeight(first)})
    /\ prevHead' = NewHead
    /\ events' = Tail(events)
    /\ step' = "wait"
    /\ UNCHANGED <<head, outbox, publishing, network, tips, todo, removeCids>>

Next ==
    \/ \E from \in Wallet, content \in SendContents : SendStart(from, content)
    \/ SendSign
    \/ SendEnqueue
    \/ \E m \in SignedMsgs : SignedSend(m)
    \/ \E addr \in ClearAddrs : Clear(addr)
    \/ \E p \in publishing : Publish(p[1], p[2])
    \/ \E m \in GossipMsgs : Receive(m)
    \/ \E ts \in Tips : SetHead(ts)
    \/ HandleNewHead
    \/ LoadMessages
    \/ RemoveMined
    \/ RemovedMined
    \/ RequeueRestored
    \/ Expire
    \/ RestoreOld
    \/ RestoredOld
    \/ \E c \in removeCids : Purge(c)
    \/ TimeoutMessages

Spec == Init /\ [][Next]_vars

-----------------------------------------------------------------------------
(* Properties *)

Steps == {"wait", "remove", "requeue", "restore", "purge"}

\* The queue, the pool and the handler's work are well formed.
TypeOK ==
    /\ {head, prevHead} \subseteq Tips
    /\ events \in Seq(Tips)
    /\ queue \in [Addr -> Seq([msg : Message, stamp : Nat])]
    /\ DOMAIN pending \subseteq Message
    /\ \A m \in DOMAIN pending : pending[m] \in Nat
    /\ addressNonces \subseteq Addr \X Nonce
    /\ send \in {NoSend}
          \union [at : {"actor"}, from : Wallet, content : Contents, nonce : Nat]
          \union [at : {"signed"}, stamp : Nat, msg : Message]
    /\ publishing \subseteq Message \X Nat
    /\ network \subseteq Message
    /\ step \in Steps
    /\ tips \subseteq Tips
    /\ todo \in Seq(Message)
    /\ removeCids \subseteq Message

\* "enforces that their nonces form a contiguous sequence": sends, removals
\* and requeues of several goroutines never leave a gap or a repetition.
QueueContiguous ==
    \A addr \in Addr : \A k \in 1..Len(queue[addr]) :
        /\ queue[addr][k].msg.from = addr
        /\ queue[addr][k].msg.nonce = queue[addr][1].msg.nonce + k - 1

\* The pool's index of senders and nonces is exact: no two messages share a
\* nonce, and no nonce stays blocked after its message has gone.
PoolIndexExact ==
    /\ addressNonces = {<<m.from, m.nonce>> : m \in DOMAIN pending}
    /\ \A m, n \in DOMAIN pending : m.from = n.from /\ m.nonce = n.nonce => m = n

\* Once the handler has caught up, the pool offers no message for mining that
\* is already on the chain, whatever arrived, was published or was put back
\* while it was at work.
PoolNotMined ==
    step = "wait" /\ events = <<>> => DOMAIN pending \intersect OnChain(head) = {}
=============================================================================
