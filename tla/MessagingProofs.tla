-------------------------- MODULE MessagingProofs --------------------------
(***************************************************************************)
(* Proofs about Messaging, for every set of senders, chain, pool size and  *)
(* age limit: its type invariant, contiguous queues, an exact pool index   *)
(* and a pool free of mined messages.                                      *)
(***************************************************************************)
EXTENDS Messaging, SequenceTheorems, TLAPS

\* Time limits with a wide margin: every leaf takes about a second.
USE SMTT(60), ZenonT(60), SMTT(61)

Entry == [msg : Message, stamp : Nat]

\* The handler is at work on an event only while there is one.
Busy == step # "wait" => events # <<>>

\* The newest event, or else the head last handled, is the store's head.
LastEvent == head = IF events = <<>> THEN prevHead ELSE events[Len(events)]

\* A message of the pool is off the chain of some head still to be handled, or
\* off that of the head last handled and, once the handler has its list of
\* messages to remove, in that list if it is to go.
PoolCovered ==
    \A m \in DOMAIN pending :
        \/ \E k \in 1..Len(events) : m \notin OnChain(events[k])
        \/ /\ m \notin OnChain(prevHead)
           /\ step = "purge" => m \in removeCids

TypeInv == TypeOK /\ Busy

-----------------------------------------------------------------------------
(* Facts about the operators *)

\* A chain consists of tipsets, and its messages are messages.
LEMMA ChainFacts ==
    ASSUME NEW ts \in Tips
    PROVE  Chain(ts) \subseteq Tips /\ OnChain(ts) \subseteq Message
<1>1. Chain(ts) \subseteq Tips
  BY DEF Chain
<1>2. ASSUME NEW t \in Tips PROVE Range(Mined[t]) \subseteq Message
  <2>1. Mined[t] \in Seq(Message)
    BY MessagingAssumption
  <2> QED BY <2>1 DEF Range
<1> QED BY <1>1, <1>2 DEF OnChain

\* While the handler is at work, the front event and the tipsets between it
\* and the last head are tipsets.
LEMMA NewHeadFacts ==
    ASSUME TypeOK, events # <<>>
    PROVE  /\ NewHead \in Tips
           /\ OldTips \subseteq Tips
           /\ NewTips \subseteq Tips
           /\ Height[NewHead] \in Nat
<1>1. NewHead \in Tips
  BY DEF NewHead, TypeOK
<1>2. Height[NewHead] \in Nat
  BY <1>1, MessagingAssumption
<1> QED BY <1>1, <1>2 DEF OldTips, NewTips, Chain

\* The pool's Add keeps the pool well-typed.
LEMMA PoolAddTyped ==
    ASSUME TypeOK, NEW m \in Message, NEW h \in Nat, PoolAdd(m, h)
    PROVE  /\ DOMAIN pending' \subseteq Message
           /\ \A n \in DOMAIN pending' : pending'[n] \in Nat
           /\ addressNonces' \subseteq Addr \X Nonce
<1>1. CASE m \notin DOMAIN pending /\ ValidateMessage(m)
  <2>1. pending' = [n \in DOMAIN pending \union {m} |->
                       IF n = m THEN h ELSE pending[n]]
    BY <1>1 DEF PoolAdd
  <2>2. addressNonces' = addressNonces \union {<<m.from, m.nonce>>}
    BY <1>1 DEF PoolAdd
  <2>3. m.from \in Addr /\ m.nonce \in Nonce
    BY DEF Message
  <2>4. addressNonces' \subseteq Addr \X Nonce
    BY <2>2, <2>3 DEF TypeOK
  <2> QED BY <2>1, <2>4 DEF TypeOK
<1>2. CASE ~(m \notin DOMAIN pending /\ ValidateMessage(m))
  <2>1. pending' = pending /\ addressNonces' = addressNonces
    BY <1>2 DEF PoolAdd, inbox
  <2> QED BY <2>1 DEF TypeOK
<1> QED BY <1>1, <1>2

\* So does its Remove.
LEMMA PoolRemoveTyped ==
    ASSUME TypeOK, NEW M, PoolRemove(M)
    PROVE  /\ DOMAIN pending' = DOMAIN pending \ M
           /\ DOMAIN pending' \subseteq Message
           /\ \A n \in DOMAIN pending' : pending'[n] \in Nat
           /\ addressNonces' \subseteq Addr \X Nonce
BY DEF PoolRemove, TypeOK

-----------------------------------------------------------------------------
(* The queue's operations *)

QueueTyped == queue \in [Addr -> Seq(Entry)]

\* An entry holds a message, with a number for a nonce.
LEMMA EntryFacts ==
    ASSUME NEW e \in Entry
    PROVE  e.msg \in Message /\ e.msg.nonce \in Int
<1>1. e.msg \in Message
  BY DEF Entry
<1>2. e.msg.nonce \in Nonce
  BY <1>1 DEF Message
<1>3. MaxNonce \in Nat
  BY MessagingAssumption
<1> QED BY <1>1, <1>2, <1>3 DEF Nonce

\* What QueueContiguous says of the queue q of addr.
Contiguous(addr, q) ==
    \A k \in 1..Len(q) :
        q[k].msg.from = addr /\ q[k].msg.nonce = q[1].msg.nonce + k - 1

\* A message with the next nonce at the end leaves the nonces contiguous.
LEMMA AppendContiguous ==
    ASSUME NEW addr \in Addr, NEW q \in Seq(Entry), Contiguous(addr, q),
           NEW e \in Entry, e.msg.from = addr,
           q # <<>> => e.msg.nonce = q[Len(q)].msg.nonce + 1
    PROVE  Contiguous(addr, Append(q, e))
<1> DEFINE r == Append(q, e)
<1>1. Len(r) = Len(q) + 1 /\ Len(q) \in Nat
  OBVIOUS
<1>2. \A k \in 1..Len(q) : r[k] = q[k]
  OBVIOUS
<1>3. r[Len(q) + 1] = e
  OBVIOUS
<1>4. e.msg.nonce \in Int /\ \A k \in 1..Len(q) : q[k].msg.nonce \in Int
  <2>1. \A k \in 1..Len(q) : q[k] \in Entry
    OBVIOUS
  <2> QED BY <2>1, EntryFacts
<1>5. CASE q = <<>>
  <2>1. Len(r) = 1 /\ r[1] = e
    BY <1>1, <1>3, <1>5
  <2>2. \A k \in 1..1 : k = 1
    OBVIOUS
  <2> HIDE DEF r
  <2>3. Contiguous(addr, r)
    BY <2>1, <2>2, <1>4 DEF Contiguous
  <2> QED BY <2>3 DEF r
<1>6. CASE q # <<>>
  <2>1. Len(q) \in 1..Len(q) /\ 1 \in 1..Len(q)
    BY <1>1, <1>6
  <2>2. r[1] = q[1]
    BY <2>1, <1>2
  <2>3. q[Len(q)].msg.nonce = q[1].msg.nonce + Len(q) - 1
    BY <2>1 DEF Contiguous
  <2>4. e.msg.nonce = q[1].msg.nonce + (Len(q) + 1) - 1
    BY <2>1, <2>3, <1>6, <1>4, <1>1
  <2> HIDE DEF r
  <2>5. ASSUME NEW k \in 1..Len(r)
        PROVE  r[k].msg.from = addr /\ r[k].msg.nonce = r[1].msg.nonce + k - 1
    <3>1. CASE k \in 1..Len(q)
      <4>1. r[k] = q[k]
        BY <1>2, <3>1
      <4> QED BY <4>1, <2>2, <3>1 DEF Contiguous
    <3>2. CASE k = Len(q) + 1
      BY <3>2, <1>3, <2>2, <2>4
    <3> QED BY <3>1, <3>2, <1>1
  <2>6. Contiguous(addr, r)
    BY <2>5 DEF Contiguous
  <2> QED BY <2>6 DEF r
<1> QED BY <1>5, <1>6

\* So does a message with the previous nonce at the front.
LEMMA PrependContiguous ==
    ASSUME NEW addr \in Addr, NEW q \in Seq(Entry), Contiguous(addr, q),
           NEW e \in Entry, e.msg.from = addr,
           q # <<>> => e.msg.nonce = q[1].msg.nonce - 1
    PROVE  Contiguous(addr, <<e>> \o q)
<1> DEFINE r == <<e>> \o q
<1>1. Len(r) = Len(q) + 1 /\ Len(q) \in Nat
  OBVIOUS
<1>2. \A k \in 2..Len(r) : k - 1 \in 1..Len(q) /\ r[k] = q[k - 1]
  OBVIOUS
<1>3. r[1] = e
  OBVIOUS
<1>4. e.msg.nonce \in Int /\ \A k \in 1..Len(q) : q[k].msg.nonce \in Int
  <2>1. \A k \in 1..Len(q) : q[k] \in Entry
    OBVIOUS
  <2> QED BY <2>1, EntryFacts
<1> HIDE DEF r
<1>5. ASSUME NEW k \in 1..Len(r)
      PROVE  r[k].msg.from = addr /\ r[k].msg.nonce = r[1].msg.nonce + k - 1
  <2>1. CASE k = 1
    BY <2>1, <1>3, <1>4
  <2>2. CASE k \in 2..Len(r)
    <3>1. k - 1 \in 1..Len(q) /\ r[k] = q[k - 1]
      BY <1>2, <2>2
    <3>2. q[k - 1].msg.from = addr
          /\ q[k - 1].msg.nonce = q[1].msg.nonce + (k - 1) - 1
      BY <3>1 DEF Contiguous
    <3>3. q # <<>> /\ 1 \in 1..Len(q)
      BY <3>1
    <3>4. q[1].msg.nonce \in Int /\ e.msg.nonce = q[1].msg.nonce - 1
      BY <3>3, <1>4
    <3>5. r[k].msg.nonce = q[1].msg.nonce + (k - 1) - 1
      BY <3>1, <3>2
    <3>6. r[1].msg.nonce = q[1].msg.nonce - 1
      BY <1>3, <3>4
    <3>7. r[k].msg.nonce = r[1].msg.nonce + k - 1
      <4>1. k \in Int
        BY <1>1
      <4>2. \A a, j \in Int : a + (j - 1) - 1 = (a - 1) + j - 1
        OBVIOUS
      <4>3. q[1].msg.nonce + (k - 1) - 1 = (q[1].msg.nonce - 1) + k - 1
        BY <4>1, <4>2, <3>4, ZenonT(60)
      <4> QED BY <4>3, <3>5, <3>6
    <3> QED BY <3>1, <3>2, <3>7
  <2> QED BY <2>1, <2>2, <1>1
<1>6. Contiguous(addr, r)
  BY <1>5 DEF Contiguous
<1> QED BY <1>6 DEF r

\* And the queue without its first message.
LEMMA TailContiguous ==
    ASSUME NEW addr \in Addr, NEW q \in Seq(Entry), Contiguous(addr, q), q # <<>>
    PROVE  Contiguous(addr, Tail(q))
<1> DEFINE r == Tail(q)
<1>1. Len(r) = Len(q) - 1 /\ Len(q) \in Nat
  OBVIOUS
<1>2. \A k \in 1..Len(r) : r[k] = q[k + 1] /\ k + 1 \in 1..Len(q)
  OBVIOUS
<1>4. \A k \in 1..Len(q) : q[k].msg.nonce \in Int
  <2>1. \A k \in 1..Len(q) : q[k] \in Entry
    OBVIOUS
  <2> QED BY <2>1, EntryFacts
<1> HIDE DEF r
<1>5. ASSUME NEW k \in 1..Len(r)
      PROVE  r[k].msg.from = addr /\ r[k].msg.nonce = r[1].msg.nonce + k - 1
  <2>1. 1 \in 1..Len(r) /\ 1 \in 1..Len(q)
    BY <1>1
  <2>2. r[k] = q[k + 1] /\ k + 1 \in 1..Len(q)
    BY <1>2
  <2>3. r[1] = q[2] /\ 2 \in 1..Len(q)
    BY <1>2, <2>1
  <2>4. q[2].msg.nonce = q[1].msg.nonce + 2 - 1
    BY <2>3 DEF Contiguous
  <2>5. q[k + 1].msg.from = addr
        /\ q[k + 1].msg.nonce = q[1].msg.nonce + (k + 1) - 1
    BY <2>2 DEF Contiguous
  <2>6. q[1].msg.nonce \in Int
    BY <2>1, <1>4
  <2>7. r[k].msg.nonce = q[1].msg.nonce + (k + 1) - 1
    BY <2>2, <2>5
  <2>8. r[1].msg.nonce = q[1].msg.nonce + 2 - 1
    BY <2>3, <2>4
  <2>9. r[k].msg.nonce = r[1].msg.nonce + k - 1
    <3>1. k \in Int
      BY <1>1
    <3>2. \A a, j \in Int : a + (j + 1) - 1 = (a + 2 - 1) + j - 1
      OBVIOUS
    <3>3. q[1].msg.nonce + (k + 1) - 1 = (q[1].msg.nonce + 2 - 1) + k - 1
      BY <3>1, <3>2, <2>6
    <3> QED BY <3>3, <2>7, <2>8
  <2> QED BY <2>2, <2>5, <2>9
<1>6. Contiguous(addr, r)
  BY <1>5 DEF Contiguous
<1> QED BY <1>6 DEF r

-----------------------------------------------------------------------------
(* The type invariant *)

\* The steps that leave the queue's type as it is.
LEMMA QueueStepTyped ==
    ASSUME TypeInv, Next
    PROVE  queue' \in [Addr -> Seq(Entry)]
<1> USE DEF TypeInv
<1>1. queue \in [Addr -> Seq(Entry)]
  BY ZenonT(60) DEF TypeOK, Entry
<1>2. ASSUME NEW m \in Message, NEW stamp \in Nat, Enqueue(m, stamp) \/ Requeue(m, stamp)
      PROVE  queue' \in [Addr -> Seq(Entry)]
  <2>1. m.from \in Addr /\ [msg |-> m, stamp |-> stamp] \in Entry
    BY DEF Message, Entry
  <2>2. queue[m.from] \in Seq(Entry)
    BY <1>1, <2>1
  <2>3. /\ Append(queue[m.from], [msg |-> m, stamp |-> stamp]) \in Seq(Entry)
        /\ <<[msg |-> m, stamp |-> stamp]>> \o queue[m.from] \in Seq(Entry)
    BY <2>1, <2>2
  <2> QED BY <1>1, <1>2, <2>3, ZenonT(60) DEF Enqueue, Requeue
<1>3. CASE SendEnqueue
  <2>1. CASE CanEnqueue(send.msg)
    <3>1. send.msg \in Message /\ send.stamp \in Nat
      BY <1>3 DEF SendEnqueue, TypeOK, NoSend
    <3> QED BY <1>2, <1>3, <2>1, <3>1 DEF SendEnqueue
  <2>2. CASE ~CanEnqueue(send.msg)
    BY <1>1, <1>3, <2>2 DEF SendEnqueue
  <2> QED BY <2>1, <2>2
<1>4. ASSUME NEW m \in SignedMsgs, SignedSend(m)
      PROVE  queue' \in [Addr -> Seq(Entry)]
  <2>1. m \in Message /\ Height[head] \in Nat
    BY MessagingAssumption DEF TypeOK
  <2> QED BY <1>2, <1>4, <2>1 DEF SignedSend
<1>5. CASE RemoveMined
  <2>1. Head(todo) \in Message
    BY <1>5 DEF RemoveMined, TypeOK
  <2>2. CASE CanRemoveNext(Head(todo))
    <3> DEFINE addr == Head(todo).from
    <3>1. addr \in Addr
      BY <2>1 DEF Message
    <3>2. queue[addr] \in Seq(Entry)
      BY <1>1, <3>1
    <3>3. queue[addr] # <<>> => Tail(queue[addr]) \in Seq(Entry)
      BY <3>2
    <3> QED BY <1>1, <1>5, <2>2, <3>3, ZenonT(60) DEF RemoveMined, RemoveNext
  <2>3. CASE ~CanRemoveNext(Head(todo))
    BY <1>1, <1>5, <2>3 DEF RemoveMined
  <2> QED BY <2>2, <2>3
<1>6. CASE RequeueRestored
  <2>1. Head(todo) \in Message
    BY <1>6 DEF RequeueRestored, TypeOK
  <2>2. events # <<>>
    BY <1>6 DEF RequeueRestored, Busy
  <2>3. CASE CanRequeue(Head(todo))
    BY <1>2, <1>6, <2>1, <2>2, <2>3, NewHeadFacts DEF RequeueRestored
  <2>4. CASE ~CanRequeue(Head(todo))
    BY <1>1, <1>6, <2>4 DEF RequeueRestored
  <2> QED BY <2>3, <2>4
<1>7. CASE Expire
  <2>1. queue' = queue \/ ExpireBefore(Height[NewHead] - OutboxMaxAge)
    BY <1>7 DEF Expire
  <2>2. ASSUME NEW stamp, ExpireBefore(stamp)
        PROVE  queue' \in [Addr -> Seq(Entry)]
    BY <1>1, <2>2 DEF ExpireBefore
  <2> QED BY <1>1, <2>1, <2>2
<1>8. CASE UNCHANGED queue
  BY <1>1, <1>8
<1>9. ASSUME NEW addr \in ClearAddrs, Clear(addr)
      PROVE  queue' \in [Addr -> Seq(Entry)]
  <2>1. <<>> \in Seq(Entry)
    OBVIOUS
  <2> QED BY <1>1, <1>9, <2>1, ZenonT(60) DEF Clear
<1> QED BY <1>3, <1>4, <1>5, <1>6, <1>7, <1>8, <1>9, ZenonT(60)
        DEF Next, outbox, SendStart, SendSign, Publish, Receive, SetHead, HandleNewHead,
            LoadMessages, RemovedMined, RestoreOld, RestoredOld, Purge, TimeoutMessages

\* Every step keeps the variables well-typed.
LEMMA TypeStep ==
    ASSUME TypeInv, Next
    PROVE  TypeInv'
<1> USE DEF TypeInv
<1> DEFINE PoolTyped == /\ DOMAIN pending \subseteq Message
                        /\ \A m \in DOMAIN pending : pending[m] \in Nat
                        /\ addressNonces \subseteq Addr \X Nonce
           RestTyped == /\ {head, prevHead} \subseteq Tips
                        /\ events \in Seq(Tips)
                        /\ send \in {NoSend}
                              \union [at : {"actor"}, from : Wallet,
                                      content : Contents, nonce : Nat]
                              \union [at : {"signed"}, stamp : Nat, msg : Message]
                        /\ publishing \subseteq Message \X Nat
                        /\ network \subseteq Message
           WorkTyped == /\ step \in Steps
                        /\ tips \subseteq Tips
                        /\ todo \in Seq(Message)
                        /\ removeCids \subseteq Message
                        /\ Busy
<1>1. queue' \in [Addr -> Seq(Entry)]
  BY QueueStepTyped
<1>2. SUFFICES PoolTyped' /\ RestTyped' /\ WorkTyped'
  BY <1>1, <1>2, ZenonT(60) DEF TypeOK, Entry
<1>3. PoolTyped /\ RestTyped /\ WorkTyped
  BY DEF TypeOK
<1>4. /\ Height[head] \in Nat
      /\ \A addr \in Addr : ActorNonce(head, addr) \in Nat
  BY MessagingAssumption DEF TypeOK
<1>5. events # <<>> => /\ NewHead \in Tips
                       /\ OldTips \subseteq Tips
                       /\ NewTips \subseteq Tips
                       /\ Height[NewHead] \in Nat
  BY NewHeadFacts
<1>6. step # "wait" => events # <<>>
  BY DEF Busy
<1>7. /\ UNCHANGED inbox => PoolTyped'
      /\ UNCHANGED <<head, prevHead, events, send, publishing, network>> => RestTyped'
      /\ UNCHANGED <<work, events>> => WorkTyped'
  BY <1>3 DEF inbox, work, Busy
<1>8. ASSUME NEW loop \in Steps, NEW S \in SUBSET Tips, Start(loop, S), events # <<>>,
             UNCHANGED <<events, removeCids>>
      PROVE  WorkTyped'
  BY <1>3, <1>8 DEF Start, Busy
<1>9. ASSUME todo # <<>>, todo' = Tail(todo), UNCHANGED <<step, tips, events, removeCids>>
      PROVE  WorkTyped'
  <2>1. todo' \in Seq(Message)
    BY <1>3, <1>9
  <2> QED BY <1>3, <1>9, <2>1 DEF Busy
<1>10. ASSUME NEW m \in Message, NEW h \in Nat, PoolAdd(m, h)
       PROVE  PoolTyped'
  BY <1>10, PoolAddTyped
<1>11. ASSUME NEW M, PoolRemove(M)
       PROVE  PoolTyped'
  BY <1>11, PoolRemoveTyped, ZenonT(60)
<1> HIDE DEF PoolTyped, WorkTyped, TypeInv
<1>12. ASSUME NEW from \in Wallet, NEW content \in SendContents, SendStart(from, content)
       PROVE  PoolTyped' /\ RestTyped' /\ WorkTyped'
  <2>1. content \in Contents /\ ActorNonce(head, from) \in Nat
    BY <1>4, MessagingAssumption DEF Addr
  <2>2. send' \in [at : {"actor"}, from : Wallet, content : Contents, nonce : Nat]
    BY <1>12, <2>1 DEF SendStart
  <2>3. RestTyped'
    BY <1>3, <1>12, <2>2 DEF SendStart, handler
  <2> QED BY <1>7, <1>12, <2>3 DEF SendStart, handler
<1>13. CASE SendSign
  <2> DEFINE next == NextNonce(send.from, send.nonce)
  <2>1. send.from \in Wallet /\ send.content \in Contents
    BY <1>3, <1>13 DEF SendSign, NoSend
  <2>2. [from |-> send.from, nonce |-> next, content |-> send.content] \in Message
    BY <1>13, <2>1 DEF SendSign, Message, Addr
  <2>3. send' \in [at : {"signed"}, stamp : Nat, msg : Message]
    BY <1>4, <1>13, <2>2 DEF SendSign
  <2>4. RestTyped'
    BY <1>3, <1>13, <2>3 DEF SendSign, handler
  <2> QED BY <1>7, <1>13, <2>4 DEF SendSign, handler
<1>14. CASE SendEnqueue
  <2>1. send.msg \in Message /\ send.stamp \in Nat
    BY <1>3, <1>14 DEF SendEnqueue, NoSend
  <2>2. publishing' \subseteq Message \X Nat
    BY <1>3, <1>14, <2>1 DEF SendEnqueue
  <2>3. RestTyped'
    BY <1>3, <1>14, <2>2 DEF SendEnqueue, handler
  <2> QED BY <1>7, <1>14, <2>3 DEF SendEnqueue, handler
<1>15. ASSUME NEW m \in SignedMsgs, SignedSend(m)
       PROVE  PoolTyped' /\ RestTyped' /\ WorkTyped'
  <2>1. m \in Message
    BY MessagingAssumption
  <2>2. publishing' \subseteq Message \X Nat
    BY <1>3, <1>4, <1>15, <2>1 DEF SignedSend
  <2>3. RestTyped'
    BY <1>3, <1>15, <2>2 DEF SignedSend, handler
  <2> QED BY <1>7, <1>15, <2>3 DEF SignedSend, handler
<1>16. ASSUME NEW p \in publishing, Publish(p[1], p[2])
       PROVE  PoolTyped' /\ RestTyped' /\ WorkTyped'
  <2>1. p[1] \in Message /\ p[2] \in Nat
    BY <1>3
  <2>2. PoolTyped'
    BY <1>10, <1>16, <2>1 DEF Publish
  <2>3. publishing' \subseteq Message \X Nat /\ network' \subseteq Message
    BY <1>3, <1>16, <2>1 DEF Publish
  <2>4. RestTyped'
    BY <1>3, <1>16, <2>3 DEF Publish, handler, outbox
  <2> QED BY <1>7, <1>16, <2>2, <2>4 DEF Publish, handler
<1>17. ASSUME NEW m \in GossipMsgs, Receive(m)
       PROVE  PoolTyped' /\ RestTyped' /\ WorkTyped'
  <2>1. m \in Message
    BY <1>3, MessagingAssumption
  <2>2. PoolTyped'
    BY <1>4, <1>10, <1>17, <2>1 DEF Receive
  <2> QED BY <1>7, <1>17, <2>2 DEF Receive, handler, outbox
<1>18. ASSUME NEW ts \in Tips, SetHead(ts)
       PROVE  PoolTyped' /\ RestTyped' /\ WorkTyped'
  <2>1. head' \in Tips /\ events' \in Seq(Tips) /\ Len(events') # 0
    BY <1>3, <1>18 DEF SetHead
  <2>2. events' # <<>>
    BY <2>1
  <2>3. RestTyped'
    BY <1>3, <1>18, <2>1 DEF SetHead, outbox
  <2>4. WorkTyped'
    BY <1>3, <1>18, <2>2 DEF SetHead, work, WorkTyped, Busy
  <2> QED BY <1>7, <1>18, <2>3, <2>4 DEF SetHead
<1>19. CASE HandleNewHead
  <2>1. WorkTyped'
    BY <1>5, <1>8, <1>19 DEF HandleNewHead, Steps
  <2> QED BY <1>7, <1>19, <2>1 DEF HandleNewHead, outbox
<1>20. CASE LoadMessages
  <2>1. PICK t \in tips : todo' = Mined[t] /\ tips' = tips \ {t}
    BY <1>20 DEF LoadMessages, Lowest, Highest
  <2>2. t \in Tips
    BY <1>3, <2>1 DEF WorkTyped
  <2>3. todo' \in Seq(Message)
    BY <2>1, <2>2, MessagingAssumption
  <2>4. WorkTyped'
    BY <1>3, <1>20, <2>1, <2>3 DEF LoadMessages, WorkTyped, Busy
  <2> QED BY <1>7, <1>20, <2>4 DEF LoadMessages, outbox
<1>21. CASE RemoveMined
  <2>1. WorkTyped'
    BY <1>5, <1>6, <1>8, <1>9, <1>21 DEF RemoveMined, Steps
  <2> QED BY <1>7, <1>21, <2>1 DEF RemoveMined
<1>22. CASE RemovedMined
  <2>1. WorkTyped'
    BY <1>5, <1>6, <1>8, <1>22 DEF RemovedMined, Steps
  <2> QED BY <1>7, <1>22, <2>1 DEF RemovedMined, outbox
<1>23. CASE RequeueRestored
  <2>1. WorkTyped'
    BY <1>5, <1>6, <1>8, <1>9, <1>23 DEF RequeueRestored, Steps
  <2> QED BY <1>7, <1>23, <2>1 DEF RequeueRestored
<1>24. CASE Expire
  <2>1. WorkTyped'
    BY <1>5, <1>6, <1>8, <1>24 DEF Expire, Steps
  <2> QED BY <1>7, <1>24, <2>1 DEF Expire
<1>25. CASE RestoreOld
  <2>1. Head(todo) \in Message
    BY <1>3, <1>25 DEF RestoreOld, WorkTyped
  <2>2. PICK first \in Lowest(NewTips) : PoolAdd(Head(todo), Height[first])
    BY <1>25 DEF RestoreOld
  <2>3. first \in Tips
    BY <1>5, <1>6, <1>25 DEF Lowest, RestoreOld
  <2>4. Height[first] \in Nat
    BY <2>3, MessagingAssumption
  <2>5. PoolTyped'
    BY <1>10, <2>1, <2>2, <2>4
  <2>6. WorkTyped'
    BY <1>9, <1>25 DEF RestoreOld
  <2> QED BY <1>7, <1>25, <2>5, <2>6 DEF RestoreOld, outbox
<1>26. CASE RestoredOld
  <2>1. NewTips \subseteq Tips
    BY <1>5, <1>6, <1>26 DEF RestoredOld
  <2>2. ASSUME NEW t \in NewTips PROVE Range(Mined[t]) \subseteq Message
    <3>1. Mined[t] \in Seq(Message)
      BY <2>1, MessagingAssumption
    <3> QED BY <3>1 DEF Range
  <2>3. removeCids' \subseteq Message
    BY <1>26, <2>2 DEF RestoredOld
  <2>4. WorkTyped'
    BY <1>3, <1>6, <1>26, <2>3 DEF RestoredOld, WorkTyped, Steps, Busy
  <2> QED BY <1>7, <1>26, <2>4 DEF RestoredOld, outbox
<1>27. ASSUME NEW c \in removeCids, Purge(c)
       PROVE  PoolTyped' /\ RestTyped' /\ WorkTyped'
  <2>1. PoolTyped'
    BY <1>11, <1>27 DEF Purge
  <2>2. WorkTyped'
    BY <1>3, <1>27 DEF Purge, WorkTyped, Busy
  <2> QED BY <1>7, <1>27, <2>1, <2>2 DEF Purge, outbox
<1>28. CASE TimeoutMessages
  <2>1. PoolTyped'
    BY <1>11, <1>28 DEF TimeoutMessages
  <2>2. events # <<>>
    BY <1>6, <1>28 DEF TimeoutMessages
  <2>3. events' \in Seq(Tips) /\ prevHead' \in Tips
    BY <1>3, <1>5, <1>28, <2>2 DEF TimeoutMessages
  <2>4. RestTyped'
    BY <1>3, <1>28, <2>3 DEF TimeoutMessages, outbox
  <2>5. WorkTyped'
    BY <1>3, <1>28 DEF TimeoutMessages, WorkTyped, Steps, Busy
  <2> QED BY <2>1, <2>4, <2>5
<1>29. ASSUME NEW addr \in ClearAddrs, Clear(addr)
       PROVE  PoolTyped' /\ RestTyped' /\ WorkTyped'
  BY <1>7, <1>29 DEF Clear, handler
<1> HIDE DEF RestTyped
<1> QED BY <1>12, <1>13, <1>14, <1>15, <1>16, <1>17, <1>18, <1>19, <1>20, <1>21, <1>22,
           <1>23, <1>24, <1>25, <1>26, <1>27, <1>28, <1>29 DEF Next

\* TypeInv is an invariant.
LEMMA TypeInvariant == Spec => []TypeInv
<1>1. Init => TypeInv
  <2> SUFFICES ASSUME Init PROVE TypeInv
    OBVIOUS
  <2>1. Genesis \in Tips
    BY MessagingAssumption
  <2>2. DOMAIN pending = {}
    BY DEF Init
  <2> QED BY <2>1, <2>2 DEF Init, TypeInv, TypeOK, Busy, Steps
<1>2. TypeInv /\ [Next]_vars => TypeInv'
  <2>1. ASSUME TypeInv, UNCHANGED vars PROVE TypeInv'
    BY <2>1, ZenonT(60) DEF vars, TypeInv, TypeOK, Busy
  <2> QED BY <2>1, TypeStep
<1> QED BY <1>1, <1>2, PTL DEF Spec

\* Whatever is sent, mined, abandoned or received, the queue, the pool and the
\* handler's work stay well-typed.
THEOREM TypeCorrect == Spec => []TypeOK
BY TypeInvariant, PTL DEF TypeInv

-----------------------------------------------------------------------------
(* The queue stays contiguous *)

\* One queue changes and stays contiguous.
LEMMA OneQueueChanges ==
    ASSUME TypeOK, QueueContiguous, NEW addr \in Addr, NEW q \in Seq(Entry),
           queue' = [queue EXCEPT ![addr] = q], Contiguous(addr, q)
    PROVE  QueueContiguous'
<1>1. queue' \in [Addr -> Seq(Entry)] /\ queue'[addr] = q
  BY ZenonT(60) DEF TypeOK, Entry
<1>2. ASSUME NEW b \in Addr, NEW k \in 1..Len(queue'[b])
      PROVE  /\ queue'[b][k].msg.from = b
             /\ queue'[b][k].msg.nonce = queue'[b][1].msg.nonce + k - 1
  <2>1. CASE b = addr
    BY <1>1, <1>2, <2>1 DEF Contiguous
  <2>2. CASE b # addr
    <3>1. queue'[b] = queue[b]
      BY <2>2 DEF TypeOK
    <3> QED BY <3>1, <1>2 DEF QueueContiguous
  <2> QED BY <2>1, <2>2
<1> QED BY <1>2 DEF QueueContiguous

\* Every step keeps every queue contiguous.
LEMMA ContiguousStep ==
    ASSUME TypeInv, QueueContiguous, Next
    PROVE  QueueContiguous'
<1> USE DEF TypeInv
<1>1. queue \in [Addr -> Seq(Entry)]
  BY ZenonT(60) DEF TypeOK, Entry
<1>2. \A addr \in Addr : queue[addr] \in Seq(Entry) /\ Contiguous(addr, queue[addr])
  BY <1>1 DEF QueueContiguous, Contiguous
<1>3. ASSUME NEW m \in Message, NEW stamp \in Nat, CanEnqueue(m), Enqueue(m, stamp)
      PROVE  QueueContiguous'
  <2> DEFINE e == [msg |-> m, stamp |-> stamp]
             q == queue[m.from]
  <2>1. m.from \in Addr /\ e \in Entry /\ e.msg.from = m.from
    BY DEF Message, Entry
  <2>2. q # <<>> => e.msg.nonce = q[Len(q)].msg.nonce + 1
    BY <1>3 DEF CanEnqueue
  <2>3. q \in Seq(Entry) /\ Contiguous(m.from, q)
    BY <1>2, <2>1
  <2>4. queue' = [queue EXCEPT ![m.from] = Append(q, e)]
    BY <1>1, <1>3, <2>1 DEF Enqueue
  <2> HIDE DEF e, q
  <2>5. Append(q, e) \in Seq(Entry) /\ Contiguous(m.from, Append(q, e))
    BY <2>1, <2>2, <2>3, AppendContiguous
  <2> QED BY <2>1, <2>4, <2>5, OneQueueChanges, ZenonT(60)
<1>4. ASSUME NEW m \in Message, NEW stamp \in Nat, CanRequeue(m), Requeue(m, stamp)
      PROVE  QueueContiguous'
  <2> DEFINE e == [msg |-> m, stamp |-> stamp]
             q == queue[m.from]
  <2>1. m.from \in Addr /\ e \in Entry /\ e.msg.from = m.from
    BY DEF Message, Entry
  <2>2. q # <<>> => e.msg.nonce = q[1].msg.nonce - 1
    BY <1>4 DEF CanRequeue
  <2>3. q \in Seq(Entry) /\ Contiguous(m.from, q)
    BY <1>2, <2>1
  <2>4. queue' = [queue EXCEPT ![m.from] = <<e>> \o q]
    BY <1>1, <1>4, <2>1 DEF Requeue
  <2> HIDE DEF e, q
  <2>5. <<e>> \o q \in Seq(Entry) /\ Contiguous(m.from, <<e>> \o q)
    BY <2>1, <2>2, <2>3, PrependContiguous
  <2> QED BY <2>1, <2>4, <2>5, OneQueueChanges, ZenonT(60)
<1>5. CASE UNCHANGED queue
  BY <1>5 DEF QueueContiguous
<1>6. CASE SendEnqueue
  <2>1. send.msg \in Message /\ send.stamp \in Nat
    BY <1>6 DEF SendEnqueue, TypeOK, NoSend
  <2> QED BY <1>3, <1>5, <1>6, <2>1 DEF SendEnqueue
<1>7. ASSUME NEW m \in SignedMsgs, SignedSend(m)
      PROVE  QueueContiguous'
  <2>1. m \in Message /\ Height[head] \in Nat
    BY MessagingAssumption DEF TypeOK
  <2> QED BY <1>3, <1>7, <2>1 DEF SignedSend
<1>8. CASE RemoveMined
  <2> DEFINE m == Head(todo)
             q == queue[m.from]
  <2>1. m \in Message
    BY <1>8 DEF RemoveMined, TypeOK
  <2>2. m.from \in Addr
    BY <2>1 DEF Message
  <2>3. CASE CanRemoveNext(m) /\ q # <<>> /\ m.nonce = q[1].msg.nonce
    <3>1. queue' = [queue EXCEPT ![m.from] = Tail(q)]
      BY <1>8, <2>3, <1>1, <2>2 DEF RemoveMined, RemoveNext
    <3>2. q \in Seq(Entry) /\ Contiguous(m.from, q) /\ q # <<>>
      BY <1>2, <2>2, <2>3
    <3> HIDE DEF q
    <3>3. Tail(q) \in Seq(Entry) /\ Contiguous(m.from, Tail(q))
      BY <2>2, <3>2, TailContiguous
    <3> HIDE DEF m
    <3> QED BY <2>2, <3>1, <3>3, OneQueueChanges, ZenonT(60)
  <2>4. CASE ~(CanRemoveNext(m) /\ q # <<>> /\ m.nonce = q[1].msg.nonce)
    BY <1>5, <1>8, <2>4 DEF RemoveMined, RemoveNext
  <2> QED BY <2>3, <2>4
<1>9. CASE RequeueRestored
  <2>1. Head(todo) \in Message
    BY <1>9 DEF RequeueRestored, TypeOK
  <2>2. events # <<>>
    BY <1>9 DEF RequeueRestored, Busy
  <2> QED BY <1>4, <1>5, <1>9, <2>1, <2>2, NewHeadFacts DEF RequeueRestored
<1>10. CASE Expire
  <2>1. ASSUME NEW stamp, ExpireBefore(stamp)
        PROVE  QueueContiguous'
    <3>1. \A addr \in Addr : queue'[addr] = <<>> \/ queue'[addr] = queue[addr]
      BY <2>1 DEF ExpireBefore
    <3>2. Len(<<>>) = 0
      OBVIOUS
    <3> QED BY <3>1, <3>2 DEF QueueContiguous
  <2> QED BY <1>5, <1>10, <2>1 DEF Expire
<1>11. ASSUME NEW addr \in ClearAddrs, Clear(addr)
       PROVE  QueueContiguous'
  <2>1. addr \in Addr /\ <<>> \in Seq(Entry)
    BY MessagingAssumption
  <2>2. Contiguous(addr, <<>>)
    BY DEF Contiguous
  <2> QED BY <1>11, <2>1, <2>2, OneQueueChanges, ZenonT(60) DEF Clear
<1> QED BY <1>5, <1>6, <1>7, <1>8, <1>9, <1>10, <1>11, ZenonT(60)
        DEF Next, outbox, SendStart, SendSign, Publish, Receive, SetHead, HandleNewHead,
            LoadMessages, RemovedMined, RestoreOld, RestoredOld, Purge, TimeoutMessages

\* The queue of each sender holds a contiguous run of nonces, whatever order
\* sends, removals, requeues and expiry come in.
THEOREM ContiguousQueues == Spec => []QueueContiguous
<1>1. Init => QueueContiguous
  <2>1. Len(<<>>) = 0
    OBVIOUS
  <2> QED BY <2>1 DEF Init, QueueContiguous
<1>2. TypeInv /\ QueueContiguous /\ [Next]_vars => QueueContiguous'
  <2>1. ASSUME QueueContiguous, UNCHANGED vars PROVE QueueContiguous'
    BY <2>1 DEF vars, QueueContiguous
  <2> QED BY <2>1, ContiguousStep
<1> QED BY <1>1, <1>2, TypeInvariant, PTL DEF Spec

-----------------------------------------------------------------------------
(* The pool's index is exact *)

\* The only steps that touch the pool are its Add and its Remove.
LEMMA PoolSteps ==
    ASSUME TypeInv, Next
    PROVE  \/ UNCHANGED inbox
           \/ \E m \in Message, h \in Nat : PoolAdd(m, h)
           \/ \E M : PoolRemove(M)
<1> USE DEF TypeInv
<1>1. ASSUME NEW p \in publishing, Publish(p[1], p[2])
      PROVE  \E m \in Message, h \in Nat : PoolAdd(m, h)
  <2>1. p[1] \in Message /\ p[2] \in Nat
    BY DEF TypeOK
  <2> QED BY <1>1, <2>1 DEF Publish
<1>2. ASSUME NEW m \in GossipMsgs, Receive(m)
      PROVE  \E n \in Message, h \in Nat : PoolAdd(n, h)
  <2>1. m \in Message /\ Height[head] \in Nat
    BY MessagingAssumption, ZenonT(60) DEF TypeOK
  <2> QED BY <1>2, <2>1 DEF Receive
<1>3. CASE RestoreOld
  <2>1. events # <<>>
    BY <1>3 DEF RestoreOld, Busy
  <2>2. PICK first \in Lowest(NewTips) : PoolAdd(Head(todo), Height[first])
    BY <1>3 DEF RestoreOld
  <2>3. first \in Tips
    BY <2>1, NewHeadFacts DEF Lowest
  <2>4. Head(todo) \in Message
    <3>1. todo \in Seq(Message) /\ todo # <<>>
      BY <1>3, ZenonT(60) DEF RestoreOld, TypeOK
    <3> QED BY <3>1
  <2>5. Height[first] \in Nat
    BY <2>3, MessagingAssumption
  <2> QED BY <2>2, <2>4, <2>5
<1>4. ASSUME NEW c \in removeCids, Purge(c)
      PROVE  \E M : PoolRemove(M)
  BY <1>4 DEF Purge
<1>5. CASE TimeoutMessages
  BY <1>5 DEF TimeoutMessages
<1> QED BY <1>1, <1>2, <1>3, <1>4, <1>5, ZenonT(60)
        DEF Next, SendStart, SendSign, SendEnqueue, SignedSend, Clear, SetHead, HandleNewHead,
            LoadMessages, RemoveMined, RemovedMined, RequeueRestored, Expire, RestoredOld

\* Every step keeps the index exact.
LEMMA IndexStep ==
    ASSUME TypeInv, PoolIndexExact, Next
    PROVE  PoolIndexExact'
<1>1. ASSUME NEW m \in Message, NEW h \in Nat, PoolAdd(m, h)
      PROVE  PoolIndexExact'
  <2>1. CASE m \notin DOMAIN pending /\ ValidateMessage(m)
    <3>1. DOMAIN pending' = DOMAIN pending \union {m}
      BY <1>1, <2>1 DEF PoolAdd
    <3>2. addressNonces' = addressNonces \union {<<m.from, m.nonce>>}
      BY <1>1, <2>1 DEF PoolAdd
    <3>3. addressNonces' = {<<n.from, n.nonce>> : n \in DOMAIN pending'}
      BY <3>1, <3>2 DEF PoolIndexExact
    <3>4. \A n \in DOMAIN pending : ~(n.from = m.from /\ n.nonce = m.nonce)
      BY <2>1 DEF ValidateMessage, PoolIndexExact
    <3>5. \A n, o \in DOMAIN pending' : n.from = o.from /\ n.nonce = o.nonce => n = o
      BY <3>1, <3>4 DEF PoolIndexExact
    <3> QED BY <3>3, <3>5 DEF PoolIndexExact
  <2>2. CASE ~(m \notin DOMAIN pending /\ ValidateMessage(m))
    BY <1>1, <2>2 DEF PoolAdd, inbox, PoolIndexExact
  <2> QED BY <2>1, <2>2
<1>2. ASSUME NEW M, PoolRemove(M)
      PROVE  PoolIndexExact'
  <2> DEFINE gone == M \intersect DOMAIN pending
  <2>1. DOMAIN pending' = DOMAIN pending \ gone
    BY <1>2 DEF PoolRemove
  <2>2. addressNonces' = addressNonces \ {<<m.from, m.nonce>> : m \in gone}
    BY <1>2 DEF PoolRemove
  <2>3. ASSUME NEW n \in DOMAIN pending'
        PROVE  <<n.from, n.nonce>> \in addressNonces'
    <3>1. n \in DOMAIN pending /\ n \notin gone
      BY <2>1
    <3>2. \A m \in gone : <<m.from, m.nonce>> # <<n.from, n.nonce>>
      BY <3>1 DEF PoolIndexExact
    <3>3. <<n.from, n.nonce>> \in addressNonces
      BY <3>1 DEF PoolIndexExact
    <3> QED BY <2>2, <3>2, <3>3
  <2>4. ASSUME NEW a \in addressNonces'
        PROVE  \E n \in DOMAIN pending' : a = <<n.from, n.nonce>>
    <3>1. PICK n \in DOMAIN pending : a = <<n.from, n.nonce>>
      BY <2>2 DEF PoolIndexExact
    <3>2. n \notin gone
      BY <2>2, <3>1
    <3> QED BY <2>1, <3>1, <3>2
  <2>5. addressNonces' = {<<n.from, n.nonce>> : n \in DOMAIN pending'}
    BY <2>3, <2>4
  <2> QED BY <2>1, <2>5 DEF PoolIndexExact
<1>3. CASE UNCHANGED inbox
  BY <1>3 DEF inbox, PoolIndexExact
<1> QED BY <1>1, <1>2, <1>3, PoolSteps

\* The pool's index holds the nonces of the pool's messages, no more and no
\* fewer, and no two messages of one sender have the same nonce.
THEOREM ExactIndex == Spec => []PoolIndexExact
<1>1. Init => PoolIndexExact
  <2> SUFFICES ASSUME Init PROVE PoolIndexExact
    OBVIOUS
  <2>1. DOMAIN pending = {}
    BY DEF Init
  <2> QED BY <2>1 DEF Init, PoolIndexExact
<1>2. TypeInv /\ PoolIndexExact /\ [Next]_vars => PoolIndexExact'
  <2>1. ASSUME PoolIndexExact, UNCHANGED vars PROVE PoolIndexExact'
    BY <2>1 DEF vars, PoolIndexExact
  <2> QED BY <2>1, IndexStep
<1> QED BY <1>1, <1>2, TypeInvariant, PTL DEF Spec

-----------------------------------------------------------------------------
(* The pool holds nothing that is mined *)

\* The newest event is the head.
LEMMA LastEventStep ==
    ASSUME TypeInv, LastEvent, Next
    PROVE  LastEvent'
<1> USE DEF TypeInv
<1>1. ASSUME NEW ts \in Tips, SetHead(ts)
      PROVE  LastEvent'
  <2>1. events' = Append(events, ts) /\ head' = ts /\ events \in Seq(Tips)
    BY <1>1 DEF SetHead, TypeOK
  <2>2. Len(events') # 0 /\ events'[Len(events')] = ts
    BY <2>1
  <2>3. events' # <<>>
    BY <2>2
  <2> QED BY <2>1, <2>2, <2>3 DEF LastEvent
<1>2. CASE TimeoutMessages
  <2>1. events # <<>> /\ events \in Seq(Tips)
    BY <1>2 DEF TimeoutMessages, Busy, TypeOK
  <2>2. events' = Tail(events) /\ prevHead' = Head(events) /\ head' = head
    BY <1>2 DEF TimeoutMessages, NewHead
  <2>3. head = events[Len(events)]
    BY <2>1 DEF LastEvent
  <2>4. CASE Len(events) = 1
    <3>1. Head(events) = events[1]
      BY <2>1
    <3>2. Tail(events) \in Seq(Tips) /\ Len(Tail(events)) = 0
      BY <2>1, <2>4
    <3>3. Tail(events) = <<>>
      BY <3>2, EmptySeq, ZenonT(60)
    <3> QED BY <2>2, <2>3, <2>4, <3>1, <3>3 DEF LastEvent
  <2>5. CASE Len(events) # 1
    <3> DEFINE t == Tail(events)
    <3>1. Len(events) \in Nat /\ Len(events) # 0
      BY <2>1
    <3>2. Len(t) = Len(events) - 1
      BY <2>1
    <3>3. Len(t) \in 1..Len(t)
      BY <3>1, <3>2, <2>5
    <3>4. t[Len(t)] = events[Len(events)]
      BY <2>1, <3>1, <3>2, <3>3
    <3>5. t # <<>>
      <4>1. Len(<<>>) = 0
        OBVIOUS
      <4> HIDE DEF t
      <4> QED BY <4>1, <3>1, <3>2, <2>5
    <3> HIDE DEF t
    <3>6. events' = t
      BY <2>2 DEF t
    <3> QED BY <2>2, <2>3, <3>4, <3>5, <3>6, ZenonT(60) DEF LastEvent
  <2> QED BY <2>4, <2>5
<1>3. CASE UNCHANGED <<head, events, prevHead>>
  BY <1>3 DEF LastEvent
<1> QED BY <1>1, <1>2, <1>3, ZenonT(60)
        DEF Next, handler, SendStart, SendSign, SendEnqueue, SignedSend, Clear, Publish, Receive,
            HandleNewHead, LoadMessages, RemoveMined, RemovedMined, RequeueRestored, Expire,
            RestoreOld, RestoredOld, Purge

\* A message that the pool's checks let in is not on the chain of the head.
LEMMA ValidatedNotMined ==
    ASSUME TypeOK, NEW m \in Message, ValidateMessage(m)
    PROVE  m \notin OnChain(head)
<1>1. head \in Tips /\ m.from \in Addr /\ m.nonce \in Nonce
  BY ZenonT(60) DEF TypeOK, Message
<1>2. ActorNonce(head, m.from) \in Nat /\ MaxNonce \in Nat /\ MaxNonceGap \in Nat
  BY <1>1, MessagingAssumption
<1>3. m.nonce \in Int
  BY <1>1, <1>2 DEF Nonce
<1>4. m.nonce - ActorNonce(head, m.from) \in 0..MaxNonceGap
  BY DEF ValidateMessage
<1>5. ~(m.nonce < ActorNonce(head, m.from))
  BY <1>2, <1>3, <1>4
<1> QED BY <1>1, <1>5, MessagingAssumption

\* Some event still to be handled has a head whose chain lacks the message.
Pending(m) == \E k \in 1..Len(events) : m \notin OnChain(events[k])

\* PoolCovered for one message.
Covered(m) ==
  \/ Pending(m)
  \/ /\ m \notin OnChain(prevHead)
     /\ step = "purge" => m \in removeCids

\* Every step keeps the pool covered.
LEMMA CoveredStep ==
    ASSUME TypeInv, LastEvent, PoolCovered, Next
    PROVE  PoolCovered'
<1> USE DEF TypeInv
<1>0. ASSUME UNCHANGED <<events, prevHead, removeCids>>, step' = "purge" => step = "purge",
             NEW m \in DOMAIN pending
      PROVE  Covered(m)'
  <2>1. Covered(m)
    BY <1>0 DEF PoolCovered, Covered, Pending
  <2>2. \A ts : OnChain(ts)' = OnChain(ts)
    BY DEF OnChain, Chain
  <2> QED BY <1>0, <2>1, <2>2 DEF Covered, Pending
<1>1. ASSUME NEW m \in Message, NEW h \in Nat, PoolAdd(m, h),
             UNCHANGED <<events, prevHead, step, removeCids>>
      PROVE  PoolCovered'
  <2>1. CASE m \notin DOMAIN pending /\ ValidateMessage(m)
    <3>1. DOMAIN pending' = DOMAIN pending \union {m}
      BY <1>1, <2>1 DEF PoolAdd
    <3>2. m \notin OnChain(head)
      BY <2>1, ValidatedNotMined
    <3>3. Covered(m)
      <4>1. CASE events = <<>>
        <5>1. head = prevHead /\ step = "wait"
          BY <4>1 DEF LastEvent, Busy
        <5> QED BY <3>2, <5>1 DEF Covered
      <4>2. CASE events # <<>>
        <5>1. head = events[Len(events)]
          BY <4>2 DEF LastEvent
        <5>2. Len(events) \in 1..Len(events)
          BY <4>2 DEF TypeOK
        <5> QED BY <3>2, <5>1, <5>2 DEF Covered, Pending
      <4> QED BY <4>1, <4>2
    <3>4. Covered(m)'
      <4>1. \A ts : OnChain(ts)' = OnChain(ts)
        BY DEF OnChain, Chain
      <4> QED BY <1>1, <3>3, <4>1 DEF Covered, Pending
    <3>5. \A n \in DOMAIN pending : Covered(n)'
      BY <1>0, <1>1
    <3> QED BY <3>1, <3>4, <3>5 DEF PoolCovered, Covered, Pending
  <2>2. CASE ~(m \notin DOMAIN pending /\ ValidateMessage(m))
    <3>1. pending' = pending
      BY <1>1, <2>2 DEF PoolAdd, inbox
    <3>2. \A n \in DOMAIN pending : Covered(n)'
      BY <1>0, <1>1
    <3> QED BY <3>1, <3>2 DEF PoolCovered, Covered, Pending
  <2> QED BY <2>1, <2>2
<1>2. ASSUME UNCHANGED <<events, prevHead, inbox, removeCids>>,
             step' = "purge" => step = "purge"
      PROVE  PoolCovered'
  <2>1. pending' = pending
    BY <1>2 DEF inbox
  <2>2. \A n \in DOMAIN pending : Covered(n)'
    BY <1>0, <1>2
  <2> QED BY <2>1, <2>2 DEF PoolCovered, Covered, Pending
<1>3. ASSUME NEW p \in publishing, Publish(p[1], p[2])
      PROVE  PoolCovered'
  <2>1. p[1] \in Message /\ p[2] \in Nat
    BY DEF TypeOK
  <2> QED BY <1>1, <1>3, <2>1 DEF Publish, handler, work
<1>4. ASSUME NEW m \in GossipMsgs, Receive(m)
      PROVE  PoolCovered'
  <2>1. m \in Message /\ Height[head] \in Nat
    BY MessagingAssumption, ZenonT(60) DEF TypeOK
  <2> QED BY <1>1, <1>4, <2>1 DEF Receive, handler, work
<1>5. ASSUME NEW ts \in Tips, SetHead(ts)
      PROVE  PoolCovered'
  <2>1. events \in Seq(Tips) /\ events' = Append(events, ts)
    BY <1>5, ZenonT(60) DEF SetHead, TypeOK
  <2>2. \A k \in 1..Len(events) : k \in 1..Len(events') /\ events'[k] = events[k]
    BY <2>1
  <2>3. UNCHANGED <<prevHead, pending, step, removeCids>>
    BY <1>5 DEF SetHead, inbox, work
  <2>4. ASSUME NEW m \in DOMAIN pending
        PROVE  \/ \E k \in 1..Len(events') : m \notin OnChain(events[k])'
               \/ /\ m \notin OnChain(prevHead)'
                  /\ step' = "purge" => m \in removeCids'
    <3>1. ASSUME NEW k \in 1..Len(events), m \notin OnChain(events[k])
          PROVE  m \notin OnChain(events[k])' /\ k \in 1..Len(events')
      BY <2>2, <3>1 DEF OnChain, Chain
    <3>2. CASE m \notin OnChain(prevHead)
      BY <2>3, <3>1, <3>2 DEF PoolCovered, OnChain, Chain
    <3>3. CASE m \in OnChain(prevHead)
      BY <3>1, <3>3, ZenonT(60) DEF PoolCovered
    <3> QED BY <3>2, <3>3
  <2> QED BY <2>3, <2>4 DEF PoolCovered
<1>6. CASE RestoreOld
  <2>1. events # <<>>
    BY <1>6 DEF RestoreOld, Busy
  <2>2. PICK first \in Lowest(NewTips) : PoolAdd(Head(todo), Height[first])
    BY <1>6 DEF RestoreOld
  <2>3. first \in Tips
    BY <2>1, NewHeadFacts DEF Lowest
  <2>4. Head(todo) \in Message
    <3>1. todo \in Seq(Message) /\ todo # <<>>
      BY <1>6 DEF RestoreOld, TypeOK
    <3> QED BY <3>1
  <2>5. Height[first] \in Nat
    BY <2>3, MessagingAssumption
  <2> QED BY <1>1, <1>6, <2>2, <2>4, <2>5 DEF RestoreOld
<1>7. CASE RestoredOld
  <2>1. events # <<>>
    BY <1>7 DEF RestoredOld, Busy
  <2>2. 1 \in 1..Len(events) /\ NewHead = events[1]
    BY <2>1 DEF TypeOK, NewHead
  <2>3. ASSUME NEW m \in DOMAIN pending, ~Pending(m)
        PROVE  m \notin OnChain(prevHead) /\ m \in removeCids'
    <3>1. m \notin OnChain(prevHead)
      BY <2>3 DEF PoolCovered, Pending
    <3>2. m \in OnChain(NewHead)
      BY <2>2, <2>3 DEF Pending
    <3>3. PICK t \in Chain(NewHead) : m \in Range(Mined[t])
      BY <3>2 DEF OnChain
    <3>4. t \notin Chain(prevHead)
      BY <3>1, <3>3 DEF OnChain
    <3> QED BY <1>7, <3>1, <3>3, <3>4 DEF RestoredOld, NewTips
  <2>4. UNCHANGED <<events, prevHead, pending>>
    BY <1>7 DEF RestoredOld, inbox
  <2>5. ASSUME NEW m \in DOMAIN pending
        PROVE  \/ \E k \in 1..Len(events') : m \notin OnChain(events[k])'
               \/ m \notin OnChain(prevHead)' /\ m \in removeCids'
    <3>1. CASE Pending(m)
      BY <2>4, <3>1 DEF Pending, OnChain, Chain
    <3>2. CASE ~Pending(m)
      BY <2>3, <2>4, <3>2 DEF OnChain, Chain
    <3> QED BY <3>1, <3>2
  <2> QED BY <2>4, <2>5 DEF PoolCovered
<1>8. ASSUME NEW c \in removeCids, Purge(c)
      PROVE  PoolCovered'
  <2>1. DOMAIN pending' = DOMAIN pending \ {c}
    BY <1>8, PoolRemoveTyped, ZenonT(60) DEF Purge
  <2>2. removeCids' = removeCids \ {c} /\ UNCHANGED <<events, prevHead, step>>
    BY <1>8 DEF Purge
  <2> QED BY <2>1, <2>2 DEF PoolCovered, OnChain, Chain
<1>9. CASE TimeoutMessages
  <2>1. DOMAIN pending' \subseteq DOMAIN pending
    BY <1>9, PoolRemoveTyped, ZenonT(60) DEF TimeoutMessages
  <2>2. events # <<>> /\ events \in Seq(Tips)
    BY <1>9 DEF TimeoutMessages, Busy, TypeOK
  <2>3. events' = Tail(events) /\ prevHead' = events[1] /\ step' = "wait"
    BY <1>9, <2>2 DEF TimeoutMessages, NewHead
  <2>4. Len(events') = Len(events) - 1 /\ Len(events) \in Nat
    BY <2>2, <2>3
  <2>5. ASSUME NEW m \in DOMAIN pending'
        PROVE  \/ m \notin OnChain(prevHead)'
               \/ \E k \in 1..Len(events') : m \notin OnChain(events[k])'
    <3>1. PICK k \in 1..Len(events) : m \notin OnChain(events[k])
      BY <1>9, <2>1 DEF PoolCovered, TimeoutMessages
    <3>2. CASE k = 1
      BY <2>3, <3>1, <3>2 DEF OnChain, Chain
    <3>3. CASE k # 1
      <4>1. k - 1 \in 1..Len(events')
        BY <2>4, <3>3
      <4>2. events'[k - 1] = events[k]
        BY <2>2, <2>3, <3>3
      <4> QED BY <3>1, <4>1, <4>2, ZenonT(60) DEF OnChain, Chain
    <3> QED BY <3>2, <3>3
  <2> QED BY <2>3, <2>5, ZenonT(60) DEF PoolCovered
<1>10. CASE HandleNewHead \/ LoadMessages \/ RemoveMined \/ RemovedMined
            \/ RequeueRestored \/ Expire
  BY <1>2, <1>10, ZenonT(60) DEF HandleNewHead, LoadMessages, RemoveMined, RemovedMined,
                     RequeueRestored, Expire, Start
<1>11. CASE UNCHANGED <<handler, inbox>>
  BY <1>2, <1>11 DEF handler, work
<1> QED BY <1>3, <1>4, <1>5, <1>6, <1>7, <1>8, <1>9, <1>10, <1>11, ZenonT(60)
        DEF Next, SendStart, SendSign, SendEnqueue, SignedSend, Clear

\* Once the handler has caught up with the head, no message of the pool is on
\* the chain: each was off the chain of the head it was checked against, and
\* the handler removes what later heads brought.
THEOREM NothingMinedInPool == Spec => []PoolNotMined
<1>1. Init => LastEvent /\ PoolCovered
  <2> SUFFICES ASSUME Init PROVE LastEvent /\ PoolCovered
    OBVIOUS
  <2>1. DOMAIN pending = {}
    BY DEF Init
  <2> QED BY <2>1 DEF Init, LastEvent, PoolCovered
<1>2. TypeInv /\ LastEvent /\ PoolCovered /\ [Next]_vars => LastEvent' /\ PoolCovered'
  <2>1. ASSUME LastEvent, PoolCovered, UNCHANGED vars
        PROVE  LastEvent' /\ PoolCovered'
    <3>1. UNCHANGED <<head, events, prevHead, pending, step, removeCids>>
      BY <2>1 DEF vars
    <3>2. LastEvent'
      BY <2>1, <3>1 DEF LastEvent
    <3>3. ASSUME NEW m \in DOMAIN pending
          PROVE  \/ \E k \in 1..Len(events') : m \notin OnChain(events[k])'
                 \/ /\ m \notin OnChain(prevHead)'
                    /\ step' = "purge" => m \in removeCids'
      <4>1. CASE \E k \in 1..Len(events) : m \notin OnChain(events[k])
        BY <3>1, <4>1 DEF OnChain, Chain
      <4>2. CASE m \notin OnChain(prevHead) /\ (step = "purge" => m \in removeCids)
        BY <3>1, <4>2 DEF OnChain, Chain
      <4> QED BY <2>1, <4>1, <4>2, ZenonT(60) DEF PoolCovered
    <3>4. PoolCovered'
      BY <3>1, <3>3 DEF PoolCovered
    <3> QED BY <3>2, <3>4
  <2> QED BY <2>1, LastEventStep, CoveredStep
<1>3. TypeInv /\ LastEvent /\ PoolCovered => PoolNotMined
  <2> SUFFICES ASSUME TypeInv, LastEvent, PoolCovered, step = "wait", events = <<>>,
                      NEW m \in DOMAIN pending
               PROVE  m \notin OnChain(head)
    BY DEF PoolNotMined
  <2>1. head = prevHead
    BY DEF LastEvent
  <2>2. Len(events) = 0
    OBVIOUS
  <2>3. \A k \in 1..0 : FALSE
    OBVIOUS
  <2> QED BY <2>1, <2>2, <2>3 DEF PoolCovered
<1> QED BY <1>1, <1>2, <1>3, TypeInvariant, PTL DEF Spec
=============================================================================
