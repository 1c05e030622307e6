------------------------------ MODULE Commands ------------------------------
(***************************************************************************)
(* The commands of a running node (cmd/go-filecoin), each the sequence of  *)
(* calls its Run function makes once its arguments have been parsed, and   *)
(* the system they run in: several clients, each with one command, the     *)
(* goroutines that publish their messages, the head events, the node's     *)
(* head handler, and a chain that grows.                                   *)
(*                                                                         *)
(* A request r names the command (cmd), the sender given (from, Nobody for *)
(* the default), the address it is about (of), its argument (arg), whether *)
(* it is a preview, and the message it names (msg, at most one).           *)
(***************************************************************************)
EXTENDS Porcelain

\* A sequence of [setup, ask, bound]: the state of a node, the requests of its
\* clients, and the number of tipsets its chain may reach.
CONSTANT Workloads

VARIABLE work           \* the index of this behaviour's workload

vars == <<walletVars, node, msgVars, chainVars, local, work>>

\* utils.go, main.go
fromAddrOrDefault(r) == IF r.from = Nobody THEN WalletDefaultAddress ELSE <<>>

\* The shape of the commands that send a message: its gas is previewed, or it
\* is sent and its cid returned at once.
SendOrPreview(r, to, method) ==
    fromAddrOrDefault(r) \o (IF r.preview THEN MessagePreview_(to) ELSE MessageSend(to, method, r.arg))

-----------------------------------------------------------------------------
(* message.go, mpool.go, outbox.go *)

msgSendCmd(r) == SendOrPreview(r, r.of, "send")
signedMsgSendCmd(r) == Call("SignedSend")
\* The callback looks up the signature of the method called; a wait that found
\* the message succeeds whatever that lookup says.
msgWaitCmd(r) == MessageWait("any", TRUE)

\* The pool, then the outbox, then the chain.
msgStatusCmd(r) ==
    <<[op |-> "MessagePoolGet", must |-> "any"]>> \o Call("OutboxQueueLs") \o Call("Find")

mpoolLsCmd(r) == <<[op |-> "MessagePoolWait", count |-> r.count]>>
mpoolShowCmd(r) == <<[op |-> "MessagePoolGet", must |-> "set"]>>
mpoolRemoveCmd(r) == Call("MessagePoolRemove")
outboxLsCmd(r) == Call("OutboxQueueLs")
\* The address given, or the addresses of all queues, one after the other.
queueAddressesFromArg(r) == IF r.of = Nobody THEN <<"a", "b", "c">> ELSE <<r.of>>
outboxClearCmd(r) ==
    LET addrs == queueAddressesFromArg(r)
    IN  [i \in DOMAIN addrs |-> [op |-> "OutboxQueueClear", of |-> addrs[i]]]

-----------------------------------------------------------------------------
(* payment_channel.go *)

createChannelCmd(r) == SendOrPreview(r, Broker, "createChannel")
lsCmd(r) == fromAddrOrDefault(r) \o PaymentChannelLs(r.of)
voucherCmd(r) == fromAddrOrDefault(r) \o PaymentChannelVoucher
redeemCmd(r) == SendOrPreview(r, Broker, "redeem")
reclaimCmd(r) == SendOrPreview(r, Broker, "reclaim")
closeCmd(r) == SendOrPreview(r, Broker, "close")
extendCmd(r) == SendOrPreview(r, Broker, "extend")
cancelCmd(r) == SendOrPreview(r, Broker, "cancel")

-----------------------------------------------------------------------------
(* miner.go, mining.go *)

minerCreateCmd(r) ==
    ProtocolParameters \o fromAddrOrDefault(r)
        \o (IF r.preview THEN MinerPreviewCreate ELSE MinerCreate(r.arg))
minerSetPriceCmd(r) ==
    fromAddrOrDefault(r) \o (IF r.preview THEN MinerPreviewSetPrice(r.of, r.arg)
                             ELSE MinerSetPrice(r.of, r.arg))
minerUpdatePeerIDCmd(r) == SendOrPreview(r, r.of, "updatePeerID")
minerOwnerCmd(r) == MinerGetOwnerAddress(r.of)
minerPowerCmd(r) == MinerGetPower(r.of)
minerCollateralCmd(r) == MinerGetCollateral(r.of)
minerProvingWindowCmd(r) == MinerGetProvingWindow(r.of)
minerSetWorkerAddressCmd(r) == MinerSetWorkerAddress(r.arg)
minerWorkerAddressCmd(r) ==
    <<[op |-> "ConfigGet", must |-> "any"]>> \o MinerGetWorkerAddress(Miner)

miningAddrCmd(r) == MiningAddress
miningOnceCmd(r) == MiningOnce
miningSetupCmd(r) == SetupMining
miningStartCmd(r) == StartMining
miningStatusCmd(r) ==
    MiningAddress \o MinerGetProvingWindow(Miner) \o MinerGetOwnerAddress(Miner)
        \o MinerGetCollateral(Miner) \o MinerGetPower(Miner)
miningStopCmd(r) == Call("StopMining")
miningSealCmd(r) == SealNow
miningAddPieceCmd(r) == AddPiece

-----------------------------------------------------------------------------
(* client.go, deals.go *)

clientCatCmd(r) == Call("Elsewhere")
clientImportDataCmd(r) == Call("Elsewhere")

\* ProposeDeal of the storage client, as far as it calls the API: the sizes and
\* the commitment, the ask, the height, the payer, the owner and the worker of
\* the miner, the duplicate check and the ping, the payments, the proposal.
clientProposeStorageDealCmd(r) ==
    MinerGetPeerID(r.of) \o Call("Elsewhere") \o MinerGetSectorSize(r.of) \o Call("Elsewhere")
        \o MinerGetAsk(r.of)
        \o Call("HeightRead") \o WalletDefaultAddress \o MinerGetOwnerAddress(r.of)
        \o MinerGetWorkerAddress(r.of) \o Call("Elsewhere") \o CreatePayments
        \o SignVoucher \o Call("Elsewhere")

QueryDeal(of) == DealGet \o MinerGetWorkerAddress(of) \o MinerGetPeerID(of) \o Call("Elsewhere")
clientQueryStorageDealCmd(r) == QueryDeal(r.of)
clientVerifyStorageDealCmd(r) == QueryDeal(r.of) \o ClientVerifyStorageDeal(r.of)
clientListAsksCmd(r) == ClientListAsks
paymentsCmd(r) == DealGet
dealsListCmd(r) == <<[op |-> "ConfigGet", must |-> "any"]>> \o DealsLs
dealsRedeemCmd(r) ==
    fromAddrOrDefault(r) \o (IF r.preview THEN DealRedeemPreview ELSE DealRedeem)
dealsShowCmd(r) == DealGet

-----------------------------------------------------------------------------
(* address.go, config.go, actor.go, chain.go, show.go *)

addrsNewCmd(r) == <<[op |-> "putKeyInfo", value |-> r.arg]>>
addrsLsCmd(r) == Call("Elsewhere")
addrsLookupCmd(r) == MinerGetPeerID(r.of)
defaultAddressCmd(r) == WalletDefaultAddress
balanceCmd(r) == WalletBalance(r.of)
walletImportCmd(r) == <<[op |-> "putKeyInfo", value |-> r.arg]>>
walletExportCmd(r) == <<[op |-> "FindKey", of |-> r.of]>>
configCmd(r) ==
    IF r.arg = Nobody THEN <<[op |-> "ConfigGet", must |-> "any"]>>
    ELSE <<[op |-> "ConfigSet", field |-> r.of, value |-> r.arg]>>
actorLsCmd(r) == Query("actors", Nobody)
storeHeadCmd(r) == ChainHead
storeLsCmd(r) == ChainHead
showBlockCmd(r) == GetFullBlock
showHeaderCmd(r) == Call("Elsewhere")
showMessagesCmd(r) == Call("Elsewhere")
showReceiptsCmd(r) == Call("Elsewhere")

-----------------------------------------------------------------------------
(* The command tree of main.go, and the system *)

rootCmd(r) ==
    CASE r.cmd = "message send" -> msgSendCmd(r)
      [] r.cmd = "message signed-send" -> signedMsgSendCmd(r)
      [] r.cmd = "message wait" -> msgWaitCmd(r)
      [] r.cmd = "message status" -> msgStatusCmd(r)
      [] r.cmd = "mpool ls" -> mpoolLsCmd(r)
      [] r.cmd = "mpool show" -> mpoolShowCmd(r)
      [] r.cmd = "mpool rm" -> mpoolRemoveCmd(r)
      [] r.cmd = "outbox ls" -> outboxLsCmd(r)
      [] r.cmd = "outbox clear" -> outboxClearCmd(r)
      [] r.cmd = "paych create" -> createChannelCmd(r)
      [] r.cmd = "paych ls" -> lsCmd(r)
      [] r.cmd = "paych voucher" -> voucherCmd(r)
      [] r.cmd = "paych redeem" -> redeemCmd(r)
      [] r.cmd = "paych reclaim" -> reclaimCmd(r)
      [] r.cmd = "paych close" -> closeCmd(r)
      [] r.cmd = "paych extend" -> extendCmd(r)
      [] r.cmd = "paych cancel" -> cancelCmd(r)
      [] r.cmd = "miner create" -> minerCreateCmd(r)
      [] r.cmd = "miner set-price" -> minerSetPriceCmd(r)
      [] r.cmd = "miner update-peerid" -> minerUpdatePeerIDCmd(r)
      [] r.cmd = "miner owner" -> minerOwnerCmd(r)
      [] r.cmd = "miner power" -> minerPowerCmd(r)
      [] r.cmd = "miner collateral" -> minerCollateralCmd(r)
      [] r.cmd = "miner proving-window" -> minerProvingWindowCmd(r)
      [] r.cmd = "miner set-worker" -> minerSetWorkerAddressCmd(r)
      [] r.cmd = "miner worker" -> minerWorkerAddressCmd(r)
      [] r.cmd = "mining address" -> miningAddrCmd(r)
      [] r.cmd = "mining once" -> miningOnceCmd(r)
      [] r.cmd = "mining setup" -> miningSetupCmd(r)
      [] r.cmd = "mining start" -> miningStartCmd(r)
      [] r.cmd = "mining status" -> miningStatusCmd(r)
      [] r.cmd = "mining stop" -> miningStopCmd(r)
      [] r.cmd = "mining seal-now" -> miningSealCmd(r)
      [] r.cmd = "mining add-piece" -> miningAddPieceCmd(r)
      [] r.cmd = "client cat" -> clientCatCmd(r)
      [] r.cmd = "client import" -> clientImportDataCmd(r)
      [] r.cmd = "client propose-storage-deal" -> clientProposeStorageDealCmd(r)
      [] r.cmd = "client query-storage-deal" -> clientQueryStorageDealCmd(r)
      [] r.cmd = "client verify-storage-deal" -> clientVerifyStorageDealCmd(r)
      [] r.cmd = "client list-asks" -> clientListAsksCmd(r)
      [] r.cmd = "client payments" -> paymentsCmd(r)
      [] r.cmd = "deals list" -> dealsListCmd(r)
      [] r.cmd = "deals redeem" -> dealsRedeemCmd(r)
      [] r.cmd = "deals show" -> dealsShowCmd(r)
      [] r.cmd = "address new" -> addrsNewCmd(r)
      [] r.cmd = "address ls" -> addrsLsCmd(r)
      [] r.cmd = "address lookup" -> addrsLookupCmd(r)
      [] r.cmd = "address default" -> defaultAddressCmd(r)
      [] r.cmd = "wallet balance" -> balanceCmd(r)
      [] r.cmd = "wallet import" -> walletImportCmd(r)
      [] r.cmd = "wallet export" -> walletExportCmd(r)
      [] r.cmd = "config" -> configCmd(r)
      [] r.cmd = "actor ls" -> actorLsCmd(r)
      [] r.cmd = "chain head" -> storeHeadCmd(r)
      [] r.cmd = "chain ls" -> storeLsCmd(r)
      [] r.cmd = "show block" -> showBlockCmd(r)
      [] r.cmd = "show header" -> showHeaderCmd(r)
      [] r.cmd = "show messages" -> showMessagesCmd(r)
      [] r.cmd = "show receipts" -> showReceiptsCmd(r)

Plans == [w \in DOMAIN Workloads |-> [c \in Clients |-> rootCmd(Workloads[w].ask[c])]]
Plan(c) == Plans[work][c]
Request(c) == Workloads[work].ask[c]

Setup == Workloads[work].setup

Genesis ==
    [msgs |-> <<>>, exits |-> <<>>, head |-> TRUE,
     state |-> [nonce |-> [a \in {"a", "c"} |-> 0], channels |-> [a \in {"a", "c"} |-> <<>>],
                miners |-> Setup.miners, proofs |-> 0]]

Init ==
    /\ work \in DOMAIN Workloads
    /\ config = [minerAddress |-> Setup.miner, storagePrice |-> Nobody,
                 defaultAddress |-> Setup.default]
    /\ keys = Setup.keys
    /\ node = [mining |-> FALSE, scheduler |-> FALSE, builder |-> 0, worker |-> 0, miner |-> 0]
    /\ nonceLock = Nobody
    /\ queue = [a \in KeyAddresses |-> <<>>]
    /\ outgoing = {} /\ pool = {} /\ network = {}
    /\ chain = <<Genesis>>
    /\ events = [subs |-> {Node}, head |-> 1, left |-> {}, pubbed |-> 1]
    /\ inbox = [s \in Subscribers |-> <<>>]
    /\ handled = 1
    /\ local = [c \in Clients |-> Idle]

\* The command starts, with the sender and the message it was given.
Begin(c) ==
    /\ local[c].at = 0
    /\ LET r == Request(c)
       IN  local' = [local EXCEPT ![c] =
               [@ EXCEPT !.at = 1, !.from = r.from, !.sent = r.msg, !.since = Height,
                         !.known = \E m \in Range(r.msg) :
                                       m \in Range(queue[m.from]) \union MinedBy(Height)]]
    /\ UNCHANGED <<walletVars, node, msgVars, chainVars, work>>

Step(c) ==
    /\ local[c].reply = "" /\ local[c].at \in DOMAIN Plan(c)
    /\ UNCHANGED work
    /\ \E k \in {Plan(c)[local[c].at]} :
         \/ k.op = "ConfigGet" /\ ConfigGet(c, k)
         \/ k.op = "ConfigSet" /\ ConfigSet(c, k)
         \/ k.op = "DefaultRead" /\ DefaultRead(c, k)
         \/ k.op = "DefaultPick" /\ DefaultPick(c, k)
         \/ k.op = "putKeyInfo" /\ putKeyInfo(c, k)
         \/ k.op = "FindKey" /\ FindKey(c, k)
         \/ k.op = "MessageQuery" /\ MessageQuery(c, k)
         \/ k.op = "MessagePreview" /\ MessagePreview(c, k)
         \/ k.op = "OwnerRead" /\ OwnerRead(c, k)
         \/ k.op = "HeightRead" /\ HeightRead(c, k)
         \/ k.op = "ActorLs" /\ ActorLs(c, k)
         \/ k.op = "listAsksFromActorResult" /\ listAsksFromActorResult(c, k)
         \/ k.op = "NextNonce" /\ NextNonce(c, k)
         \/ k.op = "SignAndEnqueue" /\ SignAndEnqueue(c, k)
         \/ k.op = "SignedSend" /\ SignedSend(c, k)
         \/ k.op = "MessagePoolGet" /\ MessagePoolGet(c, k)
         \/ k.op = "OutboxQueueLs" /\ OutboxQueueLs(c, k)
         \/ k.op = "MessagePoolRemove" /\ MessagePoolRemove(c, k)
         \/ k.op = "OutboxQueueClear" /\ OutboxQueueClear(c, k)
         \/ k.op = "MessagePoolWait" /\ MessagePoolWait(c, k)
         \/ k.op = "Subscribe" /\ Subscribe(c, k)
         \/ k.op = "Find" /\ Find(c, k)
         \/ k.op = "waitForMessage" /\ waitForMessage(c, k)
         \/ k.op = "Unsubscribe" /\ Unsubscribe(c, k)
         \/ k.op = "CheckPart" /\ CheckPart(c, k)
         \/ k.op = "SetPart" /\ SetPart(c, k)
         \/ k.op = "UseBuilder" /\ UseBuilder(c, k)
         \/ k.op = "NotMining" /\ NotMining(c, k)
         \/ k.op = "StartScheduler" /\ StartScheduler(c, k)
         \/ k.op = "setIsMining" /\ setIsMining(c, k)
         \/ k.op = "StopMining" /\ StopMining(c, k)
         \/ k.op = "MineOnce" /\ MineOnce(c, k)
         \/ k.op = "Elsewhere" /\ Elsewhere(c, k)

\* A command whose calls have all returned replies.
Reply(c) ==
    /\ local[c].reply = "" /\ local[c].at = Len(Plan(c)) + 1
    /\ local' = [local EXCEPT ![c].reply = "ok"]
    /\ UNCHANGED <<walletVars, node, msgVars, chainVars, work>>

Background ==
    /\ UNCHANGED work
    /\ \/ \E m \in outgoing : Publish(m) \/ PublishCancelled(m)
       \/ NewHead /\ Height' <= Workloads[work].bound
       \/ Pub
       \/ \E s \in Subscribers : Deliver(s)
       \/ handleNewChainHeads

Next == Background \/ \E c \in Clients : Begin(c) \/ Step(c) \/ Reply(c)

\* Goroutines are scheduled: a command that has begun and can go on does, and
\* so do the publisher of head events and the node's handler.  No head need come.
Fairness ==
    /\ \A c \in Clients : WF_vars(Step(c) \/ Reply(c))
    /\ WF_vars((Pub \/ \E s \in Subscribers : Deliver(s)) /\ UNCHANGED work)
    /\ WF_vars(handleNewChainHeads /\ UNCHANGED work)

Spec == Init /\ [][Next]_vars /\ Fairness

-----------------------------------------------------------------------------
(* Properties *)

\* The call a client is about to make.
At(c, op) == /\ local[c].reply = "" /\ local[c].at \in DOMAIN Plan(c)
             /\ Plan(c)[local[c].at].op = op

\* The variables keep their shape; queues hold messages of their own sender
\* with consecutive nonces, and only a client inside Outbox.Send holds the lock.
TypeOK ==
    /\ keys \subseteq KeyAddresses /\ config.defaultAddress \in KeyAddresses \union {Nobody}
    /\ nonceLock \in Clients \union {Nobody}
    /\ nonceLock # Nobody => At(nonceLock, "SignAndEnqueue")
    /\ \A a \in KeyAddresses : \A i \in DOMAIN queue[a] :
         queue[a][i].from = a /\ queue[a][i].nonce = queue[a][1].nonce + i - 1
    /\ events.pubbed <= Height /\ handled <= events.pubbed
    /\ events.left \subseteq events.subs /\ events.subs \subseteq Subscribers
    /\ \A s \in Subscribers : Len(inbox[s]) <= Capacity /\ Range(inbox[s]) \subseteq 1..events.pubbed
    /\ \A c \in Clients : local[c].reply \in {"", "ok", "error"}

\* Every value a command reads from the chain is one that was true at some head
\* since the command began, never that of an older head the node's handler or
\* a cache still has (MessageQuery takes the head key at the moment of the call).
AnswersAreCurrent ==
    \A c \in Clients : \A i \in DOMAIN local[c].ans :
      \E h \in local[c].since..Height :
        LET a == local[c].ans[i]
        IN  Answers(chain[h].state, a.get, a.of) /\ a.val = View(chain[h].state, a.get, a.of)

\* The commands of this behaviour that take messages away on request.
Removes(c) == Request(c).cmd \in {"mpool rm", "outbox clear"}

\* "message status" of a message sent before finds it: whatever heads come
\* between its three reads, the message moves from the outbox to the chain,
\* and the chain is read last (msgStatusCmd).
StatusFindsMessage ==
    \A c \in Clients :
      Request(c).cmd = "message status" /\ local[c].reply = "ok" /\ local[c].known
          /\ (\A o \in Clients : ~Removes(o)) => local[c].seen # {}

Waiting == {"miner create", "miner set-price", "client propose-storage-deal"}

\* A command that waits for its message replies without error only when the
\* message is on the chain and succeeded there; after "miner create" the config
\* names a miner on the chain whose owner's key is in the wallet.
WaitedIsDone ==
    \A c \in Clients :
      LET r == Request(c)
          m == local[c].sent[1]
      IN  r.cmd \in Waiting /\ ~r.preview /\ local[c].reply = "ok" =>
            /\ \E h \in 1..Height : m \in Range(chain[h].msgs) /\ ReceiptIn(h, m).exit = 0
            /\ r.cmd = "miner create" =>
                 /\ config.minerAddress \in DOMAIN State.miners
                 /\ State.miners[config.minerAddress].owner \in keys

\* A reply tells the truth about the node and the chain, however many heads
\* come between the reads of the command: values are current, a message sent
\* before is found, and a command that waited for its message reports its end.
RepliesAreTrue == TypeOK /\ AnswersAreCurrent /\ StatusFindsMessage /\ WaitedIsDone

\* Two sends at once never refuse one another: the nonce lock covers the choice
\* of the nonce and the enqueueing (Outbox.Send).  A message signed elsewhere
\* bypasses the lock, so the commands are without one.
SendsDoNotCollide ==
    (\A c \in Clients : Request(c).cmd # "message signed-send") =>
      \A c \in Clients : At(c, "SignAndEnqueue") =>
        LET q == queue[local[c].from]
        IN  q = <<>> \/ local[c].nonce = LargestNonce(q) + 1

\* A node that is mining has its sector builder, worker and storage miner: the
\* sealing loop of StartMining uses all three without looking.
MiningHasItsParts ==
    node.mining => node.builder > 0 /\ node.worker > 0 /\ node.miner > 0

\* A wait for a message that gets into a tipset that is made the head ends:
\* no head falls between the search of the chain and the subscription.
WaitAnswered ==
    \A c \in Clients :
      ( /\ At(c, "waitForMessage")
        /\ \E h \in 1..Height : chain[h].head /\ local[c].sent[1] \in Range(chain[h].msgs) )
      ~> ~At(c, "waitForMessage")
=============================================================================
