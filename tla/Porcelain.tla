----------------------------- MODULE Porcelain -----------------------------
(***************************************************************************)
(* The porcelain API (internal/app/go-filecoin/porcelain) and the mining   *)
(* API, written as the calls each function makes, in order: a function is  *)
(* a sequence of calls of Plumbing, and calling two functions one after    *)
(* the other is concatenation.  A call that fails ends the command.        *)
(***************************************************************************)
EXTENDS Plumbing

Call(op) == <<[op |-> op]>>
Query(get, of) == <<[op |-> "MessageQuery", get |-> get, of |-> of]>>
Miner == Nobody         \* in a call: the miner address read from the config

-----------------------------------------------------------------------------
(* wallet.go, message.go *)

WalletDefaultAddress == Call("DefaultRead") \o Call("DefaultPick")
WalletBalance(of) == Query("balance", of)

MessageSend(to, method, arg) ==
    Call("NextNonce") \o <<[op |-> "SignAndEnqueue", of |-> to, method |-> method, arg |-> arg]>>
MessagePreview_(to) == <<[op |-> "MessagePreview", of |-> to]>>

MessageWaitMutant(must, timed) ==
    Call("Find") \o Call("Subscribe") \o <<[op |-> "waitForMessage", timed |-> timed]>>
        \o <<[op |-> "Unsubscribe", must |-> must]>>

\* Waiter.Wait: subscribe, look at the chain, follow the heads, unsubscribe.
MessageWait(must, timed) ==
    Call("Subscribe") \o Call("Find") \o <<[op |-> "waitForMessage", timed |-> timed]>>
        \o <<[op |-> "Unsubscribe", must |-> must]>>

-----------------------------------------------------------------------------
(* chain.go, protocol.go *)

retrieveActorIDForActorAddress(of) == Query("actorID", of)
GetStableActor(of) == retrieveActorIDForActorAddress(of) \o Query("actor", of)
GetStableActorSignature(of) == retrieveActorIDForActorAddress(of) \o Query("actor", of)
ChainHead == Query("head", Nobody)
GetFullBlock == Call("Elsewhere") \o Call("Elsewhere")

getProofsMode == Query("proofsMode", Market)
getNetworkName == Query("networkName", Nobody)
ProtocolParameters == getProofsMode \o getNetworkName

-----------------------------------------------------------------------------
(* miner.go *)

\* The sender is resolved by the command that calls this.
MinerCreate(arg) ==
    <<[op |-> "ConfigGet", must |-> "empty"]>>
        \o MessageSend(Market, "createStorageMiner", arg) \o MessageWait("ok", FALSE)
        \o <<[op |-> "ConfigSet", field |-> "minerAddress"]>>

\* The preview reads the configured miner, and goes on when there is one.
MinerPreviewCreate == <<[op |-> "ConfigGet", must |-> "any"]>> \o MessagePreview_(Market)

ConfiguredUnless(of) == IF of = Nobody THEN <<[op |-> "ConfigGet", must |-> "any"]>> ELSE <<>>
SetPrice(price) == <<[op |-> "ConfigSet", field |-> "storagePrice", value |-> price]>>

\* The price is set whether or not the ask is created.
MinerSetPrice(of, price) ==
    ConfiguredUnless(of) \o SetPrice(price) \o MessageSend(of, "addAsk", price)
        \o MessageWait("ok", FALSE)

\* The preview sets the price too.
MinerPreviewSetPrice(of, price) == ConfiguredUnless(of) \o SetPrice(price) \o MessagePreview_(of)

MinerSetWorkerAddress(worker) ==
    <<[op |-> "ConfigGet", must |-> "any"]>> \o Call("OwnerRead")
        \o MessageSend(Miner, "changeWorker", worker)

queryAndDeserialize(get, of) == Query(get, of) \o GetStableActorSignature(of)
MinerGetOwnerAddress(of) == Query("owner", of)
MinerGetWorkerAddress(of) == Query("worker", of)
MinerGetSectorSize(of) == queryAndDeserialize("sectorSize", of)
MinerGetLastCommittedSectorID(of) == queryAndDeserialize("lastSector", of)
MinerGetAsk(of) == Query("asks", of)
MinerGetPeerID(of) == Query("peer", of)
MinerGetCollateral(of) == Query("collateral", of)

\* Two reads, each at the head of its moment: the miner's power, then the total.
MinerGetPower(of) == Query("power", of) \o Query("totalPower", of)
MinerGetProvingWindow(of) ==
    Query("window", of) \o Query("provingSet", of) \o GetStableActorSignature(of)

-----------------------------------------------------------------------------
(* client.go, payments.go, payment_channel.go, storagedeals.go *)

ClientListAsks == Call("ActorLs") \o Call("listAsksFromActorResult")

\* The payer is the sender unless one is given.
PaymentChannelLs(payer) == Query("channels", IF payer = Nobody THEN Sender ELSE payer)
SignVoucher == <<[op |-> "FindKey", of |-> Sender]>>
PaymentChannelVoucher == Query("voucher", Sender) \o SignVoucher

createPayment == Query("voucher", Sender) \o SignVoucher

\* The channel is made and waited for; then the vouchers, here two, are made.
CreatePayments ==
    Call("HeightRead") \o MessageSend(Broker, "createChannel", "eol") \o MessageWait("ok", FALSE)
        \o createPayment \o createPayment

DealsLs == Call("Elsewhere")
DealGet == DealsLs
buildDealRedeemParams == DealGet \o Call("HeightRead")
DealRedeem == buildDealRedeemParams \o MessageSend(Broker, "redeem", "voucher")
DealRedeemPreview == buildDealRedeemParams \o MessagePreview_(Broker)
ClientVerifyStorageDeal(of) == DealGet \o Query("inclusion", of)

-----------------------------------------------------------------------------
(* sectorbuilder.go *)

SealNow == Call("UseBuilder") \o Call("UseBuilder")
AddPiece == Call("UseBuilder") \o Call("Elsewhere") \o Call("UseBuilder")

-----------------------------------------------------------------------------
(* node.go and the mining API *)

MiningAddress == <<[op |-> "ConfigGet", must |-> "set"]>>

initSectorBuilderForNode ==
    MinerGetSectorSize(Miner) \o MinerGetLastCommittedSectorID(Miner)
CreateMiningWorker == MinerGetOwnerAddress(Miner)
initStorageMinerForNode == MinerGetOwnerAddress(Miner) \o MinerGetSectorSize(Miner)

Ensure(part, build) ==
    <<[op |-> "CheckPart", part |-> part]>> \o build \o <<[op |-> "SetPart", part |-> part]>>

\* Each part is built only when it is missing.
SetupMining ==
    MiningAddress \o GetStableActor(Miner) \o Ensure("builder", initSectorBuilderForNode)
        \o Ensure("worker", CreateMiningWorker) \o Ensure("miner", initStorageMinerForNode)

StartMiningMutant ==
    Call("NotMining") \o MiningAddress \o MinerGetOwnerAddress(Miner)
        \o Call("StartScheduler") \o Call("setIsMining") \o SetupMining

StartMining ==
    Call("NotMining") \o SetupMining \o MiningAddress \o MinerGetOwnerAddress(Miner)
        \o Call("StartScheduler") \o Call("setIsMining")

MiningOnce == Call("NotMining") \o Call("HeightRead") \o SetupMining \o Call("MineOnce")
=============================================================================
