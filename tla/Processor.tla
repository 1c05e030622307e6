----------------------------- MODULE Processor -----------------------------
(***************************************************************************)
(* The message processor: genesis, the application of messages with their  *)
(* gas payments, block rewards, tipsets and their flush to the blockstore, *)
(* and the generation of blocks from pending messages.                     *)
(*                                                                         *)
(* A message is a record with from, to, nonce, value, price, limit, method *)
(* and the method's parameters.  Tipsets extend one chain; the world of    *)
(* module VM holds what the processing of a tipset has done so far.        *)
(***************************************************************************)
EXTENDS VM

CONSTANTS
    Accounts,        \* genesis: a sequence of [key, funds], funded accounts
    GenesisMiners,   \* genesis: the keys that own a bootstrap miner
    NetworkFunds,    \* what the network actor has for block rewards
    BlockReward,     \* BlockRewardAmount
    BLSKeys,         \* the keys of BLS addresses
    Workloads        \* courses of events: message templates (msgs), whether they may be
                     \*   for unknown actors (anyRecipient) and headers may be flawed
                     \*   (anyHeader), and bounds on the messages
                     \*   of all blocks (sent), the blocks of a tipset (blocks), a miner's
                     \*   pool (pool), the null rounds before a tipset (nulls) and the
                     \*   height (until)

ASSUME ProcessorAssumption ==
    /\ NetworkFunds \in Nat /\ BlockReward \in Nat

VARIABLES
    height,    \* of the head of the chain
    tree,      \* the state tree after the head
    store,     \* actor states in the blockstore
    last,      \* the results of the head tipset's messages, without duplicates
    phase,     \* "idle", "tipset" or "block"
    epoch,     \* the height of the tipset being processed
    world,     \* while a tipset is processed, what it has done so far
    owner,     \* the owner of the miner of the block being processed
    blocks,    \* the blocks of the tipset still to be processed, by their miners
    seen,      \* the messages of the tipset so far
    results,   \* what became of them, in order
    pending,   \* history: sender and nonce of those applied
    applied,   \* history: sender and nonce of each message applied on the chain
    sent,      \* messages so far
    failure,   \* what ended the last tipset or block generation, "" if nothing did
    mined,     \* the last block generated
    workload   \* the templates this chain's messages are made from

chainVars == <<height, tree, store, last, applied>>
tipsetVars == <<seen, results, pending>>
vars == <<chainVars, phase, epoch, world, owner, blocks, tipsetVars, sent, failure, mined, workload>>

-----------------------------------------------------------------------------
(* Validation *)

canCoverGasLimit(m, act) == m.price * m.limit <= act.balance - m.value

\* Mutant: the value is not taken off the balance.
ValidateMutant(m, act) ==
    IF m.from = m.to THEN "SelfSend"
    ELSE IF m.price <= 0 THEN "GasPriceZero"
    ELSE IF m.price * m.limit > act.balance THEN "InsufficientGas"
    ELSE IF m.nonce < act.nonce THEN "NonceTooLow"
    ELSE IF m.nonce > act.nonce THEN "NonceTooHigh"
    ELSE ""

\* DefaultMessageValidator, in the order of its checks.
ValidateWith(m, act, allowHighNonce) ==
    IF m.from = m.to THEN "SelfSend"
    ELSE IF m.price <= 0 THEN "GasPriceZero"
    ELSE IF act.code \notin {"", "account"} THEN "NonAccountActor"
    ELSE IF m.value < 0 THEN "NegativeValue"
    ELSE IF m.limit > BlockGasLimit THEN "GasAboveBlockLimit"
    ELSE IF ~canCoverGasLimit(m, act) THEN "InsufficientGas"
    ELSE IF m.nonce < act.nonce THEN "NonceTooLow"
    ELSE IF ~allowHighNonce /\ m.nonce > act.nonce THEN "NonceTooHigh"
    ELSE ""
Validate(m, act) == ValidateWith(m, act, FALSE)

\* The validator a processor is made with; ApplyMessageDirect's accepts anything.
directMessageValidator(m, act) == ""
ValidatedBy(validator, m, act) ==
    IF validator = "direct" THEN directMessageValidator(m, act) ELSE Validate(m, act)

Temporary == {"FromAccountNotFound", "NonceTooHigh", "GasTooHighForCurrentBlock"}
Permanent == {"InsufficientGas", "SelfSend", "NonceTooLow", "NonAccountActor", "NegativeValue",
              "CannotTransferNegativeValue", "GasAboveBlockLimit"}
Stops == {"fault", "abort"}   \* not an outcome of one message: processing ends

-----------------------------------------------------------------------------
(* Applying a message *)

blockGasLimitError(w) ==
    IF w.limit > BlockGasLimit THEN "GasAboveBlockLimit"
    ELSE IF w.limit + w.block > BlockGasLimit THEN "GasTooHighForCurrentBlock"
    ELSE ""

attemptApplyMessage(w, m, at, validator) ==
    LET reset == ResetForNewMessage(w, m.limit) IN
    Then(Check(reset, blockGasLimitError(reset)), LAMBDA b :
    Then(ResolveAddress(b, m.from), LAMBDA r :
        LET from == r.ret IN
        IF from \notin DOMAIN r.tree THEN Fail(r, "FromAccountNotFound")
        ELSE Then(Check(r, ValidatedBy(validator, m, r.tree[from])), LAMBDA v :
             Then(GetOrCreateActor(v, m.to), LAMBDA g :
                  Send(g, from, m.from, g.ret, m, at)))))

\* rewardTransfer: the receiver may be a key without an actor so far.
rewardTransfer(w, from, to, value) ==
    Then(GetOrCreateActor(w, to), LAMBDA g : FaultErrorWrap(Transfer(g, from, g.ret, value)))

BlockRewarded(w, to) == rewardTransfer(w, NetworkID, to, BlockReward)

GasReward(w, m, to, cost) ==
    IF cost <= 0 THEN w
    ELSE Then(ResolveAddress(w, m.from), LAMBDA r : rewardTransfer(r, r.ret, to, cost))

IncrementSeqNum(w, m) ==
    Then(ResolveAddress(w, m.from), LAMBDA r : [r EXCEPT !.tree[r.ret].nonce = @ + 1])

\* Mutant: the gas of a message that fails is not paid for.
SettledMutant(w, a, m, to) ==
    IF a.err # "" THEN [w |-> CommitTree(w, a), result |-> "applied"]
    ELSE [w |-> IncrementSeqNum(GasReward(a, m, to, m.price * a.used), m), result |-> "applied"]

\* What becomes of a message whose attempt ended with err and was paid for.
Counted(w) == [w |-> w, result |-> IF w.err = "" THEN "applied" ELSE "fault"]
Classified(err, paid, m) ==
    IF paid.err # "" THEN [w |-> paid, result |-> "fault"]
    ELSE IF err \in Temporary THEN [w |-> paid, result |-> "temporary"]
    ELSE IF err \in Permanent THEN [w |-> paid, result |-> "permanent"]
    ELSE Counted(IncrementSeqNum(paid, m))

Settled(w, a, m, to) ==
    IF a.err \in Stops THEN [w |-> a, result |-> a.err]
    ELSE Classified(a.err, GasReward(CommitTree(w, a), m, to, m.price * a.used), m)

\* ApplyMessage.  A failed attempt's tree is dropped; what it staged in the
\* storage map and used of the block's gas is not.
ApplyMessage(w, m, to, at) == Settled(w, attemptApplyMessage(w, m, at, "default"), m, to)

\* A query: its changes to the tree are dropped, and it costs nothing.
ForQuery(w) == ResetForNewMessage([w EXCEPT !.block = 0], BlockGasLimit)
CallQueryMethod(w, to, m, at) ==
    [Then(ResolveAddress(ForQuery(w), to), LAMBDA r :
          IF r.ret \notin DOMAIN r.tree THEN Fail(r, "permanent")
          ELSE Send(r, 0, ID(0), r.ret, m, at))
     EXCEPT !.tree = w.tree, !.used = 0, !.block = w.block]
Query(method, rest) == rest @@ [method |-> method, value |-> 0]

\* The gas a call would use: its value is not sent with it.
PreviewQueryMethod(w, m, at) ==
    Then(FaultErrorWrap(GetOrCreateActor(ForQuery(w), m.to)), LAMBDA g :
         Send(g, 0, m.from, g.ret, [m EXCEPT !.value = 0], at))

minerOwnerAddress(w, miner) ==
    FaultErrorWrap(CallQueryMethod(w, ID(miner), Query("GetOwner", << >>), 0))

\* ApplyMessagesAndPayRewards, with a gas tracker of its own.
WithResult(sofar, a) == [w |-> a.w, results |-> Append(sofar, a.result)]
ApplyMessagesAndPayRewards(w, to, msgs, at) ==
    FoldLeft(LAMBDA acc, m :
                 IF acc.w.err # "" THEN acc
                 ELSE WithResult(acc.results, ApplyMessage(acc.w, m, to, at)),
             [w |-> BlockRewarded([w EXCEPT !.block = 0], to), results |-> <<>>], msgs)

-----------------------------------------------------------------------------
(* Genesis *)

\* ApplyMessageDirect: no validation, committed when it succeeds.
ApplyMessageDirect(w, m) ==
    [attemptApplyMessage([w EXCEPT !.block = 0], m, 0, "direct") EXCEPT !.used = 0]

Direct(from, to, nonce, value, method) ==
    [from |-> from, to |-> to, nonce |-> nonce, value |-> value, price |-> 0,
     limit |-> BlockGasLimit, method |-> method]

\* SetupDefaultActors: the singletons with their states, and ID accounts.
SetupDefaultActors ==
    LET tr == (InitID :> NewActor("init", 0)) @@ (MarketID :> NewActor("market", 0))
              @@ (PowerID :> NewActor("power", 0)) @@ (BurntID :> NewActor("account", 0))
              @@ (NetworkID :> NewActor("account", 0))
        w == [tree |-> tr, inst |-> << >>, chunks |-> {}, store |-> {}, used |-> 0,
              limit |-> 0, block |-> 0, err |-> "", ret |-> 0]
    IN  WriteState(WriteState(WriteState(w, InitID, NewInitState), MarketID, NewMarketState),
                   PowerID, NewPowerState)

\* setupPrealloc: the network actor, and accounts it funds through Exec.
setupPrealloc(w) ==
    FoldLeft(LAMBDA v, acc :
                 ApplyMessageDirect(v, Direct(ID(NetworkID), ID(InitID), 0, acc.funds, "Exec")
                                       @@ [code |-> "account", addr |-> KeyAddress(acc.key)]),
             [w EXCEPT !.tree[NetworkID] = NewActor("account", NetworkFunds)], Accounts)

\* The new miner reports a sector to the power actor.
Powered(found, addr) ==
    ApplyMessageDirect(found, Direct(addr, ID(PowerID), 0, 0, "ProcessPowerReport")
                              @@ [active |-> SectorSize, inactive |-> 0, miner |-> found.ret])

\* setupMiners: an owner gets the collateral, a miner and its entry in the
\* power table, under the ID the init actor knows the miner by.
setupMiners(w) ==
    FoldLeftDomain(LAMBDA v, i :
        LET addr == KeyAddress(GenesisMiners[i])
            funded == ApplyMessageDirect(v, Direct(ID(NetworkID), addr, 0, SectorCollateral, "Send"))
            made == ApplyMessageDirect(funded, Direct(addr, ID(PowerID), i - 1, SectorCollateral,
                                                      "CreateStorageMiner") @@ [pid |-> GenesisMiners[i]])
            found == ApplyMessageDirect(made, Direct(addr, ID(InitID), 0, 0, "GetActorIDForAddress")
                                              @@ [addr |-> computeActorAddress(addr, i - 1)])
        IN  Powered(found, addr),
        w, GenesisMiners)

GenGen == setupMiners(setupPrealloc(SetupDefaultActors))

NoWorld == [none |-> TRUE]
NoBlock == [none |-> TRUE]
NoOwner == ID(0)

Init ==
    /\ height = 0
    /\ \E w \in {GenGen} : tree = w.tree /\ store = Flush(w)
    /\ last = <<>>
    /\ phase = "idle"
    /\ epoch = 0
    /\ world = NoWorld
    /\ owner = NoOwner
    /\ blocks = <<>>
    /\ seen = {}
    /\ results = <<>>
    /\ pending = {}
    /\ applied = {}
    /\ sent = 0
    /\ failure = ""
    /\ mined = NoBlock
    /\ workload \in Workloads

-----------------------------------------------------------------------------
(* Headers, and the power table they are checked against *)

FreshWorld == [tree |-> tree, inst |-> << >>, chunks |-> {}, store |-> store, used |-> 0,
               limit |-> 0, block |-> 0, err |-> "", ret |-> 0]

\* The view of the power table: queries of the power actor and of miners.
Total == CallQueryMethod(FreshWorld, ID(PowerID), Query("GetTotalPower", << >>), 0)
Miner(i) == CallQueryMethod(FreshWorld, ID(PowerID), Query("GetPowerReport", [miner |-> i]), 0)
SectorSizeOf(i) == CallQueryMethod(FreshWorld, ID(PowerID), Query("GetSectorSize", [miner |-> i]), 0)
WorkerAddr(i) == CallQueryMethod(FreshWorld, ID(i), Query("GetWorker", << >>), 0)
HasPower(i) == Then(Miner(i), LAMBDA r : Returns(r, r.ret > 0))
NumSectors(i) ==
    Then(Miner(i), LAMBDA b :
    Then(SectorSizeOf(i), LAMBDA z :
         IF b.ret % z.ret # 0 THEN Fail(b, "NotAMultiple") ELSE Returns(b, b.ret \div z.ret)))
\* A header: its miner, who signed it, and what is wrong with it, if anything.
Sound == "sound"
SyntaxFlaws == {"FutureBlock", "WrongEpoch", "NoStateRoot", "NoMiner", "NoTicket", "PoStLengths"}
ProofFlaws == {"BLSAggregate", "SecpSignature", "PoStRandomness"}
ElectionFlaws == {"LostElection", "InvalidPoSt", "InvalidTicket"}
RootFlaws == {"StateRoot", "ReceiptRoot", "ParentWeight"}
Flaws == SyntaxFlaws \cup {"LowHeight"} \cup RootFlaws \cup ProofFlaws \cup ElectionFlaws

ValidateSyntax(h) == IF h.flaw \in SyntaxFlaws THEN h.flaw ELSE ""
ValidateSemantic(h) == IF h.flaw = "LowHeight" THEN h.flaw ELSE ""
verifyBLSMessageAggregate(h) == h.flaw # "BLSAggregate"

\* validateMining for one block, with the parent state's power table.
validateMining(h) ==
    LET Flawed(w, flaws) == Check(w, IF h.flaw \in flaws THEN h.flaw ELSE w.err)
    IN  Then(Flawed(FreshWorld, RootFlaws), LAMBDA x :
        Then(WorkerAddr(h.miner), LAMBDA w :
        Then(Check(w, IF h.signer = w.ret THEN "" ELSE "Signature"), LAMBDA s :
        Then(Check(s, IF verifyBLSMessageAggregate(h) THEN "" ELSE h.flaw), LAMBDA b :
        Then(Flawed(b, ProofFlaws), LAMBDA p :
        Then(NumSectors(h.miner), LAMBDA n :
        Then(Total, LAMBDA t :
        Then(SectorSizeOf(h.miner), LAMBDA z : Flawed(z, ElectionFlaws)))))))))

\* The first error of the tipset's headers, in the order they are checked.
HeaderError(h) ==
    IF ValidateSyntax(h) # "" THEN ValidateSyntax(h)
    ELSE IF ValidateSemantic(h) # "" THEN ValidateSemantic(h)
    ELSE validateMining(h).err

-----------------------------------------------------------------------------
(* Processing a tipset *)

AddressBook(tr) == tr[InitID].head.AddressMap
Known(tr, addr) == addr.protocol = "ID" \/ addr \in DOMAIN AddressBook(tr)
NonceOf(tr, addr) == IF Known(tr, addr) THEN tr[AddressBook(tr)[addr]].nonce ELSE 0

\* The messages there may be when the state is tr: a template's nonce is
\* relative to its sender's.  Recipients that are actors exist, as they did
\* for the client that sent the message, unless the workload says otherwise.
Messages(tr) ==
    {[t EXCEPT !.nonce = @ + NonceOf(tr, t.from)] :
        t \in {u \in workload.msgs : /\ u.nonce + NonceOf(tr, u.from) >= 0
                                     /\ u.to.protocol = "actor" => workload.anyRecipient
                                                                  \/ Known(tr, u.to)}}

MinersOf(tr) == {i \in DOMAIN tr : tr[i].code \in {"miner", "bootstrapMiner"}}
\* Tipsets: blocks of miners in the power table, or one that may be flawed.
Header(i) == [miner |-> i, signer |-> tree[i].head.Worker, flaw |-> Sound]
GoodHeaders == {Header(i) : i \in DOMAIN tree[PowerID].head.PowerTable}
AnyHeaders == {[Header(i) EXCEPT !.signer = Header(j).signer, !.flaw = f] :
                   i \in MinersOf(tree), j \in MinersOf(tree), f \in {Sound} \cup Flaws}
Tipsets == (SeqOf(GoodHeaders, workload.blocks) \ {<<>>})
           \cup IF workload.anyHeader THEN {<<h>> : h \in AnyHeaders} ELSE {}

NoResults == seen' = {} /\ results' = <<>> /\ pending' = {}

\* RunStateTransition checks every header before it runs a message.
StartTipset ==
    /\ phase = "idle"
    /\ \E n \in workload.nulls, hs \in Tipsets : \E errs \in {[i \in DOMAIN hs |-> HeaderError(hs[i])]} :
        LET bad == {i \in DOMAIN hs : errs[i] # ""}
        IN  /\ height + n + 1 <= workload.until
            /\ IF bad # {} THEN /\ failure' = errs[Min(bad)]
                                /\ UNCHANGED <<phase, epoch, world, blocks>>
               ELSE /\ phase' = "tipset"
                    /\ epoch' = height + n + 1
                    /\ world' = FreshWorld
                    /\ blocks' = [i \in DOMAIN hs |-> hs[i].miner]
                    /\ failure' = ""
    /\ NoResults
    /\ mined' = NoBlock
    /\ UNCHANGED <<chainVars, owner, sent, workload>>

\* An error ends the processing of the tipset, which is then not accepted.
Reject(err) ==
    /\ phase' = "idle"
    /\ world' = NoWorld
    /\ failure' = err
    /\ blocks' = <<>>
    /\ NoResults

Continue(w) ==
    /\ world' = [w EXCEPT !.used = 0, !.limit = 0, !.ret = 0]
    /\ UNCHANGED failure

\* The next block: its miner's owner is looked up and rewarded.
StartBlock ==
    /\ phase \in {"tipset", "block"}
    /\ blocks # <<>>
    /\ \E q \in {minerOwnerAddress(world, blocks[1])} :
       \E rewarded \in {Then(q, LAMBDA r : BlockRewarded([r EXCEPT !.block = 0], r.ret))} :
        /\ owner' = IF q.err = "" THEN q.ret ELSE NoOwner
        /\ IF rewarded.err # "" THEN Reject(rewarded.err)
           ELSE /\ phase' = "block"
                /\ blocks' = Tail(blocks)
                /\ UNCHANGED tipsetVars
                /\ Continue(rewarded)
    /\ UNCHANGED <<chainVars, epoch, sent, mined, workload>>

Slot(m) == [from |-> m.from, nonce |-> m.nonce]

\* A message of the block (DeduppedMessages).  One that an earlier block had is left out.
ProcessMessage(m) ==
    /\ phase = "block"
    /\ sent < workload.sent
    /\ sent' = sent + 1
    /\ m \notin seen
    /\ \E a \in {ApplyMessage(world, m, owner, epoch)} :
           IF a.result \in Stops THEN Reject(a.result)
           ELSE /\ seen' = seen \cup {m}
                /\ results' = Append(results, a.result)
                /\ pending' = pending \cup IF a.result = "applied" THEN {Slot(m)} ELSE {}
                /\ UNCHANGED <<phase, blocks>>
                /\ Continue(a.w)
    /\ UNCHANGED <<chainVars, owner, epoch, mined, workload>>

\* runMessages: the receipts, by the places of their messages in the tipset;
\* a message that failed has none.
runMessages(rs) == SelectSeq([i \in DOMAIN rs |-> i], LAMBDA i : rs[i] = "applied")

\* The end of RunStateTransition: the storage map and the tree are flushed.
EndTipset ==
    /\ phase = "block"
    /\ blocks = <<>>
    /\ height' = epoch
    /\ tree' = world.tree
    /\ store' = Flush(world)
    /\ last' = results
    /\ applied' = applied \cup pending
    /\ phase' = "idle"
    /\ world' = NoWorld
    /\ NoResults
    /\ UNCHANGED <<epoch, owner, blocks, sent, failure, mined, workload>>

\* The waiter's receiptByIndex: the receipt at a message's place among the
\* messages of the tipset.
receiptByIndex(i) ==
    LET receipts == runMessages(last) IN IF i <= Len(receipts) THEN receipts[i] ELSE 0

-----------------------------------------------------------------------------
(* Generating a block *)

\* Ties go to the lesser address: the accounts are listed in that order.
Rank(key) ==
    IF \E i \in DOMAIN Accounts : Accounts[i].key = key
    THEN CHOOSE i \in DOMAIN Accounts : Accounts[i].key = key ELSE Len(Accounts) + 1

\* NewMessageQueue and Pop: the best paid of the senders' first messages.
Best(S) ==
    LET heads == {m \in S : \A n \in S : n.from = m.from => m.nonce <= n.nonce}
        dearest == {m \in heads : \A n \in heads : n.price <= m.price}
    IN  CHOOSE m \in dearest : \A n \in dearest : Rank(m.from.key) <= Rank(n.from.key)

Drain(S) ==
    LET drain[T \in SUBSET S] ==
            IF T = {} THEN <<>> ELSE <<Best(T)>> \o drain[T \ {Best(T)}]
    IN  drain[S]

IsBLS(m) == m.from.key \in BLSKeys
\* Mutant: the order of the queue is kept.
orderMessageCandidatesMutant(msgs) == msgs

orderMessageCandidates(msgs) ==
    SelectSeq(msgs, IsBLS) \o SelectSeq(msgs, LAMBDA m : ~IsBLS(m))

\* Generate: candidates that apply make the block, the rest stay or go.
Generate(miner) ==
    /\ phase = "idle"
    /\ height < workload.until
    /\ mined = NoBlock
    /\ \E msgs \in UNION {kSubset(k, Messages(tree)) : k \in 1..workload.pool} :
        /\ \A m, n \in msgs : m.from = n.from /\ m.nonce = n.nonce => m = n
        /\ \E cand \in {orderMessageCandidates(Drain(msgs))} :
           \E run \in {ApplyMessagesAndPayRewards(FreshWorld, tree[miner].head.Owner, cand, height + 1)},
              power \in {HasPower(miner)}, worker \in {WorkerAddr(miner)} :
           LET With(r) == SelectSeq([i \in DOMAIN run.results |-> <<cand[i], run.results[i]>>],
                                    LAMBDA x : x[2] = r)
               Accepted == [i \in DOMAIN With("applied") |-> With("applied")[i][1]]
           IN  IF power.err # "" \/ ~power.ret \/ run.w.err # "" \/ worker.err # ""
               THEN /\ mined' = NoBlock
                    /\ failure' = "NotMined"
               ELSE /\ mined' = [header |-> [miner |-> miner, signer |-> worker.ret, flaw |-> Sound],
                                 msgs |-> SelectSeq(Accepted, IsBLS)
                                          \o SelectSeq(Accepted, LAMBDA m : ~IsBLS(m)),
                                 tree |-> run.w.tree,
                                 removed |-> {x[1] : x \in Range(With("permanent"))}]
                    /\ failure' = ""
    /\ UNCHANGED <<chainVars, phase, epoch, world, owner, blocks, tipsetVars, sent, workload>>

Next ==
    \/ StartTipset
    \/ StartBlock
    \/ phase = "block" /\ \E m \in Messages(world.tree) : ProcessMessage(m)
    \/ EndTipset
    \/ \E i \in MinersOf(tree) : Generate(i)

Spec == Init /\ [][Next]_vars

-----------------------------------------------------------------------------
(* Properties *)

Trees == {tree} \cup IF phase = "idle" THEN {} ELSE {world.tree}

\* Types: balances, call sequence numbers, power and the market's total stay
\* natural numbers, whatever is transferred, burnt, slashed or paid for gas.
TypeOK ==
    /\ height \in 0..workload.until /\ epoch \in 0..workload.until
    /\ phase \in {"idle", "tipset", "block"}
    /\ Len(blocks) <= workload.blocks
    /\ workload \in Workloads
    /\ \A tr \in Trees :
        /\ \A i \in DOMAIN tr : tr[i].nonce \in Nat /\ tr[i].balance \in Nat
        /\ \A i \in MinersOf(tr) : tr[i].head.Power \in Nat /\ tr[i].head.ProvingPeriodEnd \in Nat
        /\ tr[MarketID].head.TotalCommittedStorage \in Nat

\* No message, failed or not, creates or destroys value: what genesis gave the
\* network actor is all there is, wherever transfers, fees and rewards move it.
ValueConserved ==
    \A tr \in Trees : MapThenSumSet(LAMBDA i : tr[i].balance, DOMAIN tr) = NetworkFunds

\* The storage market's TotalCommittedStorage is the sum of its miners' power:
\* the two are written by different actors, in SubmitPoSt and SlashStorageFault
\* around a call that may fail.
TotalIsSumOfPower ==
    \A tr \in Trees :
        LET market == tr[MarketID].head
        IN  market.TotalCommittedStorage =
                MapThenSumSet(LAMBDA i : tr[i].head.Power, market.Miners)

\* A miner's active collateral covers its sectors and is covered by its balance,
\* through fees burnt and overpayments refunded from the same balance.
CollateralHeld ==
    \A tr \in Trees : \A i \in MinersOf(tr) :
        LET s == tr[i].head
        IN  /\ s.ActiveCollateral <= tr[i].balance
            /\ SectorCollateral * Cardinality(s.SectorCommitments) <= s.ActiveCollateral

\* A miner only has to prove sectors it has committed and not dropped:
\* otherwise its next SubmitPoSt would be a fault that stops the chain.
ProvingSetCommitted ==
    \A tr \in Trees : \A i \in MinersOf(tr) : tr[i].head.ProvingSet \subseteq tr[i].head.SectorCommitments

\* The init actor's two maps are inverse to each other, name actors that exist,
\* and name every actor that Exec created, also when the creating message failed.
AddressBookExact ==
    \A tr \in Trees :
        LET s == tr[InitID].head
        IN  /\ \A a \in DOMAIN s.AddressMap :
                  LET i == s.AddressMap[a]
                  IN  /\ i \in DOMAIN s.IDMap /\ s.IDMap[i] = a
                      /\ i \in DOMAIN tr /\ i < s.NextID
            /\ \A i \in DOMAIN s.IDMap : s.IDMap[i] \in DOMAIN s.AddressMap
            /\ \A i \in DOMAIN tr : i >= FirstID => i \in DOMAIN s.IDMap

\* The states of the actors are well formed and agree with each other after
\* every message, also one that failed inside a nested call: balances cover the
\* collateral of the miners, their proving sets name sectors they committed, and
\* the init actor's maps name the actors there are.
ActorsConsistent == TypeOK /\ CollateralHeld /\ ProvingSetCommitted /\ AddressBookExact

\* The messages applied from a sender are exactly one for each nonce below the
\* sender's: none is applied twice or out of order, and no nonce is used up by
\* a message that is not applied.
NonceOrder ==
    LET now == IF phase = "idle" THEN tree ELSE world.tree
        done == applied \cup pending
    IN  \A a \in DOMAIN AddressBook(now) :
            {x.nonce : x \in {y \in done : y.from = a}} = 0..(NonceOf(now, a) - 1)

\* Every actor's head is in the blockstore once the tipset is flushed.
HeadsPersisted == \A i \in DOMAIN tree : tree[i].head \in store \cup {NoHead}

\* ProcessTipSet returns an error, and the node refuses the tipset, only when
\* an earlier flush lost an actor's state: no message of a client makes one.
FaultsOnlyOnLostState == failure \in Stops => ~HeadsPersisted

\* A block that Generate makes is accepted on the state it was made on: its
\* header passes validateMining, all its messages apply in the order the block
\* holds them, without the ones left out, and lead to the state Generate saw.
MinedBlockApplies ==
    mined # NoBlock =>
        LET miner == mined.header.miner
            to == tree[miner].head.Owner
            LeadsThere(run) == /\ run.w.err = ""
                               /\ run.w.tree = mined.tree
                               /\ \A i \in DOMAIN run.results : run.results[i] = "applied"
        IN  /\ HeaderError(mined.header) = ""
            /\ LeadsThere(ApplyMessagesAndPayRewards(FreshWorld, to, mined.msgs, height + 1))

\* The gas a preview reports is the gas the message then uses, if neither fails.
PreviewExact ==
    phase = "idle" /\ mined = NoBlock =>
        LET SameGas(p, a) == p.err = "" /\ a.err = "" => p.used = a.used
        IN  \A m \in Messages(tree) :
                SameGas(PreviewQueryMethod(FreshWorld, m, height),
                        attemptApplyMessage(FreshWorld, m, height, "default"))

\* What the node computes ahead of a tipset comes true: the block that Generate
\* makes is accepted and leads to the state it saw, and a message uses the gas
\* that PreviewQueryMethod reported.
ForecastsHold == MinedBlockApplies /\ PreviewExact

\* What the waiter's comment says: the index of a message among a tipset's
\* de-duplicated messages finds "the corresponding receipt". The receipt found
\* for a message that was applied is its own.
ReceiptIsItsOwn ==
    \A i \in DOMAIN last : last[i] = "applied" => receiptByIndex(i) = i
=============================================================================
