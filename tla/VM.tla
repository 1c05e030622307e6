--------------------------------- MODULE VM ---------------------------------
(***************************************************************************)
(* Message execution: the state tree, the storage map, gas, transfers and  *)
(* the builtin actors' methods with the calls they make to each other.     *)
(*                                                                         *)
(* Everything a message can touch is one record, a world, that methods     *)
(* take and return:                                                        *)
(*   tree    the (cached) state tree: actors by ID address                 *)
(*   inst    the storage map: for each address the head of the actor       *)
(*           instance it was last given                                    *)
(*   chunks  the storage map: the states put there, by address             *)
(*   store   the states in the blockstore                                  *)
(*   used, limit, block   the gas tracker                                  *)
(*   err     "" or why the call fails; "fault" and "abort" are not reverts *)
(*   ret     the value the last call returned                              *)
(*                                                                         *)
(* Heads are content identifiers, so an actor's head is its state itself;  *)
(* the lookups (HAMTs) a state links to are part of it.                    *)
(***************************************************************************)
EXTENDS MinerActor, Functions

CONSTANTS
    BlockGasLimit,  \* gas units a block may use
    DefaultGasCost  \* what a method charges

ASSUME GasAssumption == BlockGasLimit \in Nat /\ DefaultGasCost \in Nat

-----------------------------------------------------------------------------
(* Addresses.  One record type stands for the ID, key and actor protocols. *)

ID(i) == [protocol |-> "ID", key |-> "", num |-> i]
KeyAddress(k) == [protocol |-> "key", key |-> k, num |-> 0]
\* The address of a new actor: the sender and nonce of the original message.
computeActorAddress(from, nonce) == [protocol |-> "actor", key |-> from.key, num |-> nonce]

InitID == 1
PowerID == 4
MarketID == 5
NetworkID == 50
BurntID == 99
FirstID == 100      \* NextID of a new init actor

NoHead == [undefined |-> TRUE]
NewActor(code, balance) ==
    [code |-> code, head |-> NoHead, nonce |-> 0, balance |-> balance]

-----------------------------------------------------------------------------
(* Outcomes and gas *)

Fail(w, err) == [w EXCEPT !.err = err]
Check(w, err) == Fail(w, err)     \* err may be ""
Then(w, Step(_)) == IF w.err = "" THEN Step(w) ELSE w
Returns(w, v) == [w EXCEPT !.ret = v]

\* FaultErrorWrap, RevertErrorWrap: a wrapper hides what it wraps.
FaultErrorWrap(w) == IF w.err = "" THEN w ELSE Fail(w, "fault")
RevertErrorWrap(w, err) == IF w.err = "" THEN w ELSE Fail(w, err)
\* Abort panics; only a process that nobody recovers sees it.
Abort(w) == IF w.err = "" THEN w ELSE Fail(w, "abort")

ResetForNewMessage(w, limit) == [w EXCEPT !.used = 0, !.limit = limit]

\* An overrun uses up the limit, and the block is charged all of it again.
Charge(w) ==
    IF w.used + DefaultGasCost > w.limit
    THEN [w EXCEPT !.used = w.limit, !.block = @ + w.limit, !.err = "OutOfGas"]
    ELSE [w EXCEPT !.used = @ + DefaultGasCost, !.block = @ + DefaultGasCost]

-----------------------------------------------------------------------------
(* The storage map and actors' state *)

\* NewStorage gives the address's storage the actor instance of this tree.
NewStorage(w, id) == [w EXCEPT !.inst = (id :> w.tree[id].head) @@ @]

\* What a storage holds: what was put there, or is in the blockstore.
Holds(w, id, s) == <<id, s>> \in w.chunks \/ s \in w.store
Put(w, id, s) == [w EXCEPT !.chunks = @ \cup {<<id, s>>}]
LegacyCommit(w, id, s) ==
    IF Holds(w, id, s) THEN [w EXCEPT !.tree[id].head = s, !.inst = (id :> s) @@ @]
    ELSE Fail(w, "fault")

ReadState(w, id) ==
    IF Holds(w, id, w.tree[id].head) THEN NewStorage(w, id) ELSE Fail(NewStorage(w, id), "fault")

\* Put, then LegacyCommit over whatever head the actor has by now.
WriteState(w, id, s) == LegacyCommit(Put(w, id, s), id, s)

\* WithState: Body maps the state to an outcome, which is saved.
Saved(w, id, outcome) ==
    IF outcome.err # "" THEN Fail(w, outcome.err) ELSE WriteState(w, id, outcome.st)
WithState(w, id, Body(_)) ==
    Then(ReadState(w, id), LAMBDA r : Saved(r, id, Body(r.tree[id].head)))

\* CachedTree.Commit: an attempt's changes of the tree, if it did not fail.
CommitTree(w, attempt) ==
    IF attempt.err = "" THEN attempt ELSE [attempt EXCEPT !.tree = w.tree, !.err = ""]

\* Transaction: as WithState, but a state that cannot be read aborts.
Loaded(w, id) == Abort(ReadState(w, id))
Transaction(w, id, Body(_)) ==
    Then(Loaded(w, id), LAMBDA r : Saved(r, id, Body(r.tree[id].head)))

\* What a storage flushes: the state its own actor instance points to.
liveDescendantIds(w, id) == {s \in {w.inst[id]} : <<id, s>> \in w.chunks}
Flush(w) == w.store \cup UNION {liveDescendantIds(w, id) : id \in DOMAIN w.inst}

-----------------------------------------------------------------------------
(* Transfers and addresses *)

\* Mutant: the balances are read before either is written.
TransferMutant(w, from, to, value) ==
    IF w.tree[from].balance < value THEN Fail(w, "InsufficientBalance")
    ELSE [w EXCEPT !.tree[from].balance = w.tree[from].balance - value,
                   !.tree[to].balance = w.tree[to].balance + value]

Transfer(w, from, to, value) ==
    IF value < 0 THEN Fail(w, "CannotTransferNegativeValue")
    ELSE IF w.tree[from].balance < value THEN Fail(w, "InsufficientBalance")
    ELSE [w EXCEPT !.tree[from].balance = @ - value, !.tree[to].balance = @ + value]

Unresolved == 0

\* LookupIDAddress of the init actor.
LookupIDAddress(w, addr) ==
    Then(Abort(ReadState(w, InitID)), LAMBDA r :
        LET book == r.tree[InitID].head.AddressMap
        IN  IF addr \in DOMAIN book
            THEN Returns(WriteState(r, InitID, r.tree[InitID].head), book[addr])
            ELSE Returns(r, Unresolved))

\* ID addresses stand for themselves.
ResolveAddress(w, addr) ==
    IF addr.protocol = "ID" THEN Returns(w, addr.num) ELSE LookupIDAddress(w, addr)

-----------------------------------------------------------------------------
(* The init actor, and construction of actors *)

NewInitState == [AddressMap |-> << >>, IDMap |-> << >>, NextID |-> FirstID]
NewMarketState == [Miners |-> {}, TotalCommittedStorage |-> 0]
NewPowerState == [PowerTable |-> << >>]

builtinActors == {"account", "market", "init", "miner", "bootstrapMiner", "paymentbroker"}
singletonActors == {"market", "init", "paymentbroker"}

\* The account actor's constructor takes only keys.
AccountConstructor(addr) ==
    Outcome(IF addr.protocol = "key" THEN "" ELSE "abort", [Address |-> addr])

Constructed(code, addr, p) ==
    IF code = "account" THEN AccountConstructor(addr)
    ELSE Writes(NewState(p.owner, p.owner, p.pid))

\* CreateActor: the actor is stored under its ID and sent what Exec received.
CreateActor(w, id, code, addr, value, p) ==
    LET empty == id \notin DOMAIN w.tree \/ w.tree[id].code = ""
        put == [w EXCEPT !.tree = (id :> NewActor(code, 0)) @@ @]
        made == Constructed(code, addr, p)
    IN  IF code \notin builtinActors \ singletonActors \/ ~empty \/ made.err # ""
        THEN Fail(w, "abort")
        ELSE Then(Abort(Transfer(put, InitID, id, value)), LAMBDA t :
                  WriteState(NewStorage(t, id), id, made.st))

assignNewID(s) == [s EXCEPT !.NextID = @ + 1]
setID(s, addr, id) == [s EXCEPT !.AddressMap = (addr :> id) @@ @]
setAddress(s, id, addr) == [s EXCEPT !.IDMap = (id :> addr) @@ @]

Exec(w, code, addr, value, p) ==
    LET id == w.tree[InitID].head.NextID
        numbered == Transaction(w, InitID, LAMBDA s : Writes(assignNewID(s)))
    IN  Then(numbered, LAMBDA n :
        Then(CreateActor(n, id, code, addr, value, p), LAMBDA c :
             Returns(Transaction(c, InitID, LAMBDA s :
                         Writes(setAddress(setID(s, addr, id), id, addr))), addr)))

GetActorIDForAddress(w, addr) ==
    Then(Charge(w), LAMBDA c :
    Then(LookupIDAddress(c, addr), LAMBDA r :
         IF r.ret = Unresolved THEN Fail(r, "NotFound") ELSE r))

GetAddressForActorID(w, id) ==
    Then(Charge(w), LAMBDA c :
    Then(ReadState(c, InitID), LAMBDA r :
         LET ids == r.tree[InitID].head.IDMap
         IN  IF id \in DOMAIN ids THEN Returns(r, ids[id]) ELSE Fail(r, "NotFound")))

GetNetwork(w) == Then(Charge(w), LAMBDA c : ReadState(c, InitID))

\* A key nobody used yet gets an account actor, with gas of its own.
CreateAccount(w, addr) ==
    Then(Abort(Exec(w, "account", addr, 0, NoHead)), LAMBDA e : LookupIDAddress(e, addr))

\* getOrCreateActor of the processor and of the VM, which charges the lookup
\* of a new account to the message.
GetOrCreateActor(w, addr) ==
    Then(ResolveAddress(w, addr), LAMBDA r :
        IF r.ret = Unresolved THEN CreateAccount(r, addr)
        ELSE IF r.ret \in DOMAIN r.tree THEN r ELSE Fail(r, "fault"))

vmGetOrCreateActor(w, addr) ==
    Then(ResolveAddress(w, addr), LAMBDA r :
        IF r.ret = Unresolved
        THEN Then(CreateAccount(r, addr), LAMBDA e : Abort(GetActorIDForAddress(e, addr)))
        ELSE IF r.ret \in DOMAIN r.tree THEN r ELSE Fail(r, "fault"))

\* A call from actor to actor, whose method may make further calls.
RECURSIVE LegacySend(_, _, _, _), Send(_, _, _, _, _, _)
Call(to, value, method, params) == params @@ [to |-> to, value |-> value, method |-> method]

\* Send and apply: as LegacySend, with an abort for every error.
SendOrAbort(w, from, m, epoch) == Abort(LegacySend(w, from, m, epoch))

-----------------------------------------------------------------------------
(* The storage market actor *)

MinerCode(epoch) == IF epoch = 0 THEN "bootstrapMiner" ELSE "miner"

retreiveActorID(w, from, addr, epoch) ==
    LegacySend(w, from, Call(ID(InitID), 0, "GetActorIDForAddress", [addr |-> addr]), epoch)

\* The call of Exec that makes the miner a message asks for.
ExecMiner(caller, value, m, epoch) ==
    Call(ID(InitID), value, "Exec",
         [code |-> MinerCode(epoch), addr |-> computeActorAddress(m.from, m.nonce),
          owner |-> caller, pid |-> m.pid])

\* createStorageMiner: a gas shortage in the lookup of the ID is a fault.
CreateStorageMiner(w, caller, value, m, epoch) ==
    Then(Charge(w), LAMBDA c :
    Then(ReadState(c, MarketID), LAMBDA r :
        IF ~m.sizeSupported THEN Fail(r, "UnsupportedSectorSize")
        ELSE Then(LegacySend(r, MarketID, ExecMiner(caller, value, m, epoch), epoch), LAMBDA e :
             Then(FaultErrorWrap(retreiveActorID(e, MarketID, e.ret, epoch)), LAMBDA g :
                  WriteState(g, MarketID,
                             [r.tree[MarketID].head EXCEPT !.Miners = @ \cup {g.ret}])))))

UpdateStorage(w, caller, delta) ==
    Then(Charge(w), LAMBDA c :
         WithState(c, MarketID, LAMBDA s :
             IF caller.protocol # "ID" \/ caller.num \notin s.Miners
             THEN Fails("UnknownMiner", s)
             ELSE Writes([s EXCEPT !.TotalCommittedStorage = @ + delta])))

\* A miner's answer writes its state back.
getMinerPoStState(w, miner, epoch) ==
    LegacySend(w, MarketID, Call(ID(miner), 0, "GetPoStState", << >>), epoch)

\* getLateMiners asks every miner in the market.
Asked(acc, i, q) ==
    [w |-> q, late |-> acc.late \cup IF q.ret = "Unrecoverable" THEN {i} ELSE {}]
getLateMiners(w, miners, epoch) ==
    FoldLeft(LAMBDA acc, i : IF acc.w.err # "" THEN acc
                             ELSE Asked(acc, i, getMinerPoStState(acc.w, i, epoch)),
             [w |-> w, late |-> {}], SetToSeq(miners))

LateAnswer(asked, market) ==
    Then(asked.w, LAMBDA a : Returns(WriteState(a, MarketID, market), asked.late))
GetLateMiners(w, epoch) ==
    Then(Charge(w), LAMBDA c :
    Then(ReadState(c, MarketID), LAMBDA r :
        LET market == r.tree[MarketID].head
        IN  LateAnswer(getLateMiners(r, market.Miners, epoch), market)))

getTotalStorage(w) == Then(Charge(w), LAMBDA c : WithState(c, MarketID, LAMBDA s : Writes(s)))

-----------------------------------------------------------------------------
(* The power actor.  Its calls abort where the market's fail. *)

NewTableEntry == [ActivePower |-> 0, InactivePower |-> 0, SectorSize |-> SectorSize]

PowerCreateStorageMiner(w, caller, value, m, epoch) ==
    Then(Charge(w), LAMBDA c :
    Then(ReadState(c, PowerID), LAMBDA r :
    Then(SendOrAbort(r, PowerID, ExecMiner(caller, value, m, epoch), epoch), LAMBDA e :
    Then(Abort(retreiveActorID(e, PowerID, e.ret, epoch)), LAMBDA g :
        LET s == r.tree[PowerID].head
        IN  IF g.ret \in DOMAIN s.PowerTable THEN Fail(g, "DuplicateEntry")
            ELSE WriteState(g, PowerID,
                     [s EXCEPT !.PowerTable = (g.ret :> NewTableEntry) @@ @])))))

ProcessPowerReport(w, active, inactive, id) ==
    Then(Charge(w), LAMBDA c :
         WithState(c, PowerID, LAMBDA s :
             IF id \notin DOMAIN s.PowerTable THEN Fails("UnknownEntry", s)
             ELSE Writes([s EXCEPT !.PowerTable[id].ActivePower = active,
                                   !.PowerTable[id].InactivePower = inactive])))

RemoveStorageMiner(w, id) ==
    Then(Charge(w), LAMBDA c :
         WithState(c, PowerID, LAMBDA s :
             IF id \notin DOMAIN s.PowerTable THEN Fails("UnknownEntry", s)
             ELSE IF s.PowerTable[id].ActivePower > 0 \/ s.PowerTable[id].InactivePower > 0
             THEN Fails("DeleteMinerWithPower", s)
             ELSE Writes([s EXCEPT !.PowerTable = Restrict(@, DOMAIN @ \ {id})])))

GetTotalPower(s) ==
    Answer("", MapThenSumSet(LAMBDA i : s.PowerTable[i].ActivePower + s.PowerTable[i].InactivePower,
                             DOMAIN s.PowerTable))

GetPowerReport(s, id) ==
    IF id \in DOMAIN s.PowerTable THEN Answer("", s.PowerTable[id].ActivePower)
    ELSE Answer("UnknownEntry", 0)

\* The size of whichever entry comes last, not of the miner asked about.
PowerGetSectorSize(s) ==
    Answer("", IF s.PowerTable = << >> THEN 0 ELSE s.PowerTable[Max(DOMAIN s.PowerTable)].SectorSize)

-----------------------------------------------------------------------------
(* The miner actor's methods that call other actors *)

burnFunds(w, id, amount, epoch) ==
    LegacySend(w, id, Call(ID(BurntID), amount, "Send", << >>), epoch)

\* What was paid above the fee goes back to the sender.
Refund(w, id, sender, overpayment, epoch) ==
    IF overpayment = 0 THEN w
    ELSE RevertErrorWrap(LegacySend(w, id, Call(sender, overpayment, "Send", << >>), epoch),
                         "RefundFailed")

TellMarket(w, id, delta, epoch) ==
    LegacySend(w, id, Call(ID(MarketID), 0, "UpdateStorage", [delta |-> delta]), epoch)

\* The market hears of a change of power before sectors are dropped.
SubmitPoSt(w, id, bootstrap, sender, value, m, epoch) ==
    Then(Charge(w), LAMBDA c :
    Then(ReadState(c, id), LAMBDA r :
        LET s == r.tree[id].head
            fee == PoStFee(s, epoch)
            next == PoStAdvanced(s, m.faults)
            delta == next.Power - s.Power
            settled == PoStSettled(next, m.faults, m.done)
        IN  Then(Check(r, PoStAdmitted(s, sender, value, epoch)), LAMBDA a :
            Then(RevertErrorWrap(burnFunds(a, id, fee, epoch), "BurnFailed"), LAMBDA b :
            Then(Refund(b, id, sender, value - fee, epoch), LAMBDA p :
            Then(Check(p, PoStVerified(s, bootstrap, m.proved, epoch)), LAMBDA v :
            Then(IF delta = 0 THEN v ELSE TellMarket(v, id, delta, epoch), LAMBDA u :
            Then(Check(u, settled.err), LAMBDA d : WriteState(d, id, settled.st)))))))))

\* Mutant: the market is not told that the power is gone.
SlashStorageFaultMutant(w, id, epoch) ==
    Then(Charge(w), LAMBDA c :
         WithState(c, id, LAMBDA s : Outcome(SlashAdmitted(s, epoch), Slashed(s, epoch))))

SlashStorageFault(w, id, epoch) ==
    Then(Charge(w), LAMBDA c :
    Then(ReadState(c, id), LAMBDA r :
        LET s == r.tree[id].head
        IN  Then(Check(r, SlashAdmitted(s, epoch)), LAMBDA a :
            Then(TellMarket(a, id, -s.Power, epoch), LAMBDA u :
                 WriteState(u, id, Slashed(s, epoch))))))

-----------------------------------------------------------------------------
(* Dispatch *)

\* The answers of a miner: no charge for four of them, and some only read.
MinerAnswer(s, code, m, epoch) ==
    CASE m.method = "GetOwner" -> GetOwner(s)
      [] m.method = "GetWorker" -> GetWorker(s)
      [] m.method = "GetPeerID" -> GetPeerID(s)
      [] m.method = "GetPower" -> GetPower(s)
      [] m.method = "GetSectorSize" -> GetSectorSize(s)
      [] m.method = "GetAsks" -> GetAsks(s)
      [] m.method = "GetAsk" -> GetAsk(s, m.ask)
      [] m.method = "GetLastUsedSectorID" -> GetLastUsedSectorID(s)
      [] m.method = "GetActiveCollateral" -> GetActiveCollateral(s)
      [] m.method = "IsBootstrapMiner" -> IsBootstrapMiner(code)
      [] m.method = "GetPoStState" -> GetPoStState(s, epoch)
      [] m.method = "GetProvingSetCommitments" -> GetProvingSetCommitments(s)
      [] m.method = "VerifyPieceInclusion" -> VerifyPieceInclusion(s, m.sector, m.proved, epoch)
      [] m.method = "GetProvingWindow" -> GetProvingWindow(s)
      [] m.method = "CalculateLateFee" -> CalculateLateFee(s, m.at)
      [] OTHER -> Answer("MissingExport", 0)

Free == {"IsBootstrapMiner", "GetPoStState", "GetProvingWindow", "CalculateLateFee"}
ReadOnly == {"IsBootstrapMiner", "GetProvingSetCommitments", "GetPeerID", "GetProvingWindow",
             "CalculateLateFee"}

MinerQuery(w, id, m, epoch) ==
    LET charged == IF m.method \in Free THEN w ELSE Charge(w)
    IN  Then(charged, LAMBDA c :
        Then(IF m.method = "IsBootstrapMiner" THEN c ELSE ReadState(c, id), LAMBDA r :
            LET s == r.tree[id].head
                answer == MinerAnswer(s, r.tree[id].code, m, epoch)
            IN  IF answer.err # "" THEN Fail(r, answer.err)
                ELSE Returns(IF m.method \in ReadOnly THEN r ELSE WriteState(r, id, s),
                             answer.ret)))

MinerMethod(w, id, caller, value, m, epoch) ==
    LET bootstrap == w.tree[id].code = "bootstrapMiner"
        Update(Body(_)) == Then(Charge(w), LAMBDA c : WithState(c, id, Body))
    IN  CASE m.method = "SubmitPoSt" -> SubmitPoSt(w, id, bootstrap, caller, value, m, epoch)
          [] m.method = "SlashStorageFault" -> SlashStorageFault(w, id, epoch)
          [] m.method = "CommitSector" ->
                 Update(LAMBDA s : CommitSector(s, bootstrap, caller, m.sector, m.proved,
                                                w.tree[id].balance, epoch))
          [] m.method = "AddAsk" -> Update(LAMBDA s : AddAsk(s, caller, m.price, m.expiry, epoch))
          [] m.method = "AddFaults" -> Update(LAMBDA s : AddFaults(s, m.faults, epoch))
          [] m.method = "ChangeWorker" -> Update(LAMBDA s : ChangeWorker(s, caller, m.worker))
          [] m.method = "UpdatePeerID" -> Update(LAMBDA s : UpdatePeerID(s, caller, m.pid))
          [] OTHER -> MinerQuery(w, id, m, epoch)

InitMethod(w, value, m) ==
    CASE m.method = "Exec" -> Exec(w, m.code, m.addr, value, m)
      [] m.method = "GetActorIDForAddress" -> GetActorIDForAddress(w, m.addr)
      [] m.method = "GetAddressForActorID" -> GetAddressForActorID(w, m.id)
      [] m.method = "GetNetwork" -> GetNetwork(w)
      [] OTHER -> Fail(w, "MissingExport")

MarketMethod(w, caller, value, m, epoch) ==
    CASE m.method = "CreateStorageMiner" -> CreateStorageMiner(w, caller, value, m, epoch)
      [] m.method = "UpdateStorage" -> UpdateStorage(w, caller, m.delta)
      [] m.method = "GetLateMiners" -> GetLateMiners(w, epoch)
      [] m.method = "GetTotalStorage" -> getTotalStorage(w)
      [] OTHER -> Fail(w, "MissingExport")

PowerQuery(w, Ask(_)) ==
    Then(Charge(w), LAMBDA c :
    Then(ReadState(c, PowerID), LAMBDA r :
        LET s == r.tree[PowerID].head
        IN  IF Ask(s).err # "" THEN Fail(r, Ask(s).err)
            ELSE Returns(WriteState(r, PowerID, s), Ask(s).ret)))

PowerMethod(w, caller, value, m, epoch) ==
    CASE m.method = "CreateStorageMiner" -> PowerCreateStorageMiner(w, caller, value, m, epoch)
      [] m.method = "ProcessPowerReport" -> ProcessPowerReport(w, m.active, m.inactive, m.miner)
      [] m.method = "RemoveStorageMiner" -> RemoveStorageMiner(w, m.miner)
      [] m.method = "GetTotalPower" -> PowerQuery(w, GetTotalPower)
      [] m.method = "GetPowerReport" -> PowerQuery(w, LAMBDA s : GetPowerReport(s, m.miner))
      [] m.method = "GetSectorSize" -> PowerQuery(w, PowerGetSectorSize)
      [] OTHER -> Fail(w, "MissingExport")

\* The export wrapper refuses parameters it cannot decode.
makeTypedExport(w, to, caller, m, epoch) ==
    LET code == w.tree[to].code
    IN  IF "malformed" \in DOMAIN m THEN Fail(w, "InvalidParams")
        ELSE CASE code \in {"miner", "bootstrapMiner"} ->
                      MinerMethod(w, to, caller, m.value, m, epoch)
               [] code = "init" -> InitMethod(w, m.value, m)
               [] code = "market" -> MarketMethod(w, caller, m.value, m, epoch)
               [] code = "power" -> PowerMethod(w, caller, m.value, m, epoch)
               [] OTHER -> Fail(w, "MissingExport")

\* send: the transfer, then the method of the receiver's code.
Send(w, from, caller, to, m, epoch) ==
    Then(IF m.value = 0 THEN w ELSE Transfer(w, from, to, m.value), LAMBDA t :
        CASE m.method = "Send" -> t
          [] m.method = "Constructor" -> Fail(t, "NotFromInit")
          [] OTHER -> makeTypedExport(t, to, caller, m, epoch))

LegacySend(w, from, m, epoch) ==
    IF m.to = ID(from) THEN Fail(w, "fault")
    ELSE Then(FaultErrorWrap(vmGetOrCreateActor(w, m.to)), LAMBDA r :
              Send(r, from, ID(from), r.ret, m, epoch))
=============================================================================
