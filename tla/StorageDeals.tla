----------------------------- MODULE StorageDeals ---------------------------
(***************************************************************************)
(* The storage deal protocol between clients and one miner node: what      *)
(* ProposeDeal does between its waits, how the miner answers a proposal,   *)
(* how it processes the deals it accepts until their sectors are sealed,   *)
(* and the book-keeping of deals awaiting their seal, in memory and on     *)
(* disk.                                                                   *)
(***************************************************************************)
EXTENDS DealPayments, SectorBuilder, TLC

CONSTANTS
    Workloads,      \* scenarios: calls, prices, sectors, faults and bounds
    MaxUserBytes    \* what fits in a sector

VARIABLES
    workload,       \* the scenario
    height,         \* of the chain's head
    worker,         \* the miner actor's worker
    price,          \* the miner's mining.storagePrice
    ask,            \* the price of the miner's ask on chain
    channels,       \* the payment broker's channels, by id
    call,           \* the client's ProposeDeal calls
    requests,       \* proposals on their way to the miner, by call
    clientDeals,    \* the client's deal store
    minerDeals,     \* the miner's deal store
    proc,           \* processStorageDeal goroutines, by the call that started them
    das,            \* dealsAwaitingSeal
    disk,           \* its copy in the datastore
    loop,           \* the node's goroutine for sealing results
    commits,        \* commitSector messages sent
    restarts        \* of the miner node

dealVars == <<call, requests, clientDeals, minerDeals, proc, das, disk, loop, commits>>
chainVars == <<height, worker, price, ask, channels>>
vars == <<workload, chainVars, dealVars, restarts, sbVars>>

Calls == DOMAIN workload.calls
Fault(kind) == kind \in workload.faults
Miner == "m"
Owner == "o"
CommP(piece) == piece
Piece(c) == workload.calls[c].piece
Size(c) == workload.calls[c].size
Room == workload.room

\* A proposal is stored under its hash: deals of one piece that no channel
\* pays for have the same key.
Key(p) == [piece |-> p.piece, channel |-> p.channel]
Keys == [piece : {Piece(c) : c \in Calls}, channel : 0..Cardinality(Calls)]

NoAnswer == [state |-> "none", signer |-> "", reason |-> ""]
NoProof == [sector |-> 0, msg |-> 0, included |-> FALSE]
NewCall == [at |-> "new", height |-> 0, payHeight |-> 0, price |-> 0, worker |-> "",
            proposal |-> [piece |-> ""], answer |-> NoAnswer]
NoProc == [at |-> "none", key |-> [piece |-> ""], sector |-> 0, snap |-> <<>>]
NoInfo == [ok |-> FALSE, msg |-> 0, known |-> FALSE]
Idle == [at |-> "idle", result |-> NoResult, msg |-> 0, snap |-> <<>>]
Off == [Idle EXCEPT !.at = "off"]

newDealsAwaitingSeal ==
    [deals |-> [s \in Sectors |-> <<>>], sealed |-> [s \in Sectors |-> NoInfo]]

Init ==
    /\ workload \in Workloads
    /\ height = 1 /\ worker = "w1"
    /\ price = workload.price /\ ask = workload.price
    /\ channels = <<>>
    /\ call = [c \in Calls |-> NewCall]
    /\ requests = {}
    /\ clientDeals = {}
    /\ minerDeals = << >>
    /\ proc = [c \in Calls |-> NoProc]
    /\ das = newDealsAwaitingSeal /\ disk = newDealsAwaitingSeal
    /\ loop = Idle
    /\ commits = {}
    /\ restarts = 0
    /\ SBInit

-----------------------------------------------------------------------------
(* The chain and the miner's configuration *)

\* A block with the owner's changeWorker message; "block" is the rest of the step.
ChangeWorker(block) ==
    /\ workload.rekey /\ worker = "w1"
    /\ worker' = "w2"
    /\ block
    /\ UNCHANGED <<workload, price, ask, channels, dealVars, restarts, sbVars>>

\* The price is set before the ask is on chain, and stays when the ask fails.
MinerSetPrice(p) ==
    /\ p \in workload.prices \ {price}
    /\ price' = p
    /\ UNCHANGED <<workload, height, worker, ask, channels, dealVars, restarts, sbVars>>

AskMined ==
    /\ ask # price
    /\ ask' = price
    /\ UNCHANGED <<workload, height, worker, price, channels, dealVars, restarts, sbVars>>

-----------------------------------------------------------------------------
(* The client *)

isMaybeDupDeal(piece) == \E d \in clientDeals : d.key.piece = piece

Failed(c) == call' = [call EXCEPT ![c].at = "failed"]

\* In a serial workload a call starts when those before it have returned.
InTurn(c) ==
    workload.serial => \A d \in workload.calls[c].after : call[d].at \in {"done", "failed"}

\* ProposeDeal until it waits for the ping: the ask, the head's height and the
\* worker are read, and deals of the same piece are looked for.
ProposeDeal(c) ==
    /\ call[c].at = "new" /\ InTurn(c)
    /\ IF Size(c) > MaxUserBytes \/ (isMaybeDupDeal(Piece(c)) /\ ~workload.calls[c].dup)
       THEN Failed(c)
       ELSE call' = [call EXCEPT ![c].at = "ready", ![c].height = height, ![c].price = ask,
                                 ![c].worker = worker]
    /\ UNCHANGED <<workload, chainVars, requests, clientDeals, minerDeals, proc, das, disk, loop,
                   commits, restarts, sbVars>>

TotalPrice(c) == call[c].price * Size(c) * workload.duration

\* Mutant: the channel ends with the deal.
PaymentConfigMutant(c) ==
    [to |-> Owner, value |-> TotalPrice(c), duration |-> workload.duration, miner |-> Miner,
     commP |-> CommP(Piece(c)), size |-> Size(c), interval |-> VoucherInterval,
     expiry |-> call[c].height + workload.duration]

\* The channel outlives the deal as seen from the height read before the wait.
PaymentConfig(c) ==
    [to |-> Owner, value |-> TotalPrice(c), duration |-> workload.duration, miner |-> Miner,
     commP |-> CommP(Piece(c)), size |-> Size(c), interval |-> VoucherInterval,
     expiry |-> call[c].height + workload.duration + ChannelExpiryInterval]

Proposal(c, channel, vouchers) ==
    [piece |-> Piece(c), size |-> Size(c), total |-> TotalPrice(c), channel |-> channel,
     duration |-> workload.duration, vouchers |-> vouchers]

\* The signed proposal is written to a stream.
Propose(c, p) ==
    /\ call' = [call EXCEPT ![c].at = "sent", ![c].proposal = p]
    /\ requests' = requests \cup {c}

\* The ping is answered: the proposal goes out at once, or CreatePayments reads
\* the height again and sends the message that creates the channel.
Pinged(c) ==
    /\ call[c].at = "ready"
    /\ \/ /\ Fault("stream") \/ PaymentsError(PaymentConfig(c), height) # ""
          /\ Failed(c)
          /\ UNCHANGED requests
       \/ /\ TotalPrice(c) = 0
          /\ Propose(c, Proposal(c, 0, <<>>))
       \/ /\ TotalPrice(c) > 0 /\ PaymentsError(PaymentConfig(c), height) = ""
          /\ call' = [call EXCEPT ![c].at = "paying", ![c].payHeight = height]
          /\ UNCHANGED requests
    /\ UNCHANGED <<workload, chainVars, clientDeals, minerDeals, proc, das, disk, loop, commits,
                   restarts, sbVars>>

\* The channel's message is mined and the wait for it ends; the vouchers are
\* made and the proposal goes out.
ChannelCreated(c) ==
    LET id == Len(channels) + 1
        channel == [id |-> id, target |-> Owner, amount |-> TotalPrice(c),
                    eol |-> PaymentConfig(c).expiry]
        vouchers == CreateVouchers(PaymentConfig(c), channel, call[c].payHeight)
    IN  /\ call[c].at = "paying"
        /\ height > call[c].payHeight
        /\ \/ /\ channels' = Append(channels, channel)
              /\ IF \A i \in DOMAIN vouchers : vouchers[i].err = ""
                 THEN Propose(c, Proposal(c, id, vouchers))
                 ELSE Failed(c) /\ UNCHANGED requests
           \/ /\ Fault("channel")
              /\ Failed(c)
              /\ UNCHANGED <<channels, requests>>
        /\ UNCHANGED <<workload, height, worker, price, ask, clientDeals, minerDeals, proc, das, disk,
                       loop, commits, restarts, sbVars>>

checkDealResponse(c, answer) ==
    IF answer.signer # call[c].worker THEN "Response signature is invalid"
    ELSE IF answer.state # "Accepted" THEN answer.state
    ELSE ""

recordResponse(c, key) ==
    IF \E d \in clientDeals : d.key = key
    THEN Failed(c) /\ UNCHANGED clientDeals
    ELSE /\ clientDeals' = clientDeals \cup {[key |-> key, call |-> c]}
         /\ call' = [call EXCEPT ![c].at = "done"]

ReceiveResponse(c) ==
    /\ call[c].at = "answered"
    /\ IF checkDealResponse(c, call[c].answer) # ""
       THEN Failed(c) /\ UNCHANGED clientDeals
       ELSE recordResponse(c, Key(call[c].proposal))
    /\ UNCHANGED <<workload, chainVars, requests, minerDeals, proc, das, disk, loop, commits,
                   restarts, sbVars>>

\* The stream breaks: the client gives up, wherever its request is.
MakeProtocolRequestFails(c) ==
    /\ call[c].at \in {"sent", "answered"}
    /\ Fault("stream") \/ restarts > 0
    /\ Failed(c)
    /\ UNCHANGED <<workload, chainVars, requests, clientDeals, minerDeals, proc, das, disk, loop,
                   commits, restarts, sbVars>>

-----------------------------------------------------------------------------
(* The miner answers *)

getPaymentChannel(p) == IF p.channel \in DOMAIN channels THEN channels[p.channel] ELSE NoChannel

\* Why a proposal is refused, "" if it is not.
ProposalError(p) ==
    LET payment == IF price > 0 THEN validateDealPayment(p, price, getPaymentChannel(p), height, Owner)
                   ELSE ""
    IN  IF payment # "" THEN payment
        ELSE IF p.size > MaxUserBytes THEN "piece too large"
        ELSE ""

Answer(state, reason) == [state |-> state, signer |-> worker, reason |-> reason]
Deal(p, state) == [state |-> state, signer |-> worker, proof |-> NoProof, proposal |-> p]

\* The deal is stored before the answer is sent, over a deal of the same proposal.
DealPut(p, state) == minerDeals' = (Key(p) :> Deal(p, state)) @@ minerDeals

\* A client that has given up does not see the answer.
Answered(c, answer) ==
    call' = [call EXCEPT ![c].at = IF @ = "sent" THEN "answered" ELSE @, ![c].answer = answer]

\* Mutant: the deal is not stored before the answer is sent.
acceptProposalMutant(c, p) ==
    /\ proc' = [proc EXCEPT ![c] = [NoProc EXCEPT !.at = "start", !.key = Key(p)]]
    /\ UNCHANGED minerDeals
    /\ Answered(c, Answer("Accepted", ""))

acceptProposal(c, p) ==
    /\ DealPut(p, "Accepted")
    /\ proc' = [proc EXCEPT ![c] = [NoProc EXCEPT !.at = "start", !.key = Key(p)]]
    /\ Answered(c, Answer("Accepted", ""))

rejectProposal(c, p, reason) ==
    /\ DealPut(p, "Rejected")
    /\ UNCHANGED proc
    /\ Answered(c, Answer("Rejected", reason))

receiveStorageProposal(c, p) ==
    \/ /\ Fault("timeout") /\ price > 0
       /\ rejectProposal(c, p, "Timeout waiting for payment channel")
    \/ /\ ProposalError(p) # ""
       /\ rejectProposal(c, p, ProposalError(p))
    \/ /\ ProposalError(p) = ""
       /\ acceptProposal(c, p)

handleMakeDeal(c) ==
    /\ c \in requests /\ poller.at # "stopped"
    /\ requests' = requests \ {c}
    /\ receiveStorageProposal(c, call[c].proposal)
    /\ UNCHANGED <<workload, chainVars, clientDeals, das, disk, loop, commits, restarts, sbVars>>

\* Query of a deal the miner does not know is answered without a signature.
Query(key) ==
    IF key \in DOMAIN minerDeals
    THEN [state |-> minerDeals[key].state, signer |-> minerDeals[key].signer]
    ELSE [state |-> "Unknown", signer |-> ""]

QueryDeal(key) ==
    IF Query(key).signer # worker THEN "deal response has invalid signature" ELSE ""

-----------------------------------------------------------------------------
(* The miner processes an accepted deal *)

updateDealResponse(deals, key, state, proof) ==
    [deals EXCEPT ![key].state = state, ![key].signer = worker, ![key].proof = proof]

Fail(deals, key) == updateDealResponse(deals, key, "Failed", deals[key].proof)

Step(c, at) == proc' = [proc EXCEPT ![c].at = at]
EndProc(c) == proc' = [proc EXCEPT ![c] = NoProc]

\* A deal that another goroutine has moved on is left alone.  In a workload
\* that is about payments alone the goroutines do not get to run.
StartDeal(c) ==
    /\ proc[c].at = "start"
    /\ workload.process
    /\ IF minerDeals[proc[c].key].state = "Accepted" THEN Step(c, "fetching") ELSE EndProc(c)
    /\ UNCHANGED <<workload, chainVars, call, requests, clientDeals, minerDeals, das, disk, loop,
                   commits, restarts, sbVars>>

validatePieceCommitments(p) ==
    \A i \in DOMAIN p.vouchers :
        ValidatePaymentVoucherCondition(p.vouchers[i].condition, Miner, CommP(p.piece), p.size)

\* The data is fetched and the conditions of the vouchers are checked.
FetchData(c) ==
    /\ proc[c].at = "fetching"
    /\ \/ /\ Fault("fetch") \/ ~validatePieceCommitments(minerDeals[proc[c].key].proposal)
          /\ minerDeals' = Fail(minerDeals, proc[c].key)
          /\ EndProc(c)
       \/ /\ validatePieceCommitments(minerDeals[proc[c].key].proposal)
          /\ Step(c, "adding")
          /\ UNCHANGED minerDeals
    /\ UNCHANGED <<workload, chainVars, call, requests, clientDeals, das, disk, loop, commits,
                   restarts, sbVars>>

StagePiece(c) ==
    /\ proc[c].at = "adding"
    /\ \/ /\ \E id \in Sectors :
              /\ AddPiece(c, proc[c].key.piece, Room, id)
              /\ proc' = [proc EXCEPT ![c].at = "added", ![c].sector = id]
          /\ UNCHANGED minerDeals
       \/ /\ Fault("add")
          /\ AddPieceFails(proc[c].key.piece, Room)
          /\ minerDeals' = Fail(minerDeals, proc[c].key)
          /\ EndProc(c)
    /\ UNCHANGED <<workload, chainVars, call, requests, clientDeals, das, disk, loop, commits, restarts>>

UpdateStaged(c) ==
    /\ proc[c].at = "added"
    /\ minerDeals' = updateDealResponse(minerDeals, proc[c].key, "Staged", minerDeals[proc[c].key].proof)
    /\ Step(c, "staged")
    /\ UNCHANGED <<workload, chainVars, call, requests, clientDeals, das, disk, loop, commits,
                   restarts, sbVars>>

-----------------------------------------------------------------------------
(* Deals awaiting their seal *)

commitMessageCid(d, s) == d.sealed[s].msg

\* The response says whether the sector holds the deal's piece.
findPieceInfo(key, s) == Contains(sector[s].pieces, key.piece)

onCommitSuccess(deals, key, s, msg) ==
    updateDealResponse(deals, key, "Complete",
                       [sector |-> s, msg |-> msg, included |-> findPieceInfo(key, s)])

onCommitFail(deals, key) == Fail(deals, key)

\* Mutant: the goroutine attaches its deal to the newest sector.
attachDealToSectorMutant(c, s) ==
    /\ das' = [das EXCEPT !.deals[Len(sector)] = Append(@, proc[c].key)]
    /\ UNCHANGED minerDeals

\* Under the lock: the deal waits for its sector, or is settled with a result
\* that came first.  The result is then forgotten.
attachDealToSector(c, s) ==
    IF ~das.sealed[s].known
    THEN /\ das' = [das EXCEPT !.deals[s] = Append(@, proc[c].key)]
         /\ UNCHANGED minerDeals
    ELSE /\ minerDeals' = IF das.sealed[s].ok
                          THEN onCommitSuccess(minerDeals, proc[c].key, s, commitMessageCid(das, s))
                          ELSE onCommitFail(minerDeals, proc[c].key)
         /\ das' = [das EXCEPT !.sealed[s] = NoInfo]

\* Mutant: the deals that waited are not told.
onSealSuccessMutant(s, msg) ==
    /\ das' = [das EXCEPT !.sealed[s] = [ok |-> TRUE, msg |-> msg, known |-> TRUE],
                          !.deals[s] = <<>>]
    /\ UNCHANGED minerDeals

onSealSuccess(s, msg) ==
    /\ minerDeals' = FoldSeq(LAMBDA key, deals : onCommitSuccess(deals, key, s, msg),
                             minerDeals, das.deals[s])
    /\ das' = [das EXCEPT !.sealed[s] = [ok |-> TRUE, msg |-> msg, known |-> TRUE],
                          !.deals[s] = <<>>]

onSealFail(s) ==
    /\ minerDeals' = FoldSeq(LAMBDA key, deals : onCommitFail(deals, key), minerDeals, das.deals[s])
    /\ das' = [das EXCEPT !.sealed[s] = [ok |-> FALSE, msg |-> 0, known |-> TRUE],
                          !.deals[s] = <<>>]

AttachDeal(c) ==
    /\ proc[c].at = "staged"
    /\ attachDealToSector(c, proc[c].sector)
    /\ Step(c, "attached")
    /\ UNCHANGED <<workload, chainVars, call, requests, clientDeals, disk, loop, commits, restarts,
                   sbVars>>

\* saveDealsAwaitingSeal copies the maps under their lock and writes the copy
\* without it.
MarshalForDeal(c) ==
    /\ proc[c].at = "attached"
    /\ proc' = [proc EXCEPT ![c].at = "saving", ![c].snap = das]
    /\ UNCHANGED <<workload, chainVars, call, requests, clientDeals, minerDeals, das, disk, loop,
                   commits, restarts, sbVars>>

SaveForDeal(c) ==
    /\ proc[c].at = "saving"
    /\ disk' = proc[c].snap \/ (Fault("disk") /\ disk' = disk)
    /\ EndProc(c)
    /\ UNCHANGED <<workload, chainVars, call, requests, clientDeals, minerDeals, das, loop, commits,
                   restarts, sbVars>>

-----------------------------------------------------------------------------
(* The node's loop over sealing results *)

\* A failed seal is only logged.
ReceiveSealResult ==
    /\ loop.at = "idle"
    /\ \E r \in [id : Sectors, ok : BOOLEAN] :
        /\ SectorSealResults(r)
        /\ loop' = IF r.ok THEN [Idle EXCEPT !.at = "commit", !.result = r] ELSE Idle
    /\ UNCHANGED <<workload, chainVars, call, requests, clientDeals, minerDeals, proc, das, disk,
                   commits, restarts>>

\* Mutant: the deals are told of a message that could not be sent.
SendCommitSectorMutant ==
    /\ loop.at = "commit"
    /\ loop' = [loop EXCEPT !.at = "sent", !.msg = Cardinality(commits) + 1]
    /\ \/ commits' = commits \cup {[sector |-> loop.result.id, msg |-> Cardinality(commits) + 1]}
       \/ Fault("send") /\ UNCHANGED commits
    /\ UNCHANGED <<workload, chainVars, call, requests, clientDeals, minerDeals, proc, das, disk,
                   restarts, sbVars>>

\* Without a worker address, or when the message cannot be sent, the sector is
\* dropped.
SendCommitSector ==
    /\ loop.at = "commit"
    /\ \/ /\ commits' = commits \cup {[sector |-> loop.result.id, msg |-> Cardinality(commits) + 1]}
          /\ loop' = [loop EXCEPT !.at = "sent", !.msg = Cardinality(commits) + 1]
       \/ /\ Fault("send")
          /\ loop' = Idle
          /\ UNCHANGED commits
    /\ UNCHANGED <<workload, chainVars, call, requests, clientDeals, minerDeals, proc, das, disk,
                   restarts, sbVars>>

OnCommitmentSent ==
    /\ loop.at = "sent"
    /\ onSealSuccess(loop.result.id, loop.msg)
    /\ loop' = [loop EXCEPT !.at = "notified"]
    /\ UNCHANGED <<workload, chainVars, call, requests, clientDeals, proc, disk, commits, restarts,
                   sbVars>>

MarshalForSector ==
    /\ loop.at = "notified"
    /\ loop' = [loop EXCEPT !.at = "saving", !.snap = das]
    /\ UNCHANGED <<workload, chainVars, call, requests, clientDeals, minerDeals, proc, das, disk,
                   commits, restarts, sbVars>>

\* A copy that cannot be written turns the sector's result into a failure.
SaveForSector ==
    /\ loop.at = "saving"
    /\ loop' = Idle
    /\ \/ /\ disk' = loop.snap
          /\ UNCHANGED <<minerDeals, das>>
       \/ /\ Fault("disk")
          /\ onSealFail(loop.result.id)
          /\ UNCHANGED disk
    /\ UNCHANGED <<workload, chainVars, call, requests, clientDeals, proc, commits, restarts, sbVars>>

-----------------------------------------------------------------------------
(* Start, stop and restart of the node *)

StopMining ==
    /\ workload.stops /\ loop.at = "idle"
    /\ loop' = Off
    /\ UNCHANGED <<workload, chainVars, call, requests, clientDeals, minerDeals, proc, das, disk,
                   commits, restarts, sbVars>>

CloseBuilder ==
    /\ loop.at = "off"
    /\ Close
    /\ UNCHANGED <<workload, chainVars, dealVars, restarts>>

\* The process dies and starts again: only the stores survive, NewMiner loads
\* the deals awaiting their seal, and no deal is processed again.
Restart ==
    /\ restarts < workload.restarts
    /\ restarts' = restarts + 1
    /\ proc' = [c \in Calls |-> NoProc]
    /\ das' = disk
    /\ loop' = Idle
    /\ NewRustSectorBuilder
    /\ requests' = {}
    /\ call' = [c \in Calls |-> IF c \in requests THEN [call[c] EXCEPT !.at = "failed"] ELSE call[c]]
    /\ UNCHANGED <<workload, chainVars, clientDeals, minerDeals, disk, commits>>

PollerAdds(c) ==
    /\ \E id \in Sectors : addSectorID(c, id)
    /\ UNCHANGED <<workload, chainVars, dealVars, restarts>>

PollerStep ==
    /\ StartPass \/ \E id \in Sectors : Visit(id)
    /\ UNCHANGED <<workload, chainVars, dealVars, restarts>>

\* The node's timer, and the seal-now command.
AutoSeal ==
    /\ SealAllStagedSectors
    /\ UNCHANGED <<workload, chainVars, dealVars, restarts>>

SectorSealed(id) ==
    /\ SealEnds(id, Fault("seal"))
    /\ UNCHANGED <<workload, chainVars, dealVars, restarts>>

ProcStep(c) ==
    \/ StartDeal(c) \/ FetchData(c) \/ StagePiece(c) \/ UpdateStaged(c)
    \/ AttachDeal(c) \/ MarshalForDeal(c) \/ SaveForDeal(c)

LoopStep ==
    \/ ReceiveSealResult \/ SendCommitSector \/ OnCommitmentSent
    \/ MarshalForSector \/ SaveForSector

Next ==
    \/ AskMined
    \/ \E p \in workload.prices : MinerSetPrice(p)
    \/ \E c \in Calls :
        \/ ProposeDeal(c) \/ Pinged(c) \/ ChannelCreated(c)
        \/ ReceiveResponse(c) \/ MakeProtocolRequestFails(c)
        \/ handleMakeDeal(c) \/ ProcStep(c) \/ PollerAdds(c)
    \/ LoopStep \/ PollerStep \/ AutoSeal
    \/ \E id \in Sectors : SectorSealed(id)
    \/ StopMining \/ CloseBuilder

-----------------------------------------------------------------------------
(* Properties *)

\* Types: the stores hold deals of known proposals, the goroutines are at one
\* of their steps, and the book-keeping names sectors that exist.
DealsTypeOK ==
    /\ DOMAIN minerDeals \subseteq Keys /\ {d.key : d \in clientDeals} \subseteq Keys
    /\ \A k \in DOMAIN minerDeals :
           minerDeals[k].state \in {"Rejected", "Accepted", "Staged", "Failed", "Complete"}
    /\ \A s \in Sectors : das.deals[s] # <<>> \/ das.sealed[s].known => s \in DOMAIN sector
    /\ SBTypeOK

\* A deal the miner reports as Complete names a sector that is sealed and has
\* the deal's piece, and a commitSector message that was sent for that sector:
\* whichever of the sealing result and the book-keeping came first.
CompleteIsCommitted ==
    \A k \in DOMAIN minerDeals : minerDeals[k].state = "Complete" =>
        LET proof == minerDeals[k].proof
        IN  /\ proof.included
            /\ sector[proof.sector].status = "sealed"
            /\ [sector |-> proof.sector, msg |-> proof.msg] \in commits

\* The miner does not refuse a proposal for its payment if the client read
\* one height throughout and the price is met: the channel and the vouchers
\* pass the miner's checks at whatever height they arrive.
PaymentAccepted ==
    \A c \in Calls :
        call[c].answer.state = "Rejected" =>
            \/ call[c].height # call[c].payHeight
            \/ call[c].answer.reason \in {"proposed price is less than expected", "piece too large",
                                         "Timeout waiting for payment channel"}

\* The vouchers of a deal that the miner accepted pay for the time that has
\* passed: at every height, the one to redeem covers the intervals completed,
\* and never more than the channel holds.
VouchersPayForTime ==
    \A k \in DOMAIN minerDeals : minerDeals[k].proposal.vouchers # <<>> =>
        LET p == minerDeals[k].proposal
            n == Len(p.vouchers)
            start == p.vouchers[n].validAt - p.duration
        IN  \A at \in start..(start + p.duration) :
                LET paid == buildDealRedeemParams(p.vouchers, at).amount
                    passed == IF at = start + p.duration THEN p.duration
                              ELSE ((at - start) \div VoucherInterval) * VoucherInterval
                IN  /\ paid * p.duration >= p.total * passed
                    /\ paid <= channels[k.channel].amount

\* A deal's payment is accepted when it is proposed and covers the deal when it
\* is redeemed: the heights that client, voucher builder, validator and redeemer
\* each read do not open a gap between them.
DealPaid == PaymentAccepted /\ VouchersPayForTime

\* A deal that a client has recorded is known to the miner, which stored it
\* before it answered: a query fails only if the worker's key has changed.
RecordedDealKnown ==
    \A d \in clientDeals :
        /\ d.key \in DOMAIN minerDeals
        /\ QueryDeal(d.key) # "" => workload.rekey

\* Without leave for duplicates a client that makes one call after another has
\* at most one deal for a piece.
NoUnwantedDuplicate ==
    workload.serial =>
        \A d, e \in clientDeals : d # e /\ d.key.piece = e.key.piece =>
            \/ d.call \in workload.calls[e.call].after /\ workload.calls[e.call].dup
            \/ e.call \in workload.calls[d.call].after /\ workload.calls[d.call].dup

\* What a client has recorded stands: the miner knows every deal of it, and
\* none is there twice without leave, through faults and restarts.
ClientRecordsHold == RecordedDealKnown /\ NoUnwantedDuplicate

\* The poller still has the sector, or the loop its result.
Reported(s) ==
    \/ s \in awaiting \/ \E a \in adding : a[2] = s
    \/ loop.at \in {"commit", "sent"} /\ loop.result.id = s

\* A deal attached to a sector will hear of it: the sector is still polled, or
\* in the hands of the loop, through restarts of the node, if at most one deal
\* fits in a sector and nothing fails.  A sector that was sealed at a restart
\* is the exception.
AttachedIsReported ==
    workload.room = 1 /\ workload.faults = {} /\ ~workload.stops =>
        \A s \in Sectors :
            das.deals[s] # <<>> => Reported(s) \/ (restarts > 0 /\ sector[s].status = "sealed")

\* Nothing fails, stops or restarts and a sector has room for one deal.
Calm == workload.process /\ workload.room = 1 /\ workload.faults = {} /\ ~workload.stops /\ workload.restarts = 0

\* Every accepted deal is settled in the end, if nothing fails and at most one
\* deal fits in a sector: the sealing result finds its deal, in either order.
EveryDealSettles ==
    (Calm /\ \E k \in DOMAIN minerDeals : minerDeals[k].state = "Accepted")
        ~> (\A k \in DOMAIN minerDeals : minerDeals[k].state \notin {"Accepted", "Staged"})

-----------------------------------------------------------------------------
(* What the miner promises about a deal *)

AllKeys == UNION {[piece : {w.calls[c].piece : c \in DOMAIN w.calls},
                   channel : 0..Cardinality(DOMAIN w.calls)] : w \in Workloads}

StateOf(k) == IF k \in DOMAIN minerDeals THEN minerDeals[k].state ELSE "none"
Received(k) == {c \in Calls : call[c].answer # NoAnswer /\ Key(call[c].proposal) = k}
CommitmentSent(k) == \E m \in commits : Contains(sector[m.sector].pieces, k.piece)

LifeCycle == INSTANCE DealLifeCycle WITH
    Deals <- AllKeys,
    state <- [k \in AllKeys |-> StateOf(k)],
    again <- {k \in AllKeys : Cardinality(Received(k)) > 1},
    committed <- {k \in AllKeys : CommitmentSent(k)}

\* The miner's deal store implements the life cycle that module DealLifeCycle
\* promises: through faults and restarts, the state of a deal that is proposed
\* once only moves forward, and Complete follows the commitment.
DealsFollowLifeCycle == LifeCycle!LifeSpec
=============================================================================
