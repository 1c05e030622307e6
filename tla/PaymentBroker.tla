---------------------------- MODULE PaymentBroker ----------------------------
(***************************************************************************)
(* The payment broker actor: payment channels held on chain for a payer,   *)
(* from which a target withdraws with vouchers the payer signed off chain. *)
(*                                                                         *)
(* A message to the actor is applied whole or not at all: an error makes   *)
(* the processor drop the cached state tree.  An action is therefore one   *)
(* successful call, its guard the conjunction of the checks that did not   *)
(* return an error; a failing call is a stuttering step.  Gas is left out. *)
(***************************************************************************)
EXTENDS Integers, FiniteSets

CONSTANTS
    Payers,          \* accounts that open channels
    Targets,         \* accounts that channels pay to
    Broker,          \* the address of the payment broker actor
    Preds,           \* predicates (To, Method, Params) a voucher may carry
    Params,          \* parameters a redeemer may supply
    NoParams,        \* the redeemer supplied none
    NoCondition,     \* a voucher without a condition
    NoChannel,       \* the channel is not in the actor's lookup
    CancelDelay,     \* CancelDelayBlockTime
    InitialBalance,  \* what every account owns at the start
    MaxChannels,     \* bound: channels a payer may open
    MaxEpoch,        \* bound: last epoch, and last end of life
    MaxVouchers      \* bound: vouchers signed in a behaviour

Accounts == Payers \union Targets

ASSUME BrokerAssumption ==
    /\ Broker \notin Accounts
    /\ CancelDelay \in Nat
    /\ InitialBalance \in Nat
    /\ MaxChannels \in Nat
    /\ MaxEpoch \in Nat
    /\ MaxVouchers \in Nat

Epochs == 0..MaxEpoch
ChannelID == Payers \X (0..(MaxChannels - 1))

\* A condition as it is cached on a channel: the voucher's predicate with the
\* parameters of the redeemer appended.
Condition == [pred : Preds, params : Params \union {NoParams}]

PaymentChannel == [target : Targets, amount : Nat, amountRedeemed : Nat,
                   agreedEol : Epochs, eol : Epochs, redeemed : BOOLEAN,
                   condition : Condition \union {NoCondition}]

ASSUME SentinelAssumption ==
    /\ NoParams \notin Params
    /\ NoCondition \notin Condition \union Preds
    /\ NoChannel \notin PaymentChannel

\* The signature covers payer, channel, amount, validAt and condition.
PaymentVoucher == [channel : ChannelID, amount : Nat, validAt : Epochs,
                   condition : Preds \union {NoCondition}]

VARIABLES
    epoch,      \* the height at which messages are applied
    balance,    \* actor balances
    nonce,      \* per payer: its CallSeqNum, counting only its createChannel messages
    channels,   \* the actor's lookup, by payer and channel id
    signed,     \* vouchers signed by their payer, held off chain
    holding,    \* conditions whose message would succeed in the current state
    deposited,  \* history: what the payer put into each channel
    paid,       \* history: what each channel paid to its target
    refunded,   \* history: what each channel gave back to its payer
    promised,   \* history: the latest end of life each channel was agreed to have
    firstCancel \* history: the epoch of the first cancel of each channel

NeverCancelled == -1

ledger == <<deposited, paid, refunded, promised, firstCancel>>
vars == <<epoch, balance, nonce, channels, signed, holding, ledger>>

Init ==
    /\ epoch = 0
    /\ balance = [a \in Accounts \union {Broker} |->
                    IF a = Broker THEN 0 ELSE InitialBalance]
    /\ nonce = [p \in Payers |-> 0]
    /\ channels = [c \in ChannelID |-> NoChannel]
    /\ signed = {}
    /\ holding \in SUBSET Condition
    /\ deposited = [c \in ChannelID |-> 0]
    /\ paid = [c \in ChannelID |-> 0]
    /\ refunded = [c \in ChannelID |-> 0]
    /\ promised = [c \in ChannelID |-> 0]
    /\ firstCancel = [c \in ChannelID |-> NeverCancelled]

Open(c) == channels[c] # NoChannel
Remaining(c) == channels[c].amount - channels[c].amountRedeemed

\* vmcontext.Transfer: fails when the sender's balance is too low.
CanTransfer(from, value) == value <= balance[from]
Transfer(from, to, value) == [balance EXCEPT ![from] = @ - value, ![to] = @ + value]

(***************************************************************************)
(* Environment: time passes, and the state other actors' methods look at   *)
(* changes, so that a condition may start or stop to hold.                 *)
(***************************************************************************)
Tick ==
    /\ epoch < MaxEpoch
    /\ epoch' = epoch + 1
    /\ UNCHANGED <<balance, nonce, channels, signed, holding, ledger>>

ConditionsChange ==
    /\ \E c \in Condition : holding' = (holding \ {c}) \union ({c} \ holding)
    /\ UNCHANGED <<epoch, balance, nonce, channels, signed, ledger>>

(***************************************************************************)
(* createChannel: the channel id is the nonce of the creating message.     *)
(***************************************************************************)
CreateChannel(p, target, value, eol) ==
    LET c == <<p, nonce[p]>> IN
    /\ nonce[p] < MaxChannels
    /\ CanTransfer(p, value)
    /\ ~Open(c)
    /\ channels' = [channels EXCEPT ![c] =
                      [target |-> target, amount |-> value, amountRedeemed |-> 0,
                       agreedEol |-> eol, eol |-> eol, redeemed |-> FALSE,
                       condition |-> NoCondition]]
    /\ balance' = Transfer(p, Broker, value)
    /\ nonce' = [nonce EXCEPT ![p] = @ + 1]
    /\ deposited' = [deposited EXCEPT ![c] = @ + value]
    /\ promised' = [promised EXCEPT ![c] = eol]
    /\ UNCHANGED <<epoch, signed, holding, paid, refunded, firstCancel>>

\* voucher, then SignVoucher by the payer: nothing changes on chain.
Voucher(c, amount, validAt, pred) ==
    /\ Cardinality(signed) < MaxVouchers
    /\ Open(c)
    /\ amount <= channels[c].amount
    /\ signed' = signed \union {[channel |-> c, amount |-> amount, validAt |-> validAt,
                                 condition |-> pred]}
    /\ UNCHANGED <<epoch, balance, nonce, channels, holding, ledger>>

(***************************************************************************)
(* cacheCondition and checkCondition.  A cached condition is kept when the *)
(* channel was redeemed before and the redeemer supplies no parameters.    *)
(***************************************************************************)
CacheCondition(ch, pred, params) ==
    IF pred = NoCondition THEN NoCondition
    ELSE IF ~ch.redeemed \/ ch.condition = NoCondition \/ params # NoParams
         THEN [pred |-> pred, params |-> params]
         ELSE ch.condition

CheckCondition(cond) == cond = NoCondition \/ cond \in holding

\* validateAndUpdateChannel: its checks, and the channel it leaves behind.
ValidUpdate(caller, ch, v, params) ==
    /\ CheckCondition(CacheCondition(ch, v.condition, params))
    /\ caller = ch.target
    /\ v.validAt <= epoch
    /\ epoch < ch.eol
    /\ v.amount <= ch.amount
    /\ v.amount > ch.amountRedeemed
    /\ CanTransfer(Broker, v.amount - ch.amountRedeemed)

\* Mutant: the amount redeemed is not recorded.
UpdatedChannelMutant(ch, v, params) ==
    [ch EXCEPT !.condition = CacheCondition(ch, v.condition, params)]

UpdatedChannel(ch, v, params) ==
    [ch EXCEPT !.amountRedeemed = v.amount,
               !.condition = CacheCondition(ch, v.condition, params)]

Redeem(caller, v, params) ==
    LET ch == channels[v.channel] IN
    /\ v \in signed
    /\ Open(v.channel)
    /\ ValidUpdate(caller, ch, v, params)
    /\ channels' = [channels EXCEPT ![v.channel] =
                      [UpdatedChannel(ch, v, params) EXCEPT !.eol = ch.agreedEol,
                                                            !.redeemed = TRUE]]
    /\ balance' = Transfer(Broker, caller, v.amount - ch.amountRedeemed)
    /\ paid' = [paid EXCEPT ![v.channel] = @ + (v.amount - ch.amountRedeemed)]
    /\ UNCHANGED <<epoch, nonce, signed, holding, deposited, refunded, promised, firstCancel>>

(***************************************************************************)
(* close: the update of redeem, then the remaining funds go back to the    *)
(* payer and the channel is deleted - unless nothing remains, in which     *)
(* case the helper reclaim returns early and the channel stays.            *)
(***************************************************************************)
Close(caller, v, params) ==
    LET c == v.channel
        ch == channels[c]
        toTarget == v.amount - ch.amountRedeemed
        rest == ch.amount - v.amount
        afterPay == Transfer(Broker, caller, toTarget)
    IN
    /\ v \in signed
    /\ Open(c)
    /\ ValidUpdate(caller, ch, v, params)
    /\ rest <= afterPay[Broker]
    /\ channels' = [channels EXCEPT ![c] =
                      IF rest <= 0 THEN UpdatedChannel(ch, v, params) ELSE NoChannel]
    /\ balance' = [afterPay EXCEPT ![Broker] = @ - rest, ![c[1]] = @ + rest]
    /\ paid' = [paid EXCEPT ![c] = @ + toTarget]
    /\ refunded' = [refunded EXCEPT ![c] = @ + rest]
    /\ UNCHANGED <<epoch, nonce, signed, holding, deposited, promised, firstCancel>>

Extend(c, value, eol) ==
    /\ Open(c)
    /\ CanTransfer(c[1], value)
    /\ channels[c].eol <= eol
    /\ channels' = [channels EXCEPT ![c].agreedEol = eol, ![c].eol = eol,
                                    ![c].amount = @ + value]
    /\ balance' = Transfer(c[1], Broker, value)
    /\ deposited' = [deposited EXCEPT ![c] = @ + value]
    /\ promised' = [promised EXCEPT ![c] = IF eol > @ THEN eol ELSE @]
    /\ UNCHANGED <<epoch, nonce, signed, holding, paid, refunded, firstCancel>>

\* Mutant: cancel ends the channel at once.
CancelMutant(c) ==
    /\ Open(c)
    /\ channels[c].redeemed => ~CheckCondition(channels[c].condition)
    /\ channels' = [channels EXCEPT ![c].eol = IF @ > epoch THEN epoch ELSE @]
    /\ firstCancel' = [firstCancel EXCEPT ![c] = IF @ = NeverCancelled THEN epoch ELSE @]
    /\ UNCHANGED <<epoch, balance, nonce, signed, holding, deposited, paid, refunded, promised>>

\* cancel fails after a redeem whose condition (or lack of one) still stands.
Cancel(c) ==
    /\ Open(c)
    /\ channels[c].redeemed => ~CheckCondition(channels[c].condition)
    /\ channels' = [channels EXCEPT ![c].eol =
                      IF @ > epoch + CancelDelay THEN epoch + CancelDelay ELSE @]
    /\ firstCancel' = [firstCancel EXCEPT ![c] = IF @ = NeverCancelled THEN epoch ELSE @]
    /\ UNCHANGED <<epoch, balance, nonce, signed, holding, deposited, paid, refunded, promised>>

\* Mutant: reclaim waits until after the end of life.
ReclaimMutant(c) ==
    /\ Open(c)
    /\ channels[c].eol < epoch
    /\ Remaining(c) > 0
    /\ CanTransfer(Broker, Remaining(c))
    /\ channels' = [channels EXCEPT ![c] = NoChannel]
    /\ balance' = Transfer(Broker, c[1], Remaining(c))
    /\ refunded' = [refunded EXCEPT ![c] = @ + Remaining(c)]
    /\ UNCHANGED <<epoch, nonce, signed, holding, deposited, paid, promised, firstCancel>>

\* reclaim, from the end of life on; with nothing remaining it changes nothing.
Reclaim(c) ==
    /\ Open(c)
    /\ channels[c].eol <= epoch
    /\ Remaining(c) > 0
    /\ CanTransfer(Broker, Remaining(c))
    /\ channels' = [channels EXCEPT ![c] = NoChannel]
    /\ balance' = Transfer(Broker, c[1], Remaining(c))
    /\ refunded' = [refunded EXCEPT ![c] = @ + Remaining(c)]
    /\ UNCHANGED <<epoch, nonce, signed, holding, deposited, paid, promised, firstCancel>>

Next ==
    \/ Tick
    \/ ConditionsChange
    \/ \E p \in Payers, t \in Targets, value \in 0..InitialBalance, eol \in Epochs :
          CreateChannel(p, t, value, eol)
    \/ \E c \in ChannelID, amount \in 0..InitialBalance, validAt \in Epochs,
          pred \in Preds \union {NoCondition} :
          Voucher(c, amount, validAt, pred)
    \/ \E t \in Targets, v \in signed, params \in Params \union {NoParams} :
          Redeem(t, v, params) \/ Close(t, v, params)
    \/ \E c \in ChannelID, value \in 0..InitialBalance, eol \in Epochs :
          Extend(c, value, eol)
    \/ \E c \in ChannelID : Cancel(c) \/ Reclaim(c)

Spec == Init /\ [][Next]_vars

\* Epochs pass, and the payer of a channel keeps calling reclaim.
Fairness == WF_vars(Tick) /\ \A c \in ChannelID : WF_vars(Reclaim(c))

(***************************************************************************)
(* Properties                                                              *)
(***************************************************************************)

\* Every variable keeps its type; in particular no balance goes negative.
TypeOK ==
    /\ epoch \in Epochs
    /\ balance \in [Accounts \union {Broker} -> Nat]
    /\ nonce \in [Payers -> 0..MaxChannels]
    /\ channels \in [ChannelID -> PaymentChannel \union {NoChannel}]
    /\ signed \in SUBSET PaymentVoucher
    /\ holding \in SUBSET Condition
    /\ deposited \in [ChannelID -> Nat]
    /\ paid \in [ChannelID -> Nat]
    /\ refunded \in [ChannelID -> Nat]
    /\ promised \in [ChannelID -> Epochs]
    /\ firstCancel \in [ChannelID -> Epochs \union {NeverCancelled}]

\* What the open channels owe, one element for every unit.
Owed == UNION {{c} \X (1..Remaining(c)) : c \in {d \in ChannelID : Open(d)}}

\* The actor's balance is exactly what its open channels still owe, however
\* creates, extends, redeems, closes and reclaims of different channels are
\* interleaved: no channel is ever paid from another channel's deposit.
BrokerHoldsWhatItOwes == balance[Broker] = Cardinality(Owed)

\* Channel by channel, what went in came out once: deposits are what was paid
\* to the target, refunded to the payer, and (while open) still in the channel.
ChannelConserved ==
    \A c \in ChannelID :
        IF Open(c)
        THEN /\ channels[c].amountRedeemed = paid[c]
             /\ paid[c] <= channels[c].amount
             /\ refunded[c] = 0
             /\ deposited[c] = channels[c].amount
        ELSE deposited[c] = paid[c] + refunded[c]

\* Vouchers are cumulative: however many are redeemed and in whatever order,
\* the target has received exactly the amount of one voucher the payer signed.
PaidIsOneVoucher ==
    \A c \in ChannelID : paid[c] > 0 =>
        \E v \in signed : v.channel = c /\ v.amount = paid[c]

\* The payer cannot cut a channel's life short without notice: an end of life
\* before the latest agreed one is at least CancelDelay after a cancel.
EndOfLifeHasNotice ==
    \A c \in ChannelID : Open(c) =>
        \/ channels[c].eol >= promised[c]
        \/ /\ firstCancel[c] # NeverCancelled
           /\ channels[c].eol >= firstCancel[c] + CancelDelay

\* No deposit is stranded in the actor: as long as the payer keeps calling
\* reclaim, whatever the target redeems and whatever is cancelled or extended,
\* the funds of a channel end up paid or refunded.
NoFundsStranded ==
    \A c \in ChannelID : (Open(c) /\ Remaining(c) > 0) ~> ~(Open(c) /\ Remaining(c) > 0)

\* A channel that was closed or reclaimed never comes back under its id, so
\* a voucher for it can never be redeemed again.
ClosedForGood ==
    [][\A c \in ChannelID :
         c[2] < nonce[c[1]] /\ ~Open(c) => channels'[c] = NoChannel]_vars
=============================================================================
