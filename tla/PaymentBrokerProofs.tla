------------------------- MODULE PaymentBrokerProofs -------------------------
(***************************************************************************)
(* Proofs about the payment broker for any number of payers, targets,      *)
(* channels and epochs.  The inductive invariant adds to the type of the   *)
(* state three facts about each channel: an id not handed out yet is       *)
(* unused, a cancel lies in the past, and the current end of life never    *)
(* exceeds the agreed one (a redeem restores the agreed one).              *)
(***************************************************************************)
EXTENDS PaymentBroker, FiniteSetTheorems, TLAPS

\* Time limits with a wide margin: every leaf takes about a second.
USE SMTT(60), ZenonT(60), SMTT(61)

Unused(c) ==
    /\ channels[c] = NoChannel
    /\ deposited[c] = 0
    /\ paid[c] = 0
    /\ refunded[c] = 0
    /\ firstCancel[c] = NeverCancelled

\* The bodies of ChannelConserved, PaidIsOneVoucher and EndOfLifeHasNotice
\* for one channel.
Conserved(c) ==
    IF Open(c)
    THEN /\ channels[c].amountRedeemed = paid[c]
         /\ paid[c] <= channels[c].amount
         /\ refunded[c] = 0
         /\ deposited[c] = channels[c].amount
    ELSE deposited[c] = paid[c] + refunded[c]

OneVoucher(c) == paid[c] > 0 => \E v \in signed : v.channel = c /\ v.amount = paid[c]

HasNotice(c) ==
    Open(c) =>
        \/ channels[c].eol >= promised[c]
        \/ /\ firstCancel[c] # NeverCancelled
           /\ channels[c].eol >= firstCancel[c] + CancelDelay

ChannelInv(c) ==
    /\ c[2] >= nonce[c[1]] => Unused(c)
    /\ firstCancel[c] <= epoch
    /\ Open(c) => channels[c].eol <= channels[c].agreedEol
    /\ Conserved(c)
    /\ OneVoucher(c)
    /\ HasNotice(c)

IInv == TypeOK /\ \A c \in ChannelID : ChannelInv(c)

\* The initial state, in which no channel exists, satisfies the invariant.
LEMMA InitIInv == Init => IInv
BY BrokerAssumption
   DEF Init, IInv, ChannelInv, Conserved, OneVoucher, HasNotice, TypeOK, Unused, Open,
       Epochs, ChannelID, Accounts, NeverCancelled

\* The invariant contains the three properties the runs check.
LEMMA IInvImplies ==
    IInv => TypeOK /\ ChannelConserved /\ PaidIsOneVoucher /\ EndOfLifeHasNotice
BY DEF IInv, ChannelInv, Conserved, OneVoucher, HasNotice, ChannelConserved,
       PaidIsOneVoucher, EndOfLifeHasNotice

\* A channel in the actor's lookup is a record, one outside it is not.
LEMMA OpenChannel ==
    ASSUME TypeOK, NEW c \in ChannelID, Open(c)
    PROVE  channels[c] \in PaymentChannel
BY DEF TypeOK, Open

\* A redeem or close by voucher leaves a well-formed channel behind, and
\* transfers an amount that is positive and still in the channel.
LEMMA UpdateFacts ==
    ASSUME TypeOK, NEW v \in PaymentVoucher, Open(v.channel),
           NEW caller \in Targets, NEW params \in Params \union {NoParams},
           ValidUpdate(caller, channels[v.channel], v, params)
    PROVE  /\ v.channel \in ChannelID
           /\ channels[v.channel] \in PaymentChannel
           /\ UpdatedChannel(channels[v.channel], v, params) \in PaymentChannel
           /\ UpdatedChannel(channels[v.channel], v, params).amountRedeemed = v.amount
           /\ UpdatedChannel(channels[v.channel], v, params).amount = channels[v.channel].amount
           /\ UpdatedChannel(channels[v.channel], v, params).eol = channels[v.channel].eol
           /\ UpdatedChannel(channels[v.channel], v, params).agreedEol
                  = channels[v.channel].agreedEol
           /\ v.amount - channels[v.channel].amountRedeemed \in Nat
           /\ channels[v.channel].amount - v.amount \in Nat
           /\ v.amount - channels[v.channel].amountRedeemed <= balance[Broker]
<1> DEFINE ch == channels[v.channel]
<1>1. v.channel \in ChannelID /\ v.amount \in Nat /\ v.condition \in Preds \union {NoCondition}
  BY DEF PaymentVoucher
<1>2. ch \in PaymentChannel
  BY <1>1, OpenChannel
<1>3. CacheCondition(ch, v.condition, params) \in Condition \union {NoCondition}
  BY <1>1, <1>2 DEF CacheCondition, PaymentChannel, Condition
<1>4. /\ v.amount - ch.amountRedeemed \in Nat
      /\ ch.amount - v.amount \in Nat
      /\ v.amount - ch.amountRedeemed <= balance[Broker]
  BY <1>1, <1>2 DEF ValidUpdate, PaymentChannel, CanTransfer
<1>5. UpdatedChannel(ch, v, params) \in PaymentChannel
  BY ZenonT(60), <1>1, <1>2, <1>3 DEF UpdatedChannel, PaymentChannel
<1>6. /\ UpdatedChannel(ch, v, params).amountRedeemed = v.amount
      /\ UpdatedChannel(ch, v, params).amount = ch.amount
      /\ UpdatedChannel(ch, v, params).eol = ch.eol
      /\ UpdatedChannel(ch, v, params).agreedEol = ch.agreedEol
  BY <1>2 DEF UpdatedChannel, PaymentChannel
<1>7. QED
  BY <1>1, <1>2, <1>4, <1>5, <1>6

\* Moving an affordable amount from one entry to another keeps a function of
\* natural numbers one.
LEMMA MoveType ==
    ASSUME NEW S, NEW f \in [S -> Nat], NEW a \in S, NEW b \in S, NEW x \in Nat, x <= f[a]
    PROVE  [f EXCEPT ![a] = @ - x, ![b] = @ + x] \in [S -> Nat]
<1>1. f[a] \in Nat /\ f[a] - x \in Nat
  OBVIOUS
<1>2. PICK g \in [S -> Nat] : g = [f EXCEPT ![a] = @ - x]
  BY ZenonT(60), <1>1
<1>3. g[b] \in Nat /\ g[b] + x \in Nat
  BY <1>2
<1>4. [g EXCEPT ![b] = @ + x] \in [S -> Nat]
  BY <1>3
<1>5. QED
  BY <1>2, <1>4

\* A transfer the sender can afford keeps every balance a natural number.
LEMMA TransferType ==
    ASSUME TypeOK, NEW from \in Accounts \union {Broker}, NEW to \in Accounts \union {Broker},
           NEW value \in Nat, CanTransfer(from, value)
    PROVE  Transfer(from, to, value) \in [Accounts \union {Broker} -> Nat]
BY ZenonT(60), MoveType DEF TypeOK, Transfer, CanTransfer

\* What the invariant says of an open channel c with contents ch, in numbers.
Facts(c, ch) ==
    /\ ch.amount \in Nat /\ ch.amountRedeemed \in Nat
    /\ ch.eol \in Int /\ ch.agreedEol \in Int /\ ch.eol <= ch.agreedEol
    /\ promised[c] \in Int /\ firstCancel[c] \in Int
    /\ epoch \in Int /\ firstCancel[c] <= epoch
    /\ paid[c] = ch.amountRedeemed /\ paid[c] <= ch.amount
    /\ refunded[c] = 0 /\ deposited[c] = ch.amount
    /\ ~(c[2] >= nonce[c[1]])

\* The invariant gives those facts of every open channel.
LEMMA OpenFacts ==
    ASSUME TypeOK, NEW c \in ChannelID, ChannelInv(c), Open(c)
    PROVE  Facts(c, channels[c])
<1>1. channels[c] \in PaymentChannel
  BY OpenChannel
<1>2. /\ channels[c].amount \in Nat /\ channels[c].amountRedeemed \in Nat
      /\ channels[c].eol \in Int /\ channels[c].agreedEol \in Int
  BY <1>1 DEF PaymentChannel, Epochs
<1>3. promised[c] \in Int /\ firstCancel[c] \in Int /\ epoch \in Int
  BY DEF TypeOK, Epochs, NeverCancelled
<1>4. /\ paid[c] = channels[c].amountRedeemed /\ paid[c] <= channels[c].amount
      /\ refunded[c] = 0 /\ deposited[c] = channels[c].amount
  BY DEF ChannelInv, Conserved
<1>5. channels[c].eol <= channels[c].agreedEol /\ firstCancel[c] <= epoch
  BY DEF ChannelInv
<1>6. ~(c[2] >= nonce[c[1]])
  BY DEF ChannelInv, Unused, Open
<1>7. QED
  BY <1>2, <1>3, <1>4, <1>5, <1>6 DEF Facts

\* A step that leaves a channel alone keeps what is known of it: time only
\* passes, vouchers are only added and ids are only handed out.
LEMMA Frame ==
    ASSUME TypeOK, TypeOK', NEW c \in ChannelID, ChannelInv(c),
           epoch <= epoch', signed \subseteq signed', nonce[c[1]] <= nonce'[c[1]],
           channels'[c] = channels[c], deposited'[c] = deposited[c],
           paid'[c] = paid[c], refunded'[c] = refunded[c],
           promised'[c] = promised[c], firstCancel'[c] = firstCancel[c]
    PROVE  ChannelInv(c)'
<1>1. c[1] \in Payers /\ c[2] \in Int
  BY DEF ChannelID
<1>2. nonce[c[1]] \in Int /\ nonce'[c[1]] \in Int /\ epoch \in Int /\ epoch' \in Int
      /\ firstCancel[c] \in Int
  BY <1>1, BrokerAssumption DEF TypeOK, Epochs, NeverCancelled
<1>3. (c[2] >= nonce[c[1]] => Unused(c))'
  BY <1>1, <1>2 DEF ChannelInv, Unused, NeverCancelled
<1>4. (firstCancel[c] <= epoch)'
  BY <1>2 DEF ChannelInv
<1>5. (Open(c) => channels[c].eol <= channels[c].agreedEol)' /\ Conserved(c)'
  BY DEF ChannelInv, Conserved, Open
<1>6. OneVoucher(c)'
  BY DEF ChannelInv, OneVoucher
<1>7. HasNotice(c)'
  BY DEF ChannelInv, HasNotice, Open, NeverCancelled
<1>8. QED
  BY <1>3, <1>4, <1>5, <1>6, <1>7 DEF ChannelInv

\* Opening a channel: its id is fresh, so nothing was ever paid under it.
LEMMA CreateChannelIInv ==
    ASSUME IInv, NEW p \in Payers, NEW target \in Targets,
           NEW value \in 0..InitialBalance, NEW eol \in Epochs,
           CreateChannel(p, target, value, eol)
    PROVE  IInv'
<1> DEFINE new == [target |-> target, amount |-> value, amountRedeemed |-> 0,
              agreedEol |-> eol, eol |-> eol, redeemed |-> FALSE,
              condition |-> NoCondition]
<1>1. TypeOK /\ value \in Nat /\ nonce[p] \in Nat /\ p \in Accounts
  BY BrokerAssumption DEF IInv, TypeOK, Accounts
<1>2. PICK c \in ChannelID : c = <<p, nonce[p]>> /\ c[1] = p /\ c[2] = nonce[p]
  BY <1>1, BrokerAssumption DEF CreateChannel, ChannelID
<1>3. new \in PaymentChannel /\ new # NoChannel
  <2>1. new \in PaymentChannel
    BY <1>1 DEF PaymentChannel
  <2>2. QED
    BY ZenonT(60), <2>1, SentinelAssumption
<1>4. TypeOK'
  <2>1. balance' \in [Accounts \union {Broker} -> Nat]
    BY ZenonT(60), <1>1, TransferType DEF CreateChannel
  <2>2. channels' \in [ChannelID -> PaymentChannel \union {NoChannel}]
    BY <1>1, <1>2, <1>3 DEF CreateChannel, TypeOK
  <2>3. nonce' \in [Payers -> 0..MaxChannels]
    BY <1>1, BrokerAssumption DEF CreateChannel, TypeOK
  <2>4. deposited' \in [ChannelID -> Nat] /\ promised' \in [ChannelID -> Epochs]
    BY <1>1, <1>2 DEF CreateChannel, TypeOK
  <2>5. QED
    BY <1>1, <2>1, <2>2, <2>3, <2>4 DEF CreateChannel, TypeOK
<1>5. Unused(c)
  BY <1>1, <1>2 DEF IInv, ChannelInv
<1>6. /\ channels'[c] = new /\ deposited'[c] = value /\ promised'[c] = eol
      /\ nonce'[p] = nonce[p] + 1 /\ UNCHANGED <<epoch, signed, paid, refunded, firstCancel>>
  BY <1>1, <1>2, <1>5 DEF CreateChannel, TypeOK, Unused
<1>7. ChannelInv(c)'
  BY <1>1, <1>2, <1>3, <1>5, <1>6
     DEF IInv, ChannelInv, Conserved, OneVoucher, HasNotice, Unused, Open, Epochs
<1>8. ASSUME NEW d \in ChannelID, d # c
      PROVE  ChannelInv(d)'
  <2>1. ChannelInv(d) /\ d[1] \in Payers
    BY DEF IInv, ChannelID
  <2>2. nonce[d[1]] <= nonce'[d[1]]
    BY <1>1, <2>1 DEF CreateChannel, TypeOK
  <2>3. channels'[d] = channels[d] /\ deposited'[d] = deposited[d] /\ promised'[d] = promised[d]
    BY <1>1, <1>2, <1>8 DEF CreateChannel, TypeOK
  <2>4. QED
    BY <1>1, <1>4, <1>6, <2>1, <2>2, <2>3, Frame DEF TypeOK, Epochs
<1>9. QED
  BY <1>4, <1>7, <1>8 DEF IInv

\* Time passing, conditions changing and vouchers being signed touch no channel.
LEMMA OffChainIInv ==
    ASSUME IInv,
           \/ Tick
           \/ ConditionsChange
           \/ \E c \in ChannelID, amount \in 0..InitialBalance, validAt \in Epochs,
                 pred \in Preds \union {NoCondition} :
                 Voucher(c, amount, validAt, pred)
    PROVE  IInv'
<1>1. TypeOK
  BY DEF IInv
<1>2. UNCHANGED <<balance, nonce, channels, deposited, paid, refunded, promised, firstCancel>>
  BY DEF Tick, ConditionsChange, Voucher, ledger
<1>3. epoch' \in Epochs /\ epoch <= epoch'
  BY <1>1, BrokerAssumption DEF TypeOK, Epochs, Tick, ConditionsChange, Voucher
<1>4. signed' \in SUBSET PaymentVoucher /\ signed \subseteq signed'
  <2>1. CASE Tick \/ ConditionsChange
    BY <1>1, <2>1 DEF TypeOK, Tick, ConditionsChange
  <2>2. ASSUME NEW c \in ChannelID, NEW amount \in 0..InitialBalance, NEW validAt \in Epochs,
               NEW pred \in Preds \union {NoCondition},
               Voucher(c, amount, validAt, pred)
        PROVE  signed' \in SUBSET PaymentVoucher /\ signed \subseteq signed'
    <3>1. [channel |-> c, amount |-> amount, validAt |-> validAt, condition |-> pred]
              \in PaymentVoucher
      BY BrokerAssumption DEF PaymentVoucher
    <3>2. QED
      BY <1>1, <2>2, <3>1 DEF TypeOK, Voucher
  <2>3. QED
    BY ZenonT(60), <2>1, <2>2
<1>5. holding' \in SUBSET Condition
  BY <1>1 DEF TypeOK, Tick, ConditionsChange, Voucher
<1>6. TypeOK'
  BY <1>1, <1>2, <1>3, <1>4, <1>5 DEF TypeOK
<1>7. ASSUME NEW c \in ChannelID
      PROVE  ChannelInv(c)'
  <2>1. nonce[c[1]] <= nonce'[c[1]]
    BY <1>1, <1>2 DEF TypeOK, ChannelID
  <2>2. QED
    BY <1>1, <1>2, <1>3, <1>4, <1>6, <2>1, Frame DEF IInv
<1>8. QED
  BY <1>6, <1>7 DEF IInv

\* Redeeming: the target has now received exactly this voucher's amount.
LEMMA RedeemIInv ==
    ASSUME IInv, NEW caller \in Targets, NEW v \in signed,
           NEW params \in Params \union {NoParams}, Redeem(caller, v, params)
    PROVE  IInv'
<1>1. TypeOK /\ v \in PaymentVoucher /\ caller \in Accounts
  BY DEF IInv, TypeOK, Accounts
<1>2. PICK c \in ChannelID : c = v.channel
  BY <1>1 DEF PaymentVoucher
<1>3. PICK ch \in PaymentChannel : ch = channels[c]
  BY <1>1, <1>2, OpenChannel DEF Redeem
<1>4. PICK diff \in Nat : diff = v.amount - ch.amountRedeemed
  BY <1>1, <1>2, <1>3, UpdateFacts DEF Redeem
<1>5. PICK up \in PaymentChannel : up = UpdatedChannel(ch, v, params)
  BY <1>1, <1>2, <1>3, UpdateFacts DEF Redeem
<1>6. /\ up.amountRedeemed = v.amount /\ up.amount = ch.amount /\ up.agreedEol = ch.agreedEol
      /\ ch.amount - v.amount \in Nat /\ v.amount \in Nat /\ diff <= balance[Broker]
  BY <1>1, <1>2, <1>3, <1>4, <1>5, UpdateFacts DEF Redeem, PaymentVoucher
<1>7. PICK new \in PaymentChannel : new = [up EXCEPT !.eol = ch.agreedEol, !.redeemed = TRUE]
  BY ZenonT(60), <1>3, <1>5 DEF PaymentChannel
<1>8. /\ new.amountRedeemed = v.amount /\ new.amount = ch.amount
      /\ new.eol = ch.agreedEol /\ new.agreedEol = ch.agreedEol /\ new # NoChannel
  BY ZenonT(60), <1>5, <1>6, <1>7, SentinelAssumption DEF PaymentChannel
<1>9. /\ channels' = [channels EXCEPT ![c] = new]
      /\ paid' = [paid EXCEPT ![c] = @ + diff]
      /\ balance' = Transfer(Broker, caller, diff)
      /\ UNCHANGED <<epoch, nonce, signed, holding, deposited, refunded, promised, firstCancel>>
  BY <1>2, <1>3, <1>4, <1>5, <1>7 DEF Redeem
<1>10. TypeOK'
  <2>1. balance' \in [Accounts \union {Broker} -> Nat]
    BY ZenonT(60), <1>1, <1>6, <1>9, TransferType DEF CanTransfer
  <2>2. channels' \in [ChannelID -> PaymentChannel \union {NoChannel}]
        /\ paid' \in [ChannelID -> Nat]
    BY <1>1, <1>9 DEF TypeOK
  <2>3. QED
    BY <1>1, <1>9, <2>1, <2>2 DEF TypeOK
<1>11. ChannelInv(c) /\ Open(c) /\ channels'[c] = new /\ paid'[c] = paid[c] + diff
  BY ZenonT(60), <1>1, <1>2, <1>9 DEF IInv, TypeOK, Redeem
<1>12. ChannelInv(c)'
  <2>1. Facts(c, ch)
    BY <1>1, <1>3, <1>11, OpenFacts
  <2>2. paid'[c] = v.amount /\ v.amount <= ch.amount
    BY <1>4, <1>6, <1>11, <2>1 DEF Facts
  <2>3. Conserved(c)'
    BY <1>8, <1>9, <1>11, <2>1, <2>2 DEF Conserved, Open, Facts
  <2>4. OneVoucher(c)'
    BY <1>2, <1>9, <2>2 DEF OneVoucher
  <2>5. HasNotice(c) => HasNotice(c)'
    BY <1>3, <1>8, <1>9, <1>11, <2>1, BrokerAssumption DEF HasNotice, NeverCancelled, Facts
  <2>6. (Open(c) => channels[c].eol <= channels[c].agreedEol)'
    BY SMTT(60), <1>8, <1>11, <2>1 DEF Facts
  <2>7. QED
    BY <1>9, <1>11, <2>1, <2>3, <2>4, <2>5, <2>6 DEF ChannelInv, Facts
<1>13. ASSUME NEW d \in ChannelID, d # c
       PROVE  ChannelInv(d)'
  <2>1. nonce[d[1]] <= nonce'[d[1]] /\ epoch <= epoch'
    BY <1>1, <1>9 DEF TypeOK, ChannelID, Epochs
  <2>2. channels'[d] = channels[d] /\ paid'[d] = paid[d]
    BY <1>1, <1>9, <1>13 DEF TypeOK
  <2>3. QED
    BY <1>1, <1>9, <1>10, <2>1, <2>2, Frame DEF IInv
<1>14. QED
  BY <1>10, <1>12, <1>13 DEF IInv

\* Closing: the rest goes back to the payer; with no rest the channel stays.
LEMMA CloseIInv ==
    ASSUME IInv, NEW caller \in Targets, NEW v \in signed,
           NEW params \in Params \union {NoParams}, Close(caller, v, params)
    PROVE  IInv'
<1>1. TypeOK /\ v \in PaymentVoucher /\ caller \in Accounts
  BY DEF IInv, TypeOK, Accounts
<1>2. PICK c \in ChannelID : c = v.channel
  BY <1>1 DEF PaymentVoucher
<1>3. PICK ch \in PaymentChannel : ch = channels[c]
  BY <1>1, <1>2, OpenChannel DEF Close
<1>4. PICK diff \in Nat : diff = v.amount - ch.amountRedeemed
  BY <1>1, <1>2, <1>3, UpdateFacts, ZenonT(60) DEF Close
<1>5. PICK rest \in Nat : rest = ch.amount - v.amount
  BY <1>1, <1>2, <1>3, UpdateFacts, ZenonT(60) DEF Close
<1>6. PICK up \in PaymentChannel : up = UpdatedChannel(ch, v, params)
  BY <1>1, <1>2, <1>3, UpdateFacts DEF Close
<1>7. /\ up.amountRedeemed = v.amount /\ up.amount = ch.amount /\ up.eol = ch.eol
      /\ up.agreedEol = ch.agreedEol /\ v.amount \in Nat /\ diff <= balance[Broker]
      /\ up # NoChannel
  BY <1>1, <1>2, <1>3, <1>4, <1>6, UpdateFacts, SentinelAssumption DEF Close, PaymentVoucher
<1>8. PICK afterPay \in [Accounts \union {Broker} -> Nat] :
         /\ afterPay = Transfer(Broker, caller, diff)
         /\ rest <= afterPay[Broker]
  BY ZenonT(60), <1>1, <1>2, <1>3, <1>4, <1>5, <1>7, TransferType DEF Close, CanTransfer
<1>9. /\ channels' = [channels EXCEPT ![c] = IF rest <= 0 THEN up ELSE NoChannel]
      /\ paid' = [paid EXCEPT ![c] = @ + diff]
      /\ refunded' = [refunded EXCEPT ![c] = @ + rest]
      /\ balance' = [afterPay EXCEPT ![Broker] = @ - rest, ![c[1]] = @ + rest]
      /\ UNCHANGED <<epoch, nonce, signed, holding, deposited, promised, firstCancel>>
  BY <1>2, <1>3, <1>4, <1>5, <1>6, <1>8 DEF Close
<1>10. TypeOK'
  <2>1. c[1] \in Accounts
    BY DEF ChannelID, Accounts
  <2>2. balance' \in [Accounts \union {Broker} -> Nat]
    BY ZenonT(60), <1>8, <1>9, <2>1, MoveType
  <2>3. channels' \in [ChannelID -> PaymentChannel \union {NoChannel}]
    BY <1>1, <1>9 DEF TypeOK
  <2>4. paid' \in [ChannelID -> Nat] /\ refunded' \in [ChannelID -> Nat]
    BY <1>1, <1>9 DEF TypeOK
  <2>5. QED
    BY <1>1, <1>9, <2>2, <2>3, <2>4 DEF TypeOK
<1>11. /\ ChannelInv(c) /\ Open(c) /\ channels'[c] = (IF rest <= 0 THEN up ELSE NoChannel)
       /\ paid'[c] = paid[c] + diff /\ refunded'[c] = refunded[c] + rest
  BY ZenonT(60), <1>1, <1>2, <1>9 DEF IInv, TypeOK, Close
<1>12. ChannelInv(c)'
  <2>1. Facts(c, ch)
    BY <1>1, <1>3, <1>11, OpenFacts
  <2>2. paid'[c] = v.amount /\ refunded'[c] = rest /\ v.amount + rest = ch.amount
    BY <1>4, <1>5, <1>7, <1>11, <2>1 DEF Facts
  <2>3. Conserved(c)'
    BY <1>7, <1>9, <1>11, <2>1, <2>2 DEF Conserved, Open, Facts
  <2>4. OneVoucher(c)'
    BY <1>2, <1>9, <2>2 DEF OneVoucher
  <2>5. HasNotice(c) => HasNotice(c)'
    BY <1>3, <1>7, <1>9, <1>11 DEF HasNotice, Open, NeverCancelled
  <2>6. (Open(c) => channels[c].eol <= channels[c].agreedEol)'
    BY <1>7, <1>11, <2>1 DEF Open, Facts
  <2>7. QED
    BY ZenonT(60), <1>9, <1>11, <2>1, <2>3, <2>4, <2>5, <2>6 DEF ChannelInv, Facts
<1>13. ASSUME NEW d \in ChannelID, d # c
      PROVE  ChannelInv(d)'
  <2>1. nonce[d[1]] <= nonce'[d[1]] /\ epoch <= epoch'
    BY <1>1, <1>9 DEF TypeOK, ChannelID, Epochs
  <2>2. channels'[d] = channels[d] /\ paid'[d] = paid[d] /\ refunded'[d] = refunded[d]
    BY <1>1, <1>9, <1>13 DEF TypeOK
  <2>3. QED
    BY <1>1, <1>9, <1>10, <2>1, <2>2, Frame DEF IInv
<1>14. QED
  BY <1>10, <1>12, <1>13 DEF IInv

\* Extending: a lower agreed end of life is still the one in force or later.
LEMMA ExtendIInv ==
    ASSUME IInv, NEW c \in ChannelID, NEW value \in 0..InitialBalance, NEW eol \in Epochs,
           Extend(c, value, eol)
    PROVE  IInv'
<1>1. TypeOK /\ value \in Nat /\ c[1] \in Accounts
  BY BrokerAssumption DEF IInv, ChannelID, Accounts
<1>2. PICK ch \in PaymentChannel : ch = channels[c]
  BY <1>1, OpenChannel DEF Extend
<1>3. PICK new \in PaymentChannel :
         new = [ch EXCEPT !.agreedEol = eol, !.eol = eol, !.amount = @ + value]
  <2>1. ch.amount + value \in Nat
    BY <1>1, <1>2 DEF PaymentChannel
  <2>2. QED
    BY ZenonT(60), <2>1 DEF PaymentChannel
<1>4. /\ new.amount = ch.amount + value /\ new.amountRedeemed = ch.amountRedeemed
      /\ new.eol = eol /\ new.agreedEol = eol /\ new # NoChannel
  BY ZenonT(60), <1>2, <1>3, SentinelAssumption DEF PaymentChannel
<1>5. /\ channels' = [channels EXCEPT ![c] = new]
      /\ deposited' = [deposited EXCEPT ![c] = @ + value]
      /\ promised' = [promised EXCEPT ![c] = IF eol > @ THEN eol ELSE @]
      /\ balance' = Transfer(c[1], Broker, value) /\ CanTransfer(c[1], value)
      /\ ch.eol <= eol
      /\ UNCHANGED <<epoch, nonce, signed, holding, paid, refunded, firstCancel>>
  BY ZenonT(60), <1>1, <1>2, <1>3 DEF Extend, TypeOK
<1>6. TypeOK'
  <2>1. balance' \in [Accounts \union {Broker} -> Nat]
    BY ZenonT(60), <1>1, <1>5, TransferType
  <2>2. channels' \in [ChannelID -> PaymentChannel \union {NoChannel}]
    BY <1>1, <1>5 DEF TypeOK
  <2>3. deposited' \in [ChannelID -> Nat] /\ promised' \in [ChannelID -> Epochs]
    BY <1>1, <1>5 DEF TypeOK
  <2>4. QED
    BY <1>1, <1>5, <2>1, <2>2, <2>3 DEF TypeOK
<1>7. /\ ChannelInv(c) /\ Open(c) /\ channels'[c] = new /\ deposited'[c] = deposited[c] + value
      /\ promised'[c] = (IF eol > promised[c] THEN eol ELSE promised[c])
  BY ZenonT(60), <1>1, <1>5 DEF IInv, TypeOK, Extend
<1>8. ChannelInv(c)'
  <2>1. Facts(c, ch)
    BY <1>1, <1>2, <1>7, OpenFacts
  <2>2. Conserved(c)'
    <3>1. /\ paid[c] = ch.amountRedeemed /\ paid[c] <= ch.amount + value
          /\ refunded[c] = 0 /\ deposited[c] = ch.amount
      BY <1>1, <2>1 DEF Facts
    <3>2. QED
      BY <1>4, <1>5, <1>7, <3>1, ZenonT(60) DEF Conserved, Open
  <2>3. OneVoucher(c)'
    BY <1>5, <1>7, ZenonT(60) DEF ChannelInv, OneVoucher
  <2>4. HasNotice(c) => HasNotice(c)'
    BY <1>2, <1>4, <1>5, <1>7, <2>1, BrokerAssumption DEF HasNotice, NeverCancelled, Facts, Epochs
  <2>5. (Open(c) => channels[c].eol <= channels[c].agreedEol)'
    <3>1. eol <= eol
      BY DEF Epochs
    <3>2. QED
      BY <1>4, <1>7, <3>1
  <2>6. QED
    BY <1>5, <1>7, <2>1, <2>2, <2>3, <2>4, <2>5, ZenonT(60) DEF ChannelInv, Facts
<1>9. ASSUME NEW d \in ChannelID, d # c
      PROVE  ChannelInv(d)'
  <2>1. nonce[d[1]] <= nonce'[d[1]] /\ epoch <= epoch'
    BY <1>1, <1>5 DEF TypeOK, ChannelID, Epochs
  <2>2. channels'[d] = channels[d] /\ deposited'[d] = deposited[d] /\ promised'[d] = promised[d]
    BY <1>1, <1>5, <1>9 DEF TypeOK
  <2>3. QED
    BY <1>1, <1>5, <1>6, <2>1, <2>2, Frame, ZenonT(60) DEF IInv
<1>10. QED
  BY <1>6, <1>8, <1>9 DEF IInv

\* Cancelling: a lowered end of life is a full delay after this cancel, and so
\* after the first one.
LEMMA CancelIInv ==
    ASSUME IInv, NEW c \in ChannelID, Cancel(c)
    PROVE  IInv'
<1>1. TypeOK /\ epoch \in Nat /\ CancelDelay \in Nat /\ epoch \in Epochs
  BY BrokerAssumption DEF IInv, TypeOK, Epochs
<1>2. PICK ch \in PaymentChannel : ch = channels[c]
  BY <1>1, OpenChannel DEF Cancel
<1>3. PICK eol \in Epochs : eol = IF ch.eol > epoch + CancelDelay THEN epoch + CancelDelay ELSE ch.eol
  BY <1>1, BrokerAssumption DEF PaymentChannel, Epochs
<1>4. PICK new \in PaymentChannel : new = [ch EXCEPT !.eol = eol]
  BY ZenonT(60) DEF PaymentChannel
<1>5. /\ new.amount = ch.amount /\ new.amountRedeemed = ch.amountRedeemed
      /\ new.eol = eol /\ new.agreedEol = ch.agreedEol /\ new # NoChannel
  BY <1>2, <1>4, SentinelAssumption DEF PaymentChannel
<1>6. /\ channels' = [channels EXCEPT ![c] = new]
      /\ firstCancel' = [firstCancel EXCEPT ![c] = IF @ = NeverCancelled THEN epoch ELSE @]
      /\ UNCHANGED <<epoch, balance, nonce, signed, holding, deposited, paid, refunded, promised>>
  BY <1>1, <1>2, <1>3, <1>4 DEF Cancel, TypeOK
<1>7. TypeOK'
  <2>1. channels' \in [ChannelID -> PaymentChannel \union {NoChannel}]
    BY <1>1, <1>6 DEF TypeOK
  <2>2. firstCancel' \in [ChannelID -> Epochs \union {NeverCancelled}]
    BY <1>1, <1>6 DEF TypeOK
  <2>3. QED
    BY <1>1, <1>6, <2>1, <2>2 DEF TypeOK
<1>8. /\ ChannelInv(c) /\ Open(c) /\ channels'[c] = new
      /\ firstCancel'[c] = (IF firstCancel[c] = NeverCancelled THEN epoch ELSE firstCancel[c])
  BY <1>1, <1>6 DEF IInv, TypeOK, Cancel
<1>9. ChannelInv(c)'
  <2>1. Facts(c, ch)
    BY <1>1, <1>2, <1>8, OpenFacts
  <2>2. Conserved(c)' /\ OneVoucher(c)'
    BY <1>2, <1>5, <1>6, <1>8 DEF ChannelInv, Conserved, OneVoucher, Open
  <2>3. HasNotice(c) => HasNotice(c)'
    BY <1>1, <1>2, <1>3, <1>5, <1>6, <1>8, <2>1 DEF HasNotice, NeverCancelled, Facts, Epochs
  <2>4. (firstCancel[c] <= epoch)' /\ (Open(c) => channels[c].eol <= channels[c].agreedEol)'
    <3>1. epoch \in Int /\ ch.eol \in Int /\ eol <= ch.agreedEol
      BY <1>1, <1>3, <2>1 DEF Facts
    <3>2. firstCancel'[c] <= epoch
      BY <1>8, <2>1, <3>1 DEF Facts
    <3>3. QED
      BY <1>5, <1>6, <1>8, <3>1, <3>2
  <2>5. QED
    BY <1>6, <1>8, <2>1, <2>2, <2>3, <2>4, ZenonT(60) DEF ChannelInv, Facts
<1>10. ASSUME NEW d \in ChannelID, d # c
      PROVE  ChannelInv(d)'
  <2>1. nonce[d[1]] <= nonce'[d[1]] /\ epoch <= epoch'
    BY <1>1, <1>6 DEF TypeOK, ChannelID, Epochs
  <2>2. channels'[d] = channels[d] /\ firstCancel'[d] = firstCancel[d]
    BY <1>1, <1>6, <1>10 DEF TypeOK
  <2>3. QED
    BY <1>1, <1>6, <1>7, <2>1, <2>2, Frame, ZenonT(60) DEF IInv
<1>11. QED
  BY <1>7, <1>9, <1>10 DEF IInv

\* Reclaiming: what was not redeemed goes back to the payer.
LEMMA ReclaimIInv ==
    ASSUME IInv, NEW c \in ChannelID, Reclaim(c)
    PROVE  IInv'
<1>1. TypeOK /\ c[1] \in Accounts
  BY DEF IInv, ChannelID, Accounts
<1>2. PICK ch \in PaymentChannel : ch = channels[c]
  BY <1>1, OpenChannel DEF Reclaim
<1>3. PICK rest \in Nat : rest = ch.amount - ch.amountRedeemed /\ rest = Remaining(c)
  BY <1>2 DEF Reclaim, Remaining, PaymentChannel
<1>4. /\ channels' = [channels EXCEPT ![c] = NoChannel]
      /\ balance' = Transfer(Broker, c[1], rest) /\ CanTransfer(Broker, rest)
      /\ refunded' = [refunded EXCEPT ![c] = @ + rest]
      /\ UNCHANGED <<epoch, nonce, signed, holding, deposited, paid, promised, firstCancel>>
  BY ZenonT(60), <1>3 DEF Reclaim
<1>5. TypeOK'
  <2>1. balance' \in [Accounts \union {Broker} -> Nat]
    BY ZenonT(60), <1>1, <1>4, TransferType
  <2>2. channels' \in [ChannelID -> PaymentChannel \union {NoChannel}]
    BY <1>1, <1>4 DEF TypeOK
  <2>3. refunded' \in [ChannelID -> Nat]
    BY <1>1, <1>4 DEF TypeOK
  <2>4. QED
    BY <1>1, <1>4, <2>1, <2>2, <2>3 DEF TypeOK
<1>6. ChannelInv(c) /\ Open(c) /\ channels'[c] = NoChannel /\ refunded'[c] = refunded[c] + rest
  BY <1>1, <1>4 DEF IInv, TypeOK, Reclaim
<1>7. ChannelInv(c)'
  <2>1. Facts(c, ch)
    BY <1>1, <1>2, <1>6, OpenFacts
  <2>2. Conserved(c)'
    <3>1. deposited[c] = paid[c] + (refunded[c] + rest)
      BY <1>3, <2>1 DEF Facts
    <3>2. QED
      BY <1>4, <1>6, <3>1, ZenonT(60) DEF Conserved, Open
  <2>3. QED
    BY <1>4, <1>6, <2>1, <2>2, ZenonT(60) DEF ChannelInv, OneVoucher, HasNotice, Open, Facts
<1>8. ASSUME NEW d \in ChannelID, d # c
      PROVE  ChannelInv(d)'
  <2>1. nonce[d[1]] <= nonce'[d[1]] /\ epoch <= epoch'
    BY <1>1, <1>4 DEF TypeOK, ChannelID, Epochs
  <2>2. channels'[d] = channels[d] /\ refunded'[d] = refunded[d]
    BY <1>1, <1>4, <1>8 DEF TypeOK
  <2>3. QED
    BY <1>1, <1>4, <1>5, <2>1, <2>2, Frame, ZenonT(60) DEF IInv
<1>9. QED
  BY <1>5, <1>7, <1>8 DEF IInv

\* Every step of the payment broker preserves the invariant.
LEMMA NextIInv == IInv /\ [Next]_vars => IInv'
<1> SUFFICES ASSUME IInv, [Next]_vars
             PROVE  IInv'
  OBVIOUS
<1>1. CASE UNCHANGED vars
  BY <1>1, ZenonT(60) DEF vars, ledger, IInv, TypeOK, ChannelInv, Unused, Conserved, OneVoucher,
              HasNotice, Open
<1>2. CASE Next
  BY ZenonT(60), <1>2, OffChainIInv, CreateChannelIInv, RedeemIInv, CloseIInv, ExtendIInv,
     CancelIInv, ReclaimIInv DEF Next
<1>3. QED
  BY <1>1, <1>2

\* The invariant holds in every reachable state.
THEOREM Invariance == Spec => []IInv
BY InitIInv, NextIInv, PTL DEF Spec

\* No balance, deposit or payment of the payment broker ever goes negative, for
\* any number of payers, targets, channels and epochs.
THEOREM TypeCorrect == Spec => []TypeOK
BY Invariance, IInvImplies, PTL

\* Channel by channel, what createChannel and extend put in is what redeem,
\* close and reclaim took out, once, plus what is still in the channel.
THEOREM Conservation == Spec => []ChannelConserved
BY Invariance, IInvImplies, PTL

\* However many vouchers redeem and close accept, and in whatever order, the
\* target has received exactly the amount of one voucher the payer signed.
THEOREM OneVoucherPaid == Spec => []PaidIsOneVoucher
BY Invariance, IInvImplies, PTL

\* No sequence of cancel, extend and redeem brings the end of life before the
\* latest agreed one without CancelDelay epochs of notice.
THEOREM NoticeGiven == Spec => []EndOfLifeHasNotice
BY Invariance, IInvImplies, PTL

\* A channel deleted by close or reclaim never comes back under its id.
THEOREM DeletedForGood == Spec => ClosedForGood
<1>1. ASSUME IInv, [Next]_vars, NEW c \in ChannelID, c[2] < nonce[c[1]], ~Open(c)
      PROVE  channels'[c] = NoChannel
  <2> USE <1>1
  <2>1. CASE UNCHANGED vars
    BY <2>1 DEF vars, Open
  <2>2. ASSUME NEW p \in Payers, NEW t \in Targets, NEW value \in 0..InitialBalance,
               NEW eol \in Epochs, CreateChannel(p, t, value, eol)
        PROVE  channels'[c] = NoChannel
    <3>1. c # <<p, nonce[p]>>
      BY DEF IInv, TypeOK
    <3>2. QED
      BY <2>2, <3>1 DEF CreateChannel, Open, IInv, TypeOK
  <2>3. CASE Tick \/ ConditionsChange
    BY <2>3 DEF Tick, ConditionsChange, Open
  <2>4. ASSUME NEW d, NEW amount, NEW validAt, NEW pred, Voucher(d, amount, validAt, pred)
        PROVE  channels'[c] = NoChannel
    BY <2>4 DEF Voucher, Open
  <2>5. ASSUME NEW t \in Targets, NEW v \in signed, NEW params \in Params \union {NoParams},
               Redeem(t, v, params) \/ Close(t, v, params)
        PROVE  channels'[c] = NoChannel
    <3>1. v.channel # c
      BY <2>5 DEF Redeem, Close
    <3>2. QED
      BY <2>5, <3>1 DEF Redeem, Close, Open, IInv, TypeOK
  <2>6. ASSUME NEW d \in ChannelID, NEW value \in 0..InitialBalance, NEW eol \in Epochs,
               Extend(d, value, eol)
        PROVE  channels'[c] = NoChannel
    <3>1. d # c
      BY <2>6 DEF Extend
    <3>2. QED
      BY <2>6, <3>1 DEF Extend, Open, IInv, TypeOK
  <2>7. ASSUME NEW d \in ChannelID, Cancel(d) \/ Reclaim(d)
        PROVE  channels'[c] = NoChannel
    <3>1. d # c
      BY <2>7 DEF Cancel, Reclaim
    <3>2. QED
      BY <2>7, <3>1 DEF Cancel, Reclaim, Open, IInv, TypeOK
  <2>8. QED
    BY ZenonT(60), <2>1, <2>2, <2>3, <2>4, <2>5, <2>6, <2>7 DEF Next
<1>2. IInv /\ [Next]_vars =>
        [\A c \in ChannelID : c[2] < nonce[c[1]] /\ ~Open(c) => channels'[c] = NoChannel]_vars
  BY <1>1
<1>3. QED
  BY <1>2, Invariance, PTL DEF Spec, ClosedForGood

-----------------------------------------------------------------------------
(* Solvency *)

\* What a channel owes, in number and unit by unit.
Left(c) == IF Open(c) THEN Remaining(c) ELSE 0
Units(c) == {c} \X (1..Left(c))

\* Owed as such is inductive only together with its being finite: there may be
\* infinitely many payers, of which finitely many have a channel.
Solvent == IsFiniteSet(Owed) /\ Cardinality(Owed) = balance[Broker]

\* A channel never owes less than nothing, and has a unit for each it owes.
HasItsUnits(c) == /\ Left(c) \in Nat
                  /\ IsFiniteSet(Units(c)) /\ Cardinality(Units(c)) = Left(c)

\* The conservation of each channel gives that.
LEMMA UnitsCounted == IInv => \A c \in ChannelID : HasItsUnits(c)
<1> SUFFICES ASSUME IInv, NEW c \in ChannelID
             PROVE  HasItsUnits(c)
  OBVIOUS
<1>1. Left(c) \in Nat
  <2>1. CASE Open(c)
    <3>1. Facts(c, channels[c])
      BY <2>1, OpenFacts DEF IInv
    <3>2. QED
      BY <2>1, <3>1 DEF Left, Remaining, Facts
  <2>2. CASE ~Open(c)
    BY <2>2 DEF Left
  <2>3. QED
    BY <2>1, <2>2
<1>2. IsFiniteSet(1..Left(c)) /\ Cardinality(1..Left(c)) = Left(c)
  BY <1>1, FS_Interval
<1>3. IsFiniteSet({c}) /\ Cardinality({c}) = 1
  BY FS_Singleton, ZenonT(60)
<1>4. IsFiniteSet(Units(c)) /\ Cardinality(Units(c)) = 1 * Left(c)
  <2> DEFINE I == 1..Left(c)
  <2>1. IsFiniteSet(I) /\ Cardinality(I) = Left(c) /\ Units(c) = {c} \X I
    BY <1>2 DEF Units
  <2> HIDE DEF I
  <2>2. QED
    BY <1>3, <2>1, FS_Product
<1>5. QED
  BY <1>1, <1>4 DEF HasItsUnits

\* The units owed are those of the channels, closed ones having none.
LEMMA OwedIsUnits == IInv => Owed = UNION {Units(c) : c \in ChannelID}
<1> SUFFICES ASSUME IInv
             PROVE  Owed = UNION {Units(c) : c \in ChannelID}
  OBVIOUS
<1>1. \A c \in ChannelID : Open(c) => Units(c) = {c} \X (1..Remaining(c))
  BY DEF Units, Left
<1>2. \A c \in ChannelID : ~Open(c) => Units(c) = {}
  BY DEF Units, Left
<1>3. ASSUME NEW u
      PROVE  u \in Owed <=> u \in UNION {Units(c) : c \in ChannelID}
  <2>1. u \in Owed <=> \E c \in ChannelID : Open(c) /\ u \in {c} \X (1..Remaining(c))
    BY ZenonT(60) DEF Owed
  <2>2. u \in UNION {Units(c) : c \in ChannelID} <=> \E c \in ChannelID : u \in Units(c)
    BY ZenonT(60)
  <2>3. QED
    BY ZenonT(60), <1>1, <1>2, <2>1, <2>2
<1>4. QED
  BY ZenonT(60), <1>3

\* Both hold after a step as well.
LEMMA UnitsAfter ==
    IInv' => /\ (\A c \in ChannelID : HasItsUnits(c))'
             /\ (Owed = UNION {Units(c) : c \in ChannelID})'
BY UnitsCounted, OwedIsUnits, PTL

\* Units of different channels differ.
LEMMA UnitsApart ==
    ASSUME NEW c \in ChannelID, NEW d \in ChannelID, c # d
    PROVE  Units(c) \cap Units(d) = {}
BY DEF Units

\* A step that changes one channel, and the actor's balance by as much as what
\* that channel owes, leaves the actor solvent.
LEMMA SolventStep ==
    ASSUME IInv, IInv', Solvent, NEW c \in ChannelID,
           \A d \in ChannelID \ {c} : channels'[d] = channels[d],
           balance'[Broker] = balance[Broker] - Left(c) + Left(c)'
    PROVE  Solvent'
<1> DEFINE Rest == UNION {Units(d) : d \in ChannelID \ {c}}
<1>1. Owed = Rest \union Units(c)
  BY ZenonT(60), OwedIsUnits
<1>2. \A d \in ChannelID \ {c} : Units(d)' = Units(d)
  BY DEF Units, Left, Open, Remaining
<1>3. Owed' = Rest \union Units(c)'
  <2>1. (Owed = UNION {Units(d) : d \in ChannelID})'
    BY UnitsAfter
  <2>2. QED
    BY ZenonT(60), <1>2, <2>1
<1>4. Rest \cap Units(c) = {} /\ Rest \cap Units(c)' = {}
  <2>1. \A d \in ChannelID \ {c} : Units(d) \cap Units(c) = {}
    BY UnitsApart
  <2>2. \A d \in ChannelID \ {c} : Units(d) \cap Units(c)' = {}
    BY DEF Units
  <2>3. QED
    BY ZenonT(60), <2>1, <2>2
<1>5. /\ IsFiniteSet(Units(c)) /\ Cardinality(Units(c)) = Left(c) /\ Left(c) \in Nat
      /\ IsFiniteSet(Units(c)') /\ Cardinality(Units(c)') = Left(c)' /\ Left(c)' \in Nat
  <2>1. (\A d \in ChannelID : HasItsUnits(d))'
    BY UnitsAfter
  <2>2. QED
    BY <2>1, UnitsCounted DEF HasItsUnits
<1>6. IsFiniteSet(Rest)
  <2>1. Rest \subseteq Owed
    BY <1>1
  <2>2. QED
    BY <2>1, FS_Subset DEF Solvent
<1>7. PICK n \in Nat : n = Cardinality(Rest)
  BY <1>6, FS_CardinalityType, ZenonT(60)
<1>8. Cardinality(Owed) = n + Left(c) - 0
  <2>1. Cardinality(Rest \cap Units(c)) = 0
    BY <1>4, FS_EmptySet, ZenonT(60)
  <2> HIDE DEF Rest
  <2>2. QED
    BY <1>1, <1>5, <1>6, <1>7, <2>1, FS_Union
<1>9. IsFiniteSet(Owed') /\ Cardinality(Owed') = n + Left(c)' - 0
  <2>1. Cardinality(Rest \cap Units(c)') = 0
    BY <1>4, FS_EmptySet, ZenonT(60)
  <2> HIDE DEF Rest
  <2>2. QED
    BY <1>3, <1>5, <1>6, <1>7, <2>1, FS_Union
<1>10. QED
  BY <1>5, <1>8, <1>9 DEF Solvent

\* A transfer between the actor and an account moves exactly its value.
LEMMA BrokerTransfer ==
    ASSUME TypeOK, NEW a \in Accounts, NEW value \in Nat
    PROVE  /\ Transfer(a, Broker, value)[Broker] = balance[Broker] + value
           /\ Transfer(Broker, a, value)[Broker] = balance[Broker] - value
<1>1. a # Broker /\ balance \in [Accounts \union {Broker} -> Nat]
  BY BrokerAssumption DEF TypeOK
<1>2. QED
  BY <1>1 DEF Transfer

\* Every step moves as much to or from the actor as its channel owes more or
\* less: a voucher's difference, a close's rest, a deposit, a refund.
LEMMA NextSolvent == IInv /\ IInv' /\ Solvent /\ [Next]_vars => Solvent'
<1> SUFFICES ASSUME IInv, IInv', Solvent, [Next]_vars
             PROVE  Solvent'
  OBVIOUS
<1>1. TypeOK /\ balance[Broker] \in Nat /\ balance \in [Accounts \union {Broker} -> Nat]
  BY DEF IInv, TypeOK
<1>2. ASSUME UNCHANGED <<balance, channels>>
      PROVE  Solvent'
  BY <1>2 DEF Solvent, Owed, Open, Remaining
<1>3. CASE Tick \/ ConditionsChange \/ UNCHANGED vars
  BY <1>2, <1>3 DEF Tick, ConditionsChange, vars
<1>4. ASSUME NEW c, NEW amount, NEW validAt, NEW pred, Voucher(c, amount, validAt, pred)
      PROVE  Solvent'
  BY <1>2, <1>4 DEF Voucher
<1>5. ASSUME NEW p \in Payers, NEW t \in Targets, NEW value \in 0..InitialBalance,
             NEW eol \in Epochs, CreateChannel(p, t, value, eol)
      PROVE  Solvent'
  <2>1. PICK c \in ChannelID : c = <<p, nonce[p]>>
    BY <1>1, <1>5, BrokerAssumption DEF CreateChannel, ChannelID, TypeOK
  <2>2. PICK new \in PaymentChannel :
           /\ channels' = [channels EXCEPT ![c] = new]
           /\ new.amount = value /\ new.amountRedeemed = 0
    <3>1. [target |-> t, amount |-> value, amountRedeemed |-> 0, agreedEol |-> eol, eol |-> eol,
           redeemed |-> FALSE, condition |-> NoCondition] \in PaymentChannel
      BY BrokerAssumption DEF PaymentChannel
    <3>2. QED
      BY <1>5, <2>1, <3>1, ZenonT(60) DEF CreateChannel
  <2>3. channels'[c] = new /\ \A d \in ChannelID \ {c} : channels'[d] = channels[d]
    BY <1>1, <2>2 DEF TypeOK
  <2>4. value \in Nat /\ p \in Accounts /\ new # NoChannel
    BY <2>2, BrokerAssumption, SentinelAssumption DEF Accounts
  <2>5. Left(c) = 0
    BY <1>5, <2>1 DEF CreateChannel, Left
  <2>6. Left(c)' = value
    BY <2>2, <2>3, <2>4 DEF Left, Open, Remaining
  <2>7. balance'[Broker] = balance[Broker] + value
    BY <1>1, <1>5, <2>4, BrokerTransfer, ZenonT(60) DEF CreateChannel
  <2>8. balance'[Broker] = balance[Broker] - Left(c) + Left(c)'
    BY <1>1, <2>4, <2>5, <2>6, <2>7
  <2>9. QED
    BY <2>3, <2>8, SolventStep
<1>6. ASSUME NEW t \in Targets, NEW v \in signed, NEW params \in Params \union {NoParams},
             Redeem(t, v, params) \/ Close(t, v, params)
      PROVE  Solvent'
  <2>1. /\ v \in PaymentVoucher /\ t \in Accounts /\ Open(v.channel)
        /\ ValidUpdate(t, channels[v.channel], v, params)
    BY <1>1, <1>6, ZenonT(60) DEF TypeOK, Accounts, Redeem, Close
  <2>2. PICK c \in ChannelID : c = v.channel /\ c[1] \in Accounts
    BY <2>1 DEF PaymentVoucher, ChannelID, Accounts
  <2>3. PICK ch \in PaymentChannel : ch = channels[c]
    BY <1>1, <2>1, <2>2, OpenChannel
  <2>4. PICK diff \in Nat, rest \in Nat : /\ diff = v.amount - ch.amountRedeemed
                                          /\ rest = ch.amount - v.amount
    BY <1>1, <2>1, <2>2, <2>3, UpdateFacts, ZenonT(60)
  <2>5. Left(c) = diff + rest
    <3>1. Left(c) = ch.amount - ch.amountRedeemed
      BY <2>1, <2>2, <2>3, ZenonT(60) DEF Left, Remaining
    <3>2. ch.amount \in Nat /\ ch.amountRedeemed \in Nat /\ v.amount \in Nat
      BY <2>1, <2>3, ZenonT(60) DEF PaymentChannel, PaymentVoucher
    <3>3. QED
      BY <2>4, <3>1, <3>2
  <2>6. PICK up \in PaymentChannel : /\ up = UpdatedChannel(ch, v, params)
                                     /\ up.amountRedeemed = v.amount /\ up.amount = ch.amount
    BY <1>1, <2>1, <2>2, <2>3, UpdateFacts, ZenonT(60)
  <2>7. CASE Redeem(t, v, params)
    <3>1. PICK new \in PaymentChannel : new = [up EXCEPT !.eol = ch.agreedEol, !.redeemed = TRUE]
      BY ZenonT(60), <2>3, <2>6 DEF PaymentChannel
    <3>2. new.amountRedeemed = v.amount /\ new.amount = ch.amount /\ new # NoChannel
      BY ZenonT(60), <2>6, <3>1, SentinelAssumption DEF PaymentChannel
    <3>3. channels' = [channels EXCEPT ![c] = new]
      BY <2>2, <2>3, <2>6, <2>7, <3>1 DEF Redeem
    <3>4. channels'[c] = new /\ \A d \in ChannelID \ {c} : channels'[d] = channels[d]
      BY <1>1, <3>3 DEF TypeOK
    <3>5. Left(c)' = rest
      BY <2>4, <3>2, <3>4 DEF Left, Open, Remaining
    <3>6. balance' = Transfer(Broker, t, diff)
      BY <2>2, <2>3, <2>4, <2>7 DEF Redeem
    <3>7. balance'[Broker] = balance[Broker] - diff
      BY <1>1, <2>1, <3>6, BrokerTransfer, ZenonT(60)
    <3>8. balance'[Broker] = balance[Broker] - Left(c) + Left(c)'
      BY <1>1, <2>5, <3>5, <3>7
    <3>9. QED
      BY <3>4, <3>8, SolventStep, ZenonT(60)
  <2>8. CASE Close(t, v, params)
    <3>1. channels' = [channels EXCEPT ![c] = IF rest <= 0 THEN up ELSE NoChannel]
      BY <2>2, <2>3, <2>4, <2>6, <2>8, ZenonT(60) DEF Close
    <3>2. /\ channels'[c] = (IF rest <= 0 THEN up ELSE NoChannel)
          /\ \A d \in ChannelID \ {c} : channels'[d] = channels[d]
      BY <1>1, <3>1 DEF TypeOK
    <3>3. Left(c)' = 0
      <4>1. CASE rest <= 0
        <5>1. v.amount = ch.amount /\ channels'[c] = up
          <6>1. v.amount \in Nat /\ ch.amount \in Nat
            BY <2>1 DEF PaymentChannel, PaymentVoucher
          <6>2. QED
            BY <2>4, <3>2, <4>1, <6>1
        <5>2. up.amount - up.amountRedeemed = 0
          BY <2>6, <5>1 DEF PaymentChannel
        <5>3. QED
          BY <5>1, <5>2 DEF Left, Remaining
      <4>2. CASE ~(rest <= 0)
        BY <3>2, <4>2 DEF Left, Open
      <4>3. QED
        BY <4>1, <4>2
    <3>4. PICK afterPay \in [Accounts \union {Broker} -> Nat] :
             /\ afterPay = Transfer(Broker, t, diff)
             /\ afterPay[Broker] = balance[Broker] - diff
      <4>1. CanTransfer(Broker, diff)
        BY <2>1, <2>2, <2>3, <2>4, ZenonT(60) DEF ValidUpdate
      <4>2. QED
        BY <1>1, <2>1, <4>1, TransferType, BrokerTransfer, ZenonT(60)
    <3>5. balance' = [afterPay EXCEPT ![Broker] = @ - rest, ![c[1]] = @ + rest]
      BY <2>2, <2>3, <2>4, <2>8, <3>4, ZenonT(60) DEF Close
    <3>6. balance'[Broker] = afterPay[Broker] - rest
      <4>1. c[1] # Broker
        BY <2>2, BrokerAssumption, ZenonT(60)
      <4>2. QED
        BY <3>5, <4>1, ZenonT(60)
    <3>7. balance'[Broker] = balance[Broker] - Left(c) + Left(c)'
      <4>1. afterPay[Broker] \in Int /\ diff \in Int /\ rest \in Int
        BY <2>4, <3>4
      <4>2. QED
        BY <1>1, <2>5, <3>3, <3>4, <3>6, <4>1
    <3>8. QED
      BY <3>2, <3>7, SolventStep, ZenonT(60)
  <2>9. QED
    BY <1>6, <2>7, <2>8
<1>7. ASSUME NEW c \in ChannelID, NEW value \in 0..InitialBalance, NEW eol \in Epochs,
             Extend(c, value, eol)
      PROVE  Solvent'
  <2>1. PICK ch \in PaymentChannel : ch = channels[c]
    BY <1>1, <1>7, OpenChannel DEF Extend
  <2>2. value \in Nat /\ c[1] \in Accounts /\ ch.amount \in Nat /\ ch.amountRedeemed \in Nat
    BY BrokerAssumption DEF ChannelID, Accounts, PaymentChannel
  <2>3. PICK new \in PaymentChannel :
           new = [ch EXCEPT !.agreedEol = eol, !.eol = eol, !.amount = @ + value]
    <3>1. ch.amount + value \in Nat
      BY <2>2
    <3>2. QED
      BY ZenonT(60), <3>1 DEF PaymentChannel
  <2>4. new.amount = ch.amount + value /\ new.amountRedeemed = ch.amountRedeemed /\ new # NoChannel
    BY ZenonT(60), <2>1, <2>3, SentinelAssumption DEF PaymentChannel
  <2>5. channels' = [channels EXCEPT ![c] = new]
    BY ZenonT(60), <1>1, <1>7, <2>1, <2>3 DEF Extend, TypeOK
  <2>6. channels'[c] = new /\ \A d \in ChannelID \ {c} : channels'[d] = channels[d]
    BY <1>1, <2>5 DEF TypeOK
  <2>7. Left(c) = ch.amount - ch.amountRedeemed
    BY <1>7, <2>1 DEF Extend, Left, Remaining
  <2>8. Left(c)' = (ch.amount + value) - ch.amountRedeemed
    BY <2>4, <2>6, ZenonT(60) DEF Left, Open, Remaining
  <2>9. balance'[Broker] = balance[Broker] + value
    BY <1>1, <1>7, <2>2, BrokerTransfer DEF Extend
  <2>10. balance'[Broker] = balance[Broker] - Left(c) + Left(c)'
    BY <1>1, <2>2, <2>7, <2>8, <2>9
  <2>11. QED
    BY <2>6, <2>10, SolventStep
<1>8. ASSUME NEW c \in ChannelID, Cancel(c)
      PROVE  Solvent'
  <2>1. PICK ch \in PaymentChannel : ch = channels[c]
    BY <1>1, <1>8, OpenChannel DEF Cancel
  <2>2. PICK eol \in Epochs : channels' = [channels EXCEPT ![c].eol = eol]
    <3>1. (IF ch.eol > epoch + CancelDelay THEN epoch + CancelDelay ELSE ch.eol) \in Epochs
      BY <1>1, BrokerAssumption DEF PaymentChannel, Epochs, TypeOK
    <3>2. QED
      BY <1>1, <1>8, <2>1, <3>1, ZenonT(60) DEF Cancel, TypeOK
  <2>3. channels'[c] = [ch EXCEPT !.eol = eol]
        /\ \A d \in ChannelID \ {c} : channels'[d] = channels[d]
    BY <1>1, <2>1, <2>2 DEF TypeOK
  <2>4. channels'[c].amount = ch.amount /\ channels'[c].amountRedeemed = ch.amountRedeemed
    BY <2>3 DEF PaymentChannel
  <2>5. channels'[c] # NoChannel
    <3>1. [ch EXCEPT !.eol = eol] \in PaymentChannel
      BY ZenonT(60) DEF PaymentChannel
    <3>2. QED
      BY <2>3, <3>1, SentinelAssumption
  <2>6. Left(c)' = Left(c)
    BY <1>8, <2>1, <2>4, <2>5 DEF Cancel, Left, Open, Remaining
  <2>7. Left(c) \in Nat
    BY UnitsCounted DEF HasItsUnits
  <2>8. balance'[Broker] = balance[Broker] - Left(c) + Left(c)'
    BY <1>1, <1>8, <2>6, <2>7 DEF Cancel
  <2>9. QED
    BY <2>3, <2>8, SolventStep
<1>9. ASSUME NEW c \in ChannelID, Reclaim(c)
      PROVE  Solvent'
  <2>1. channels'[c] = NoChannel /\ \A d \in ChannelID \ {c} : channels'[d] = channels[d]
    BY <1>1, <1>9 DEF Reclaim, TypeOK
  <2>2. Left(c) = Remaining(c) /\ Left(c)' = 0 /\ Left(c) \in Nat
    BY <1>9, <2>1, UnitsCounted, ZenonT(60) DEF Reclaim, Left, Open, HasItsUnits
  <2>3. c[1] \in Accounts
    BY DEF ChannelID, Accounts
  <2>4. balance'[Broker] = balance[Broker] - Remaining(c)
    BY <1>1, <1>9, <2>2, <2>3, BrokerTransfer, ZenonT(60) DEF Reclaim
  <2>5. balance'[Broker] = balance[Broker] - Left(c) + Left(c)'
    BY <1>1, <2>2, <2>4
  <2>6. QED
    BY <2>1, <2>5, SolventStep
<1>10. QED
  BY ZenonT(60), <1>3, <1>4, <1>5, <1>6, <1>7, <1>8, <1>9 DEF Next

\* For any number of payers and channels, and however creates, extends, redeems,
\* closes and reclaims are interleaved, the actor's balance is exactly what its
\* open channels owe.
THEOREM AlwaysSolvent == Spec => []BrokerHoldsWhatItOwes
<1>1. Init => Solvent
  <2> SUFFICES ASSUME Init
               PROVE  Solvent
    OBVIOUS
  <2>1. Owed = {}
    BY DEF Init, Owed, Open
  <2>2. balance[Broker] = 0
    BY DEF Init
  <2>3. QED
    BY <2>1, <2>2, FS_EmptySet DEF Solvent
<1>2. Solvent => BrokerHoldsWhatItOwes
  BY DEF Solvent, BrokerHoldsWhatItOwes
<1>3. QED
  BY <1>1, <1>2, Invariance, NextSolvent, PTL DEF Spec
=============================================================================
