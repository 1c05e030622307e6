---------------------------- MODULE DealPayments ----------------------------
(***************************************************************************)
(* How a client pays for a storage deal and how the miner checks it: the   *)
(* vouchers CreatePayments makes, the miner's validateDealPayment, the     *)
(* conditions on the vouchers, and the voucher a miner redeems.            *)
(***************************************************************************)
EXTENDS Integers, Sequences, FiniteSetsExt

CONSTANTS
    VoucherInterval,        \* rounds between two vouchers
    ChannelExpiryInterval   \* rounds a channel outlives its last voucher

ASSUME IntervalAssumption == VoucherInterval \in Nat \ {0} /\ ChannelExpiryInterval \in Nat

DivCeil(a, b) == a \div b + (IF a % b = 0 THEN 0 ELSE 1)

-----------------------------------------------------------------------------
(* The client's side *)

NoCondition == [to |-> "", commP |-> "", size |-> 0]

\* Every voucher but the last is conditional on the miner still proving the piece.
PieceCondition(config) == [to |-> config.miner, commP |-> config.commP, size |-> config.size]

\* The checks before the channel is created.
PaymentsError(config, height) ==
    IF config.interval < 1 THEN "PaymentInterval"
    ELSE IF config.expiry < height + config.duration THEN "ChannelExpiry"
    ELSE ""

\* The broker refuses a voucher for more than the channel holds.
createPayment(channel, amount, validAt, condition) ==
    [amount |-> amount, validAt |-> validAt, condition |-> condition, channel |-> channel.id,
     err |-> IF amount > channel.amount THEN "InsufficientChannelFunds" ELSE ""]

valuePerPayment(config) == DivCeil(config.value * config.interval, config.duration)

\* Payments after every interval before the end, and the full amount at the end.
\* "height" is the head's when CreatePayments was called, before the wait.
CreateVouchers(config, channel, height) ==
    LET n == (config.duration - 1) \div config.interval
    IN  [i \in 1..(n + 1) |->
            IF i <= n
            THEN createPayment(channel, Min({i * valuePerPayment(config), config.value}),
                               height + i * config.interval, PieceCondition(config))
            ELSE createPayment(channel, config.value, height + config.duration, NoCondition)]

-----------------------------------------------------------------------------
(* The miner's side *)

ValidatePaymentVoucherCondition(c, miner, commP, size) ==
    c = NoCondition \/ (c.to = miner /\ c.commP = commP /\ c.size = size)

VoucherError(p, i, height) ==
    LET v == p.vouchers[i]
        lastValidAt == IF i = 1 THEN height + VoucherInterval ELSE p.vouchers[i - 1].validAt
    IN  IF v.channel # p.channel THEN "invalid signature in voucher"
        ELSE IF v.validAt > lastValidAt + VoucherInterval THEN "interval between vouchers too high"
        ELSE IF v.amount * p.duration < p.total * (v.validAt - height)
             THEN "voucher amount less than expected"
        ELSE ""

\* The channel's record is "channel", NoChannel when the broker lists none.
NoChannel == [id |-> 0, target |-> "", amount |-> 0, eol |-> 0]

validateDealPayment(p, price, channel, height, owner) ==
    LET expected == price * p.duration * p.size
        n == Len(p.vouchers)
        bad == {i \in 1..n : VoucherError(p, i, height) # ""}
    IN  IF p.total < expected THEN "proposed price is less than expected"
        ELSE IF channel = NoChannel THEN "could not find payment channel"
        ELSE IF channel.target # owner THEN "not target of payment channel"
        ELSE IF channel.amount < expected THEN "not enough funds"
        ELSE IF n < 1 THEN "no payment vouchers"
        ELSE IF p.vouchers[1].validAt > height + VoucherInterval
             THEN "payments start after deal start interval"
        ELSE IF bad # {} THEN VoucherError(p, Min(bad), height)
        ELSE IF p.vouchers[n].amount < p.total THEN "last payment does not cover total price"
        ELSE IF channel.eol < p.vouchers[n].validAt + ChannelExpiryInterval
             THEN "payment channel eol less than required"
        ELSE ""

\* The last of the dearest vouchers that are valid at the height.
buildDealRedeemParams(vouchers, height) ==
    LET valid == {i \in DOMAIN vouchers : vouchers[i].validAt <= height}
        dearest == {i \in valid : \A j \in valid : vouchers[j].amount <= vouchers[i].amount}
    IN  IF valid = {} THEN [err |-> "no remaining redeemable vouchers found", amount |-> 0]
        ELSE [err |-> "", amount |-> vouchers[Max(dearest)].amount]
=============================================================================
