---------------------------- MODULE MCProcessor ----------------------------
(* Small genesis states and workloads for model checking Processor. *)
EXTENDS Processor

A == KeyAddress("a")
B == KeyAddress("b")
C == KeyAddress("c")   \* has no account at genesis
Market == ID(MarketID)
MinerA == computeActorAddress(A, 0)

Msg(from, to, off, value, method, rest) ==
    rest @@ [from |-> from, to |-> to, nonce |-> off, value |-> value, price |-> 1, limit |-> 3,
             method |-> method]

Create(from, value) == Msg(from, Market, 0, value, "CreateStorageMiner",
                           [pid |-> "p", sizeSupported |-> TRUE])
Commit(from, to, n) == Msg(from, to, 0, 0, "CommitSector", [sector |-> n, proved |-> TRUE])
PoSt(from, to, value, faults, done) ==
    Msg(from, to, 0, value, "SubmitPoSt", [proved |-> TRUE, faults |-> faults, done |-> done])
Slash(from, to) == [Msg(from, to, 0, 0, "SlashStorageFault", << >>) EXCEPT !.price = 1]

GenesisAccounts == <<[key |-> "a", funds |-> 40], [key |-> "b", funds |-> 40]>>
GenesisOwners == <<"b">>

Transfer1(from, to, off, value) == Msg(from, to, off, value, "Send", << >>)

\* Payments: nonces around the sender's, new accounts, shortages.
Pay == [anyRecipient |-> FALSE, anyHeader |-> FALSE, sent |-> 3, blocks |-> 2, pool |-> 0,
        nulls |-> {0}, until |-> 2, msgs |->
    {Transfer1(A, B, 0, 3), Transfer1(A, B, 1, 2), Transfer1(A, C, 0, 5), Transfer1(A, A, 0, 1),
     Transfer1(A, B, -1, 3), Transfer1(C, A, 0, 1), Transfer1(B, ID(100), 0, 30),
     [Transfer1(B, A, 0, 2) EXCEPT !.limit = 8, !.price = 2],
     Msg(B, Market, 0, 41, "GetTotalStorage", << >>), Msg(B, A, 0, 1, "AddAsk", << >>),
     Msg(B, Market, 0, 1, "UpdateStorage", [malformed |-> TRUE]),
     Msg(B, A, 0, 0, "Constructor", << >>),
     [Msg(B, Market, 0, 0, "UpdateStorage", [delta |-> 3]) EXCEPT !.limit = 0]}]

\* Blocks generated from a pool.
Pool == [anyRecipient |-> FALSE, anyHeader |-> FALSE, sent |-> 1, blocks |-> 1, pool |-> 3,
         nulls |-> {0}, until |-> 2, msgs |->
    {Transfer1(A, B, 0, 3), Transfer1(A, B, 1, 2), Transfer1(C, A, 0, 1), Transfer1(A, A, 0, 1),
     [Transfer1(B, C, 0, 5) EXCEPT !.price = 2],
     [Msg(B, Market, 1, 2, "GetTotalStorage", << >>) EXCEPT !.limit = 8]}]

\* The life of one miner.
Mine == [anyRecipient |-> FALSE, anyHeader |-> FALSE, sent |-> 4, blocks |-> 1, pool |-> 0, nulls |-> {0, 2}, until |-> 5, msgs |->
    {Create(A, 6), Commit(A, MinerA, 1), Commit(A, MinerA, 2),
     PoSt(A, MinerA, 0, {}, {}), PoSt(A, MinerA, 5, {1}, {}), PoSt(A, MinerA, 0, {}, {2}), Slash(B, MinerA)}]

\* A miner that misses a proof after it gave one.
Miss == [Mine EXCEPT !.until = 8, !.msgs =
    {Create(A, 6), Commit(A, MinerA, 1), PoSt(A, MinerA, 0, {}, {}), Slash(B, MinerA)}]

\* Two miners; a proof that fails after the market was told.
Lose == [anyRecipient |-> FALSE, anyHeader |-> FALSE, sent |-> 5, blocks |-> 1, pool |-> 0, nulls |-> {0, 2}, until |-> 3, msgs |->
    {Create(A, 3), Commit(A, MinerA, 1), Commit(A, MinerA, 2), Create(B, 6),
     PoSt(A, MinerA, 0, {}, {9}), Msg(B, Market, 0, 0, "GetLateMiners", << >>)}]

\* Flawed headers, and blocks of a miner that has no entry in the power table.
Forge == [anyRecipient |-> FALSE, anyHeader |-> TRUE, sent |-> 1, blocks |-> 1, pool |-> 1,
          nulls |-> {0}, until |-> 2, msgs |-> {Create(A, 6), Transfer1(A, C, 0, 5)}]

\* A miner's asks, keys and faults.
Ask == [anyRecipient |-> FALSE, anyHeader |-> FALSE, sent |-> 4, blocks |-> 1, pool |-> 0,
        nulls |-> {0, 2}, until |-> 3, msgs |->
    {Create(A, 6), Msg(A, MinerA, 0, 0, "AddAsk", [price |-> 1, expiry |-> 1]),
     Msg(A, MinerA, 0, 0, "GetAsk", [ask |-> 0]), Msg(B, MinerA, 0, 0, "ChangeWorker", [worker |-> B]),
     Msg(A, MinerA, 0, 0, "ChangeWorker", [worker |-> B]), Commit(B, MinerA, 1),
     Msg(B, MinerA, 0, 0, "UpdatePeerID", [pid |-> "q"]),
     Msg(B, MinerA, 0, 0, "AddFaults", [faults |-> {1}]),
     Msg(B, MinerA, 0, 0, "VerifyPieceInclusion", [sector |-> 1, proved |-> TRUE]),
     Msg(B, MinerA, 0, 0, "CalculateLateFee", [at |-> 4]),
     Msg(B, ID(InitID), 0, 0, "GetAddressForActorID", [id |-> 102]),
     Msg(B, ID(PowerID), 0, 0, "RemoveStorageMiner", [miner |-> 102])}]

PayWorkload == {Pay}
AllWorkloads == {Mine, Miss, Pay, Pool, Lose, Forge, Ask}
=============================================================================
