----------------------------- MODULE MCCommands -----------------------------
(***************************************************************************)
(* Small instances of Commands: two clients, chosen pairs of requests, on  *)
(* a node without a miner and on a node with one.                          *)
(***************************************************************************)
EXTENDS Commands

MCClients == {"c1", "c2"}

\* Without a miner; with one, owned by "a"; with no default address.
Bare == [miner |-> Nobody, default |-> "a", keys |-> {"a"}, miners |-> <<>>]
M1 == "m1" :> [owner |-> "a", worker |-> "a", peer |-> "p0", asks |-> <<>>]
TwoKeys == [Bare EXCEPT !.keys = {"a", "b"}]
WithM1 == [miner |-> "m1", default |-> "a", keys |-> {"a"}, miners |-> M1]
NoDefault == [WithM1 EXCEPT !.default = Nobody, !.keys = {"a", "b"}]
Empty == [WithM1 EXCEPT !.default = Nobody, !.keys = {}]

R(cmd, of, arg) == [cmd |-> cmd, from |-> Nobody, of |-> of, arg |-> arg, preview |-> FALSE,
                    msg |-> <<>>, count |-> 1]
From(r, a) == [r EXCEPT !.from = a]
Preview(r) == [r EXCEPT !.preview = TRUE]
W(setup, bound, r1, r2) ==
    [setup |-> setup, ask |-> [c1 |-> r1, c2 |-> r2], bound |-> bound]

Send == R("message send", "c", "x")
Create(arg) == R("miner create", Nobody, arg)
Price(p) == R("miner set-price", Nobody, p)
Msg0 == [from |-> "a", nonce |-> 0, to |-> "c", method |-> "send", arg |-> "x"]
AboutMsg0(cmd) == [R(cmd, Nobody, Nobody) EXCEPT !.msg = <<Msg0>>]
Signed == [R("message signed-send", Nobody, Nobody) EXCEPT
             !.msg = <<[Msg0 EXCEPT !.arg = "signed"]>>]

\* Pairs that race on the way of a message, on the config or on the node.
Races ==
    <<W(TwoKeys, 2, From(Create("p1"), "a"), From(Create("p2"), "b")),
      W(Bare, 2, Create("cheap"), R("mining setup", Nobody, Nobody)),
      W(WithM1, 2, Price("1"), Price("2")),
      W(WithM1, 2, Price("cheap"), R("address default", Nobody, Nobody)),
      W(NoDefault, 2, Send, From(Send, "a")),
      W(NoDefault, 2, From(Send, "b"), R("address default", Nobody, Nobody)),
      W(Empty, 2, Send, R("address new", Nobody, "a")),
      W(WithM1, 2, From(Send, "c"), R("wallet import", Nobody, "c")),
      W(WithM1, 2, Send, Signed),
      W(WithM1, 2, R("client propose-storage-deal", "m1", Nobody), Send),
      W(WithM1, 3, From(Send, "a"), AboutMsg0("message wait")),
      W(WithM1, 2, Send, AboutMsg0("message status")),
      W(WithM1, 2, Send, AboutMsg0("mpool show")), W(WithM1, 2, Send, AboutMsg0("mpool rm"))>>

With(bound, r, cmds) == [i \in DOMAIN cmds |-> W(WithM1, bound, r, R(cmds[i], Nobody, Nobody))]

SendRaces == With(2, Send, <<"mpool ls", "outbox ls", "outbox clear", "mining once">>)
MiningRaces ==
    With(1, R("mining start", Nobody, Nobody),
         <<"mining start", "mining stop", "mining once", "mining seal-now", "mining add-piece">>)

\* Every other command, beside one that changes what it reads ...
ReadOthers ==
    With(2, R("miner set-worker", Nobody, "c"),
         <<"miner worker", "mining address", "mining status", "client list-asks", "actor ls",
           "chain head", "chain ls">>)
    \o With(2, R("paych create", Nobody, "eol"), <<"deals redeem", "paych ls", "paych voucher">>)
ReadM1 ==
    LET cmds == <<"miner owner", "miner power", "miner collateral", "miner proving-window",
                  "client query-storage-deal", "client verify-storage-deal", "address lookup">>
    IN  [i \in DOMAIN cmds |-> W(WithM1, 2, R("miner update-peerid", "m1", "p1"),
                                 R(cmds[i], "m1", Nobody))]
Channels ==
    LET cmds == <<"paych redeem", "paych reclaim", "paych close", "paych extend", "paych cancel">>
    IN  [i \in DOMAIN cmds |-> W(WithM1, 2, R("paych create", Nobody, "eol"),
                                 R(cmds[i], Nobody, "v"))]
\* ... or beside another that changes nothing.
Pair(cmd1, cmd2) == W(WithM1, 1, R(cmd1, Nobody, Nobody), R(cmd2, Nobody, Nobody))
Settings ==
    <<W(WithM1, 2, R("config", "storagePrice", "3"), Preview(Price("4"))),
      W(WithM1, 2, R("wallet import", Nobody, "c"), R("wallet export", "c", Nobody)),
      W(WithM1, 2, R("wallet balance", "b", Nobody), Preview(R("deals redeem", Nobody, Nobody))),
      W(Bare, 2, Preview(Create("p1")), Preview(Send)),
      Pair("config", "address ls"), Pair("client cat", "client import"),
      Pair("client payments", "deals show"), Pair("deals list", "show block"),
      Pair("show header", "show messages"), Pair("show receipts", "show block")>>

MCWorkloads ==
    Races \o SendRaces \o MiningRaces \o ReadOthers \o ReadM1 \o Channels \o Settings
=============================================================================
