---------------------------- MODULE MCMessaging ----------------------------
(* A small chain store for model checking Messaging. *)
EXTENDS Messaging

Msg(from, nonce, content) == [from |-> from, nonce |-> nonce, content |-> content]

Resent == {Msg("a", 1, 2)}
Gossiped == {Msg("b", 0, 1), Msg("b", 0, 2)}

(* Two branches.  t1 and t2 mine messages of both senders; u1 mines another  *)
(* message with the nonce of one of them, u2 the message of t1, in two blocks. *)
ChainTips == {"g", "t1", "t2", "u1", "u2"}
ChainParent == [g |-> "g", t1 |-> "g", t2 |-> "t1", u1 |-> "g", u2 |-> "u1"]
ChainHeight == [g |-> 0, t1 |-> 1, t2 |-> 2, u1 |-> 1, u2 |-> 3]
ChainRank == [g |-> 0, t1 |-> 1, t2 |-> 2, u1 |-> 3, u2 |-> 4]
ChainMined == [g |-> <<>>, t1 |-> <<Msg("a", 0, 1)>>,
               t2 |-> <<Msg("a", 1, 1), Msg("b", 0, 1)>>,
               u1 |-> <<Msg("b", 0, 2)>>,
               u2 |-> <<Msg("a", 0, 1), Msg("a", 0, 1)>>]
=============================================================================
