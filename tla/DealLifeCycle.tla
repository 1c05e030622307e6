---------------------------- MODULE DealLifeCycle ---------------------------
(***************************************************************************)
(* What the storage miner promises about a deal's state, the one it signs  *)
(* and shows to clients: a deal that is proposed once only moves forward,  *)
(* ends as Rejected, Failed or Complete, and is Complete only when the     *)
(* commitment of a sector with its piece has been sent.                    *)
(***************************************************************************)
EXTENDS Integers

CONSTANT Deals

VARIABLES
    state,      \* the deal's state, "none" before it is proposed
    again,      \* deals whose proposal was received more than once
    committed   \* deals with their piece in a sector whose commitment was sent

States == {"none", "Rejected", "Accepted", "Staged", "Failed", "Complete"}

Rank(s) ==
    CASE s = "none" -> 0
      [] s = "Accepted" -> 1
      [] s = "Staged" -> 2
      [] OTHER -> 3

LifeInit ==
    /\ state = [d \in Deals |-> "none"]
    /\ again = {}
    /\ committed = {}

\* One step may settle all the deals of a sector.
LifeNext ==
    /\ again \subseteq again' /\ again' \subseteq Deals
    /\ committed \subseteq committed' /\ committed' \subseteq Deals
    /\ state' \in [Deals -> States]
    /\ \A d \in Deals :
        \/ state'[d] = state[d]
        \/ d \in again'
        \/ /\ Rank(state[d]) < Rank(state'[d])
           /\ state'[d] = "Rejected" => state[d] = "none"
           /\ state'[d] = "Complete" => d \in committed' /\ state[d] # "none"

LifeSpec == LifeInit /\ [][LifeNext]_<<state, again, committed>>
=============================================================================
