---------------------------- MODULE SectorBuilder ---------------------------
(***************************************************************************)
(* The sector builder's Go half: AddPiece, the poller that hands over the  *)
(* results of sealing, restart and Close.  The Rust half, which keeps and  *)
(* seals sectors on disk, is external.                                     *)
(***************************************************************************)
EXTENDS Integers, Sequences, FiniteSets, SequencesExt

CONSTANT MaxSectors     \* bound on the sectors ever used

VARIABLES
    sector,     \* the Rust builder's sectors: status and pieces (external, on disk)
    awaiting,   \* sectorsAwaitingSeal
    adding,     \* ids of the addSectorID goroutines that wait for the lock, with their callers
    poller      \* the polling goroutine: where it is, ids left in this pass, result offered

sbVars == <<sector, awaiting, adding, poller>>

Sectors == 1..MaxSectors
NoResult == [id |-> 0, ok |-> FALSE]
Offering(left, offer) == [at |-> "pass", left |-> left, offer |-> offer]
Asleep == [at |-> "asleep", left |-> {}, offer |-> NoResult]
Polling(left) == IF left = {} THEN Asleep ELSE Offering(left, NoResult)
Stopped == [at |-> "stopped", left |-> {}, offer |-> NoResult]

\* The lock on sectorsAwaitingSeal is held for a whole pass.
LockFree == poller.at # "pass"

GetSectorSealingStatusByID(id) == sector[id].status

\* "sealed" is metadata, "failed" an error, and otherwise there is nothing yet.
findSealedSectorMetadata(id) ==
    CASE GetSectorSealingStatusByID(id) = "sealed" -> [id |-> id, ok |-> TRUE]
      [] GetSectorSealingStatusByID(id) = "failed" -> [id |-> id, ok |-> FALSE]
      [] OTHER -> NoResult

GetAllStagedSectors == {id \in DOMAIN sector : GetSectorSealingStatusByID(id) # "sealed"}

-----------------------------------------------------------------------------
(* The Rust half *)

Staged == {id \in DOMAIN sector : sector[id].status = "staged"}

\* A piece goes to a staged sector with room, or to a new one.
RustAddPiece(piece, room, id) ==
    \/ /\ id \in Staged /\ Len(sector[id].pieces) < room
       /\ sector' = [sector EXCEPT ![id].pieces = Append(@, piece)]
    \/ /\ \A i \in Staged : Len(sector[i].pieces) >= room
       /\ Len(sector) < MaxSectors /\ id = Len(sector) + 1
       /\ sector' = Append(sector, [status |-> "staged", pieces |-> <<piece>>])

SealAllStagedSectors ==
    /\ Staged # {}
    /\ sector' = [i \in DOMAIN sector |->
                     IF i \in Staged THEN [sector[i] EXCEPT !.status = "sealing"] ELSE sector[i]]
    /\ UNCHANGED <<awaiting, adding, poller>>

SealEnds(id, mayFail) ==
    /\ id \in DOMAIN sector /\ sector[id].status = "sealing"
    /\ \E to \in {"sealed"} \cup (IF mayFail THEN {"failed"} ELSE {}) :
           sector' = [sector EXCEPT ![id].status = to]
    /\ UNCHANGED <<awaiting, adding, poller>>

-----------------------------------------------------------------------------
(* The Go half *)

SBInit ==
    /\ sector = <<>>
    /\ awaiting = {}
    /\ adding = {}
    /\ poller = Asleep

\* The select of AddPiece takes the sector's id when the call has returned ...
AddPiece(who, piece, room, id) ==
    /\ RustAddPiece(piece, room, id)
    /\ adding' = adding \cup {<<who, id>>}
    /\ UNCHANGED <<awaiting, poller>>

\* ... or an error: of the call, or of the stream, the piece staged all the same.
AddPieceFails(piece, room) ==
    /\ sector' = sector \/ \E id \in Sectors : RustAddPiece(piece, room, id)
    /\ UNCHANGED <<awaiting, adding, poller>>

addSectorID(who, id) ==
    /\ <<who, id>> \in adding /\ LockFree
    /\ adding' = adding \ {<<who, id>>}
    /\ awaiting' = awaiting \cup {id}
    /\ UNCHANGED <<sector, poller>>

StartPass ==
    /\ poller.at = "asleep" /\ awaiting # {}
    /\ poller' = Polling(awaiting)
    /\ UNCHANGED <<sector, awaiting, adding>>

\* The poller asks for one sector: it goes on, or blocks with a result.
Visit(id) ==
    /\ poller.at = "pass" /\ poller.offer = NoResult /\ id \in poller.left
    /\ poller' = IF findSealedSectorMetadata(id) = NoResult
                 THEN Polling(poller.left \ {id})
                 ELSE Offering(poller.left, findSealedSectorMetadata(id))
    /\ UNCHANGED <<sector, awaiting, adding>>

\* The unbuffered channel hands the result to a receiver that waits in its select.
SectorSealResults(result) ==
    /\ poller.at = "pass" /\ poller.offer # NoResult
    /\ result = poller.offer
    /\ awaiting' = awaiting \ {result.id}
    /\ poller' = Polling(poller.left \ {result.id})
    /\ UNCHANGED <<sector, adding>>

\* Close waits until the poller is between two passes.
Close ==
    /\ poller.at = "asleep"
    /\ poller' = Stopped
    /\ UNCHANGED <<sector, awaiting, adding>>

\* Mutant: a sector that was staged before is not polled again.
NewRustSectorBuilderMutant ==
    /\ awaiting' = {}
    /\ adding' = {}
    /\ poller' = Asleep
    /\ UNCHANGED sector

\* A new process polls for the sectors that are staged and not sealed.
NewRustSectorBuilder ==
    /\ awaiting' = GetAllStagedSectors
    /\ adding' = {}
    /\ poller' = Asleep
    /\ UNCHANGED sector

SBTypeOK ==
    /\ \A i \in DOMAIN sector : sector[i].status \in {"staged", "sealing", "sealed", "failed"}
    /\ awaiting \subseteq Sectors
    /\ poller.at \in {"asleep", "pass", "stopped"} /\ poller.left \subseteq awaiting
=============================================================================
