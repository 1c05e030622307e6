--------------------------- MODULE MCStorageMining --------------------------
(* Workloads for model checking storage deals and proofs. *)
EXTENDS StorageMining

One(piece, size) == [piece |-> piece, size |-> size, dup |-> FALSE, after |-> {}]

\* No payment, one sector per deal, nothing fails: the base of the workloads.
Plain == [calls |-> ("c1" :> One("p1", 1)), price |-> 0, prices |-> {}, duration |-> 3, room |-> 1,
          faults |-> {}, rekey |-> FALSE, stops |-> FALSE, restarts |-> 0, until |-> 1,
          proofs |-> FALSE, serial |-> FALSE, process |-> TRUE]

\* The second call starts when the first has returned.
TwoCalls(p, q, leave) ==
    [Plain EXCEPT !.calls = ("c1" :> One(p, 1)) @@
                            ("c2" :> [One(q, 1) EXCEPT !.dup = leave, !.after = {"c1"}]),
                  !.serial = TRUE]

\* Two deals share a sector while sealing results come in.
Shared == [TwoCalls("p1", "p2", FALSE) EXCEPT !.room = 2]

\* The same proposal is made twice, and two proposals at the same time.
Twice == TwoCalls("p1", "p1", TRUE)
Race == [TwoCalls("p1", "p1", FALSE) EXCEPT !.serial = FALSE, !.process = FALSE]

\* What may go wrong on the way of one deal, and a crash anywhere.
Faulty == [Plain EXCEPT !.faults = {"stream", "fetch", "add", "disk", "send", "seal"},
                        !.stops = TRUE, !.restarts = 1]
Crash == [Plain EXCEPT !.restarts = 2]

\* Paid deals: sizes and durations that do not divide, prices that change.
Paid == {[Plain EXCEPT !.calls = ("c1" :> One("p1", n)), !.price = p, !.prices = {0, 2},
                       !.duration = d, !.until = 4, !.process = FALSE, !.faults = {"channel", "timeout"}] :
             n \in {2, 3}, p \in {0, 1}, d \in {1, 3, 4}}

\* One call after the other for the same piece, with and without leave.
Serial == {[TwoCalls("p1", "p1", leave) EXCEPT
                !.price = 1, !.duration = 2, !.until = 3, !.process = FALSE] : leave \in BOOLEAN}

\* The worker's key is changed while a deal is made.
Rekey == [Plain EXCEPT !.rekey = TRUE, !.until = 2]

\* One deal's sector is proved over several windows.
Proofs == [Plain EXCEPT !.until = 13, !.proofs = TRUE]
ProofsFaulty == [Proofs EXCEPT !.until = 9, !.restarts = 1, !.faults = {"send"}]

AllWorkloads == {Shared, Twice, Race, Faulty, Crash, Rekey} \cup Paid \cup Serial
                \cup {Proofs, ProofsFaulty}
=============================================================================
