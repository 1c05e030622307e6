---------------------------- MODULE MCRepository ----------------------------
(***************************************************************************)
(* Instances of Repository for TLC.  A workload bounds what the operator   *)
(* starts (init, daemon, migration), how much the daemons do (op) and how  *)
(* many processes are killed.                                              *)
(***************************************************************************)
EXTENDS Repository, TLC

W(from, versions, init, daemon, migration, op, kill) ==
  [from |-> from, versions |-> versions, init |-> init, daemon |-> daemon,
   migration |-> migration, op |-> op, kill |-> kill]

\* The current release is initialised and works, with kills.
Fresh == W(0, {2}, 2, 2, 0, 2, 2)
\* A repository of the earlier release is migrated while its daemon may be
\* running, and anything may be killed.
Upgrade == W(1, {1}, 0, 2, 1, 2, 1)
\* It is migrated in two steps, or twice at once.
Again == W(1, {1}, 0, 1, 2, 1, 1)
\* The migration is killed, its operator starts over, and the current release
\* tries to start.
After == W(1, {2}, 1, 2, 1, 1, 1)
\* Two init commands at once.
Twins == W(0, {1, 2}, 2, 1, 0, 1, 0)

AllWorkloads == {Fresh, Upgrade, Again, After, Twins}

\* Nothing depends on which process runs a program.
Symmetry == Permutations(Procs)
=============================================================================
