---------------------------- MODULE MCDispatcher ----------------------------
(* Targets for model checking Dispatcher: near and far ones, two of a height. *)
EXTENDS Dispatcher

TargetHeights == [near |-> 1, far |-> 3, far2 |-> 3, own |-> 2]
Own == [w |-> "own"]
=============================================================================
