-------------------------- MODULE MCEventDispatch --------------------------
(* Instances of EventDispatch for TLC. *)
EXTENDS EventDispatch, TLC

ListenersSymmetry == Permutations(Listeners)
=============================================================================
