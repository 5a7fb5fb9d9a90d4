---------------------------- MODULE MCListeners ----------------------------
(***************************************************************************)
(* The loop listeners and the timeout listeners for TLC, in one run: a     *)
(* behaviour is of either part, so their states add up.                    *)
(***************************************************************************)
EXTENDS LoopListeners, TimeoutQueue

VARIABLE part

MCInit == LoopInit /\ Init /\ part \in {"loop", "timeouts"}

MCNext ==
  \/ part = "loop" /\ LoopNext /\ UNCHANGED <<vars, part>>
  \/ part = "timeouts" /\ Next /\ UNCHANGED <<loop_vars, part>>

MCSpec == MCInit /\ [][MCNext]_<<loop_vars, vars, part>> /\ Fairness
=============================================================================
