----------------------------- MODULE MCTaskQueue -----------------------------
(* The instance of TaskQueue for TLC, which the proofs cover. *)
EXTENDS TaskQueueProofs

ASSUME InstanceIsCovered == CapacityFits
=============================================================================
