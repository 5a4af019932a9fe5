----------------------------- MODULE MCQueueWorker -----------------------------
(***************************************************************************)
(* Instances of the evaluation queue for TLC.  Run ids are ordered numbers *)
(* (oldest first), so they are not symmetric; retry threads are.           *)
(***************************************************************************)
EXTENDS QueueWorker, TLC

RetrierSymmetry == Permutations(Retriers)

=============================================================================
