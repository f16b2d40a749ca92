--------------------------- MODULE MCTenderPipeline ---------------------------
(***************************************************************************)
(* Small instances of TenderPipeline for TLC.                              *)
(***************************************************************************)
EXTENDS TenderPipeline, TLC

Symmetry == Permutations(RunIds) \cup Permutations(Workers) \cup Permutations(Steps)

(***************************************************************************)
(* For liveness, the scheduler asks for next_run and the other workers for *)
(* the other runs: each has a run of its own, and they meet at the row     *)
(* locks, in reclaims of each other's expired runs, and in the import of   *)
(* the latest run.                                                         *)
(***************************************************************************)
CONSTANTS scheduler, next_run

OwnRequests ==
  \A w \in Workers : pc[w] \in Ends /\ pc'[w] \notin Ends =>
    (w = scheduler <=> job'[w].run = next_run)

FairOwnRuns ==
  PipelineInit /\ [][PipelineNext /\ OwnRequests]_allVars /\ FairSteps
===============================================================================
