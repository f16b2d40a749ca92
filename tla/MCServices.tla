------------------------------- MODULE MCServices -------------------------------
(***************************************************************************)
(* The services that share no table with one another, checked in one run:  *)
(* an initial state chooses the part that moves, so that the state space   *)
(* is their sum and not their product.                                     *)
(***************************************************************************)
EXTENDS LegacyCoordinator, StepTracking, JobRun, MatchCache, TenderMarket, PermitIdentity, TLC

VARIABLE part

Parts == {"legacy", "steps", "jobs", "matches", "market", "permits"}

ServicesInit ==
  /\ part \in Parts
  /\ LegacyInit /\ StepInit /\ JobInit /\ MatchInit /\ MarketInit /\ PermitInit
  /\ part # "legacy" => pid = [t \in Threads |-> Null]
  /\ part # "market" => There = {}
  /\ part # "permits" => DOMAIN permits = {}

ServicesNext ==
  /\ UNCHANGED part
  /\ \/ /\ part = "legacy" /\ LegacyNext
        /\ UNCHANGED <<stepVars, jobVars, matchVars, marketVars, permitVars>>
     \/ /\ part = "steps" /\ StepNext
        /\ UNCHANGED <<legacyVars, jobVars, matchVars, marketVars, permitVars>>
     \/ /\ part = "jobs" /\ JobNext
        /\ UNCHANGED <<legacyVars, stepVars, matchVars, marketVars, permitVars>>
     \/ /\ part = "matches" /\ MatchNext
        /\ UNCHANGED <<legacyVars, stepVars, jobVars, marketVars, permitVars>>
     \/ /\ part = "market" /\ MarketNext
        /\ UNCHANGED <<legacyVars, stepVars, jobVars, matchVars, permitVars>>
     \/ /\ part = "permits" /\ PermitNext
        /\ UNCHANGED <<legacyVars, stepVars, jobVars, matchVars, marketVars>>

\* Every table and every program of the six services is of its type.
ServicesTypeOK ==
  /\ LegacyTypeOK /\ StepTypeOK /\ JobTypeOK /\ MatchTypeOK /\ MarketTypeOK /\ PermitTypeOK

\* The parts share their model values: threads, workers and importers are t1 and
\* t2, runs r1 and r2.
Symmetry == Permutations(Threads) \cup Permutations(LegacyRuns) \cup Permutations(Pids)
===============================================================================
