---------------------------- MODULE Services_proofs ----------------------------
(***************************************************************************)
(* The run over the six services that share no table is a run of each of   *)
(* them: what is proved of a service alone holds of it there.              *)
(***************************************************************************)
EXTENDS MCServices, RunHistory_proofs, Tenders_proofs, PermitIdentity_proofs

servicesVars == <<part, legacyVars, stepVars, jobVars, matchVars, marketVars, permitVars>>

ServicesSpec == ServicesInit /\ [][ServicesNext]_servicesVars

\* A step of the services is a step of each, or leaves its tables alone.
LEMMA PartsStep ==
  ASSUME [ServicesNext]_servicesVars
  PROVE  /\ [LegacyNext]_legacyVars
         /\ [StepNext]_stepVars
         /\ [JobNext]_jobVars
         /\ [MatchNext]_matchVars
         /\ [MarketNext]_marketVars
         /\ [PermitNext]_permitVars
<1>1. CASE /\ part = "legacy" /\ LegacyNext
           /\ UNCHANGED <<stepVars, jobVars, matchVars, marketVars, permitVars>>
  BY <1>1
<1>2. CASE /\ part = "steps" /\ StepNext
           /\ UNCHANGED <<legacyVars, jobVars, matchVars, marketVars, permitVars>>
  BY <1>2
<1>3. CASE /\ part = "jobs" /\ JobNext
           /\ UNCHANGED <<legacyVars, stepVars, matchVars, marketVars, permitVars>>
  BY <1>3
<1>4. CASE /\ part = "matches" /\ MatchNext
           /\ UNCHANGED <<legacyVars, stepVars, jobVars, marketVars, permitVars>>
  BY <1>4
<1>5. CASE /\ part = "market" /\ MarketNext
           /\ UNCHANGED <<legacyVars, stepVars, jobVars, matchVars, permitVars>>
  BY <1>5
<1>6. CASE /\ part = "permits" /\ PermitNext
           /\ UNCHANGED <<legacyVars, stepVars, jobVars, matchVars, marketVars>>
  BY <1>6
<1>7. CASE UNCHANGED servicesVars
  BY <1>7 DEF servicesVars
<1> QED
  BY <1>1, <1>2, <1>3, <1>4, <1>5, <1>6, <1>7 DEF ServicesNext

\* The behaviours of the run are behaviours of every service.
THEOREM ServicesBehave ==
  ServicesSpec => /\ LegacySpec /\ StepSpec /\ JobSpec /\ MatchSpec /\ MarketSpec /\ PermitSpec
<1>1. ServicesInit => /\ LegacyInit /\ StepInit /\ JobInit /\ MatchInit /\ MarketInit /\ PermitInit
  BY DEF ServicesInit
<1>2. [ServicesNext]_servicesVars =>
        /\ [LegacyNext]_legacyVars
        /\ [StepNext]_stepVars
        /\ [JobNext]_jobVars
        /\ [MatchNext]_matchVars
        /\ [MarketNext]_marketVars
        /\ [PermitNext]_permitVars
  BY PartsStep
<1> QED
  BY <1>1, <1>2, PTL
  DEF ServicesSpec, LegacySpec, StepSpec, JobSpec, MatchSpec, MarketSpec, PermitSpec

\* Every table of every service holds what its columns may, in every state of the run.
THEOREM ServicesTypes == ServicesSpec => []ServicesTypeOK
<1>1. LegacyInv => LegacyTypeOK
  BY DEF LegacyInv
<1>2. StepInv => StepTypeOK
  BY DEF StepInv
<1>3. JobInv => JobTypeOK
  BY DEF JobInv
<1>4. MatchInv => MatchTypeOK
  BY DEF MatchInv
<1>5. MarketInv => MarketTypeOK
  BY DEF MarketInv
<1>6. /\ LegacyTypeOK /\ StepTypeOK /\ JobTypeOK /\ MatchTypeOK /\ MarketTypeOK /\ PermitTypeOK
      => ServicesTypeOK
  BY DEF ServicesTypeOK
<1> QED
  BY <1>1, <1>2, <1>3, <1>4, <1>5, <1>6, ServicesBehave, LegacyInvariant, StepInvariant,
     JobInvariant, MatchInvariant, MarketInvariant, PermitTypes, PTL
================================================================================
