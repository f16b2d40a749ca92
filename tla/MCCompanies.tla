------------------------------ MODULE MCCompanies ------------------------------
(***************************************************************************)
(* What is known of a company, in one run: the services that look it up,   *)
(* merge it and keep claims of it share no column, so an initial state     *)
(* chooses the part that moves, and the state space is their sum.          *)
(***************************************************************************)
EXTENDS EnrichmentJobs, CompanyMerge, GoogleEnrichment, ClaimLedger, TLC

VARIABLE part

Parts == {"enrichment", "merges", "google", "claims"}

CompaniesInit ==
  /\ part \in Parts
  /\ Init /\ MergeInit /\ GoogleInit /\ LedgerInit
  /\ part # "google" => \A c \in Listed : listing[c].status = "pending"
  /\ part # "claims" => claims = {}
  /\ part # "merges" => /\ company[NamedRow] = NoOne
                        /\ applicant = [p \in Permits |-> "group"]

CompaniesNext ==
  /\ UNCHANGED part
  /\ \/ part = "enrichment" /\ Next /\ UNCHANGED <<mergeVars, googleVars, ledgerVars>>
     \/ part = "merges" /\ MergeNext /\ UNCHANGED <<vars, googleVars, ledgerVars>>
     \/ part = "google" /\ GoogleNext /\ UNCHANGED <<vars, mergeVars, ledgerVars>>
     \/ part = "claims" /\ LedgerNext /\ UNCHANGED <<vars, mergeVars, googleVars>>

\* The parts share their model values: the runs of the providers and of Google's
\* are r1 and r2, providers and places p1 and p2, two of the callers, the clients and
\* the listed companies t1 and t2.
Symmetry == Permutations(RunIds) \cup Permutations(Listed) \cup Permutations(Providers)
===============================================================================
