----------------------------- MODULE ExclusiveRun -----------------------------
(***************************************************************************)
(* What the coordinator promises (module docstring of                      *)
(* src/pipeline/run_coordinator_postgres.py): one run at a time owns the   *)
(* tender-data scope; a live owner is replaced by nobody; an owner whose   *)
(* lease has lapsed never gets it back, and can be evicted; a run_id owns  *)
(* the scope once; only a live owner imports, and only what it scraped.    *)
(***************************************************************************)
CONSTANTS RunIds, NoRun

VARIABLES
  owner,      \* the run that owns the scope, or NoRun
  live,       \* the owner's lease has time left
  used,       \* the run_ids that own or have owned the scope
  scraped,    \* the runs whose tender scrapes are complete
  imported    \* the runs that have begun to import

vars == <<owner, live, used, scraped, imported>>

Init ==
  /\ owner = NoRun /\ live = FALSE
  /\ used = {} /\ scraped = {} /\ imported = {}

\* A fresh run takes the free scope, or the scope of a lapsed owner.
Claim(r) ==
  /\ owner = NoRun \/ ~live
  /\ r \notin used
  /\ owner' = r /\ live' = TRUE /\ used' = used \cup {r}
  /\ UNCHANGED <<scraped, imported>>

Lapse ==
  /\ live /\ live' = FALSE
  /\ UNCHANGED <<owner, used, scraped, imported>>

\* The owner gives up the scope, or loses it after its lease has lapsed.
Release ==
  /\ owner # NoRun
  /\ owner' = NoRun /\ live' = FALSE
  /\ UNCHANGED <<used, scraped, imported>>

Scrape ==
  /\ live /\ scraped' = scraped \cup {owner}
  /\ UNCHANGED <<owner, live, used, imported>>

Import ==
  /\ live /\ owner \in scraped
  /\ imported' = imported \cup {owner}
  /\ UNCHANGED <<owner, live, used, scraped>>

Next == (\E r \in RunIds : Claim(r)) \/ Lapse \/ Release \/ Scrape \/ Import

Spec == Init /\ [][Next]_vars
=============================================================================
