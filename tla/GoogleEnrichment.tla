---------------------------- MODULE GoogleEnrichment ----------------------------
(***************************************************************************)
(* Google enrichment (pipeline/google_enrichment).  A run ages enriched    *)
(* companies in a transaction of its own, picks a batch, looks every       *)
(* company of it up at the provider and commits the whole batch at its end *)
(* (orchestrator.py:122).  The step runner starts a second run beside the  *)
(* first when it is asked to.                                              *)
(*                                                                         *)
(* Companies are active and operating throughout; `aged` says that         *)
(* google_last_updated is older than the interval of the company's status. *)
(* Dry runs, which write nothing, are left out.                            *)
(***************************************************************************)
EXTENDS FiniteSets, Naturals

CONSTANTS Listed,      \* companies
          Places,      \* Google place ids
          NoPlace,     \* google_place_id IS NULL
          Refreshes,   \* run_ids, each used by one run
          BatchSize

ASSUME GoogleAssumption == BatchSize \in Nat \ {0} /\ NoPlace \notin Places

VARIABLES
  listing,   \* companies: google_enrichment_status, google_place_id, age
  reviews,   \* companies with a pending row in google_enrichment_reviews
  logs,      \* google_enrichment_logs: pairs of a company and a run
  refresh    \* the runs

googleVars == <<listing, reviews, logs, refresh>>

VALID_TRANSITIONS ==
  [s \in {"pending", "review", "enriched", "stale", "error", "no_match"} |->
     CASE s \in {"pending", "stale"} -> {"enriched", "review", "no_match", "error"}
       [] s = "review" -> {"enriched", "no_match"}
       [] s = "enriched" -> {"stale"}
       [] s = "error" -> {"pending"}
       [] s = "no_match" -> {}]

Listing == [status : DOMAIN VALID_TRANSITIONS, place : Places \cup {NoPlace}, aged : BOOLEAN]

\* What the provider's best candidate comes to, or that there is none.
Answers == [place : Places, grade : {"accept", "unsure", "low"}]
           \cup [place : {NoPlace}, grade : {"none", "raises"}]

NoRows == [c \in {} |-> NoPlace]
NewRefresh == [at |-> "new", left |-> {}, seen |-> NoRows, now |-> NoRows, sent |-> NoRows]

\* The companies a run has looked up, with the status each is sent to.
LookedUp(r) == DOMAIN refresh[r].sent

\* What earlier runs may have made of a company.
Standings ==
  [status : {"pending", "no_match"}, place : {NoPlace}, aged : {FALSE}]
  \cup [status : {"stale"}, place : Places, aged : {TRUE}]

GoogleInit ==
  /\ listing \in [Listed -> Standings]
  /\ \A c, d \in Listed : c # d => listing[c].place # listing[d].place \/ listing[c].place = NoPlace
  /\ reviews = {}
  /\ logs = {}
  /\ refresh = [r \in Refreshes |-> NewRefresh]

-----------------------------------------------------------------------------
(* The batch of a run *)

mark_stale_companies(r) ==
  /\ refresh[r].at = "new"
  /\ listing' = [c \in Listed |->
       IF listing[c].status = "enriched" /\ listing[c].aged
       THEN [listing[c] EXCEPT !.status = "stale"] ELSE listing[c]]
  /\ refresh' = [refresh EXCEPT ![r].at = "marked"]
  /\ UNCHANGED <<reviews, logs>>

Eligible ==
  {c \in Listed :
     /\ listing[c].status # "review"
     /\ \/ listing[c].place = NoPlace
        \/ listing[c].status \in {"pending", "error"}
        \/ listing[c].status \in {"enriched", "stale", "no_match"} /\ listing[c].aged}

Rank(c) == IF listing[c].status = "stale" THEN 0
           ELSE IF listing[c].place = NoPlace THEN 1 ELSE 2

\* The first BatchSize companies in the order of Rank; the total_value that
\* settles ties is open.  With company_ids any company not in review will do.
Batches ==
  {B \in SUBSET Eligible :
     /\ Cardinality(B) <= BatchSize
     /\ B # Eligible => Cardinality(B) = BatchSize
     /\ \A c \in B, d \in Eligible \ B : Rank(c) <= Rank(d)}
  \cup {B \in SUBSET {c \in Listed : listing[c].status # "review"} :
          Cardinality(B) \in 1..BatchSize}

\* The ids are selected first, the rows are loaded by a second statement.
fetch_eligible_companies(r) ==
  /\ refresh[r].at = "marked"
  /\ \E B \in Batches :
       refresh' = [refresh EXCEPT ![r].at = IF B = {} THEN "done" ELSE "picked", ![r].left = B]
  /\ UNCHANGED <<listing, reviews, logs>>

LoadRows(r) ==
  /\ refresh[r].at = "picked"
  /\ LET rows == [c \in refresh[r].left |-> listing[c]] IN
     refresh' = [refresh EXCEPT ![r].at = "looking", ![r].seen = rows, ![r].now = rows]
  /\ UNCHANGED <<listing, reviews, logs>>

-----------------------------------------------------------------------------
(* Looking a company up *)

\* The session does not flush before it queries: places given to companies
\* of the same batch are not among them.
fetch_reserved_place_ids(c) == {listing[d].place : d \in Listed \ {c}} \ {NoPlace}

evaluate_lookup(answer, reserved) ==
  CASE answer.grade = "raises" -> "error"
    [] answer.grade \in {"none", "low"} \/ answer.place \in reserved -> "no_match"
    [] answer.grade = "accept" /\ answer.place \notin reserved -> "enriched"
    [] answer.grade = "unsure" /\ answer.place \notin reserved -> "review"

\* set_enrichment_status(c, target) does not raise; a success is written
\* first and passes always.
can_set(current, target) ==
  \/ target \in {current, "enriched"} \cup VALID_TRANSITIONS[current]
  \/ current = "error" /\ target \in VALID_TRANSITIONS["pending"]

Written(row, status, place) ==
  IF status = "enriched" THEN [status |-> status, place |-> place, aged |-> FALSE]
  ELSE [row EXCEPT !.status = status, !.aged = @ /\ status = "review"]

\* _process_company: the log and review rows and the new status stay in the
\* session.  A transition that is not valid raises and ends the run.
_process_company(r, c, answer) ==
  LET status == evaluate_lookup(answer, fetch_reserved_place_ids(c))
      row == refresh[r].now[c]
  IN
  /\ refresh[r].at = "looking" /\ c \in refresh[r].left
  /\ refresh' = [refresh EXCEPT ![r] = [refresh[r] EXCEPT
       !.at = IF can_set(row.status, status) THEN @ ELSE "failed",
       !.left = @ \ {c},
       !.now = [@ EXCEPT ![c] = IF can_set(row.status, status)
                                THEN Written(row, status, answer.place) ELSE row],
       !.sent = [d \in DOMAIN @ \cup {c} |-> IF d = c THEN status ELSE @[d]]]]
  /\ UNCHANGED <<listing, reviews, logs>>

-----------------------------------------------------------------------------
(* The commit of the batch *)

\* Bug: the place is written with every row, whether the run changed it or not.
FlushedWithPlaces(r) ==
  [c \in Listed |->
     IF c \notin LookedUp(r) THEN listing[c]
     ELSE LET seen == refresh[r].seen[c]
              now == refresh[r].now[c]
          IN [status |-> IF now.status # seen.status THEN now.status ELSE listing[c].status,
              place |-> now.place,
              aged |-> listing[c].aged /\ refresh[r].sent[c] = "review"]]

\* The flush writes the columns that differ from the loaded row.
Flushed(r) ==
  [c \in Listed |->
     IF c \notin LookedUp(r) THEN listing[c]
     ELSE LET seen == refresh[r].seen[c]
              now == refresh[r].now[c]
          IN [status |-> IF now.status # seen.status THEN now.status ELSE listing[c].status,
              place |-> IF now.place # seen.place THEN now.place ELSE listing[c].place,
              aged |-> listing[c].aged /\ refresh[r].sent[c] = "review"]]

\* The unique index on google_place_id.
PlaceCollides(r) ==
  \E c, d \in Listed :
    c # d /\ Flushed(r)[c].place = Flushed(r)[d].place /\ Flushed(r)[c].place # NoPlace

\* The index is checked row by row, so a place that another company gives up
\* in the same flush may collide too.
MayCollide(r) ==
  \E c, d \in Listed :
    c # d /\ Flushed(r)[c].place = listing[d].place /\ listing[d].place # NoPlace

\* Bug: a company that has a place already gets no row in the review queue.
persist_review_row_for_new(r) ==
  {c \in LookedUp(r) : refresh[r].sent[c] = "review" /\ refresh[r].seen[c].place = NoPlace}

persist_review_row(r) ==
  {c \in LookedUp(r) : refresh[r].sent[c] = "review"}

CommitBatch(r) ==
  /\ refresh[r].at = "looking" /\ refresh[r].left = {}
  /\ ~PlaceCollides(r)
  /\ listing' = Flushed(r)
  /\ reviews' = reviews \cup persist_review_row(r)
  /\ logs' = logs \cup (LookedUp(r) \X {r})
  /\ refresh' = [refresh EXCEPT ![r].at = "done"]

CommitFails(r) ==
  /\ refresh[r].at = "looking" /\ refresh[r].left = {}
  /\ PlaceCollides(r) \/ MayCollide(r)
  /\ refresh' = [refresh EXCEPT ![r].at = "failed"]
  /\ UNCHANGED <<listing, reviews, logs>>

-----------------------------------------------------------------------------

\* The process ends under the run, and its transaction is rolled back.
RefreshDies(r) ==
  /\ refresh[r].at \in {"marked", "picked", "looking"}
  /\ refresh' = [refresh EXCEPT ![r].at = "dead"]
  /\ UNCHANGED <<listing, reviews, logs>>

\* STALE_DAYS or NO_MATCH_RETRY_DAYS pass.
GrowsOld(c) ==
  /\ listing[c].status \in {"enriched", "stale", "no_match"} /\ ~listing[c].aged
  /\ listing' = [listing EXCEPT ![c].aged = TRUE]
  /\ UNCHANGED <<reviews, logs, refresh>>

GoogleNext ==
  \/ \E r \in Refreshes :
       \/ mark_stale_companies(r) \/ fetch_eligible_companies(r) \/ LoadRows(r)
       \/ \E c \in Listed, answer \in Answers : _process_company(r, c, answer)
       \/ CommitBatch(r) \/ CommitFails(r) \/ RefreshDies(r)
  \/ \E c \in Listed : GrowsOld(c)

-----------------------------------------------------------------------------

GoogleTypeOK ==
  /\ listing \in [Listed -> Listing]
  /\ reviews \subseteq Listed
  /\ logs \subseteq Listed \X Refreshes
  /\ \A r \in Refreshes :
       /\ refresh[r].at \in {"new", "marked", "picked", "looking", "done", "failed", "dead"}
       /\ refresh[r].left \cup LookedUp(r) \subseteq Listed
       /\ \A c \in DOMAIN refresh[r].now : refresh[r].now[c] \in Listing

\* The places that runs which committed have accepted for a company.
Accepted(c) ==
  {refresh[r].now[c].place :
     r \in {q \in Refreshes :
              refresh[q].at = "done" /\ c \in LookedUp(q) /\ refresh[q].sent[c] = "enriched"}}

\* An enriched company has a place that some run accepted for it.  Two runs
\* look one company up from rows that have gone stale under them, and each
\* writes the columns it changed: the status of the one is never left with the
\* place, or the missing place, that the other has read.
EnrichedPlacesWereAccepted ==
  \A c \in Listed : listing[c].status = "enriched" => listing[c].place \in Accepted(c)

\* A company in review, which no run picks any more, is in the queue of the
\* operator who has to decide, whatever runs overlapped or failed.
ReviewIsQueued == \A c \in Listed : listing[c].status = "review" => c \in reviews

\* Every lookup a run made is in google_enrichment_logs when the run is over
\* (docs/architecture/GOOGLE_ENRICHMENT_SERVICE.md:685).
EveryAttemptIsLogged ==
  \A r \in Refreshes :
    refresh[r].at \in {"done", "failed"} => LookedUp(r) \X {r} \subseteq logs
===============================================================================
