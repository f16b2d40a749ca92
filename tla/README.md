# Verification of bc-tender-scraper

TLA+ models, TLC runs and TLAPS proofs for the stateful core of the BC tender
pipeline: who may run it, when it may import, what its services write to the
tables they share, and what happens when their processes overlap, fail, stall
or die.

## 1. Inventory

The program is a FastAPI web process with an APScheduler thread, child
processes that run the daily pipeline, n8n calling `/internal/*` endpoints,
operators' scripts, and one PostgreSQL database that they all share. Most of
the code scrapes, scores and reports. What can go wrong between processes is
in the parts below.

| Component | State | Operations | Hard behaviour | Correct when | Module |
|---|---|---|---|---|---|
| Run coordinator, PostgreSQL (`pipeline/run_coordinator_postgres.py`, migration 032) | `pipeline_coordinator_runs`, `pipeline_coordinator_steps` | `begin_run`, begin and complete of scrape, full scrape and import, `mark_tender_scrape_step`, `finish_run`, `reap_stale_run` | begin_run is three statements; leases expire under live workers; row locks, retries, death inside a transaction | one run owns the scope; a live one is never evicted, an expired one never revived; imports follow complete scrapes | `RunCoordinator` |
| Tender-data pipeline, n8n step workers (`pipeline/tender_data_pipeline.py`, `internal_steps.py`, `api/internal.py`) | program positions; the run's row | scrape, auxiliary scrape, verify, import, finish; one scraper; gated import | each phase fails or is refused after a reclaim; checks made before the work | it leaves no live run behind, whatever its handlers can handle; recorded success means imported | `TenderPipeline` |
| Coordinator dispatcher, legacy JSON backend (`run_coordinator_legacy.py`); pipeline lock, executor, scheduler (`lock.py`, `executor.py`, `run_pipeline.py`) | one JSON file, one PID file | the coordinator's API; acquire, release, start a child | a lock of one process over a file of several; check-then-write, unconditional unlink, truncation before writing | lost updates lose steps and never invent one | `LegacyCoordinator` |
| Step tracking (`pipeline/runs.py`) | `pipeline_runs` | `start_run`, `find_in_flight_run`, `finish_run`, tracked workers | look-up and insertion in two transactions, no lease | a retry finds what it retries; an outcome is final | `StepTracking` |
| Job-run telemetry (`pipeline/job_run.py`, migration 033) | `ops_job_runs`, `ops_job_run_events` | start, step, heartbeat, finish | clock read before the statement; calls that fail or lose their answer; reused run_ids | one narrator per run; the outcome fits the events | `JobRun` |
| On-demand enrichment (`pipeline/company_enrichment/orchestrator.py`, migration 034) | `company_enrichment_jobs`, `company_enrichment_fields` | `check_cache`, `start_or_join_job`, `reclaim_stale_job`, `run_cascade_for_job`, the writer | racing requests, leases with no heartbeat, zombie cascades, killed processes | one job per company, one worker per job, honest and final status | `EnrichmentJobs` |
| Match cache (`pipeline/ai_matching.py`, `bulk_prescore.py`) | `tender_matches` | Discover, bulk prescore, synchronous scoring, batch scoring | four writers of one row, with and without a breakdown | a score is the sum it is shown with; the prescore's loop ends | `MatchCache` |
| Company and identity merges (`company_canonical_merge.py`, `parsed_identity_canonical_merge.py`, `company_manual_bridge.py`, `company_fk_remap.py`) | companies, aliases, merge runs and rollback rows | three merges, rollback, imports in between | rollback after others moved the same rows; unique rows that cannot move | rollback restores all but recomputed aggregates; references go along; imports link to no alias | `CompanyMerge` |
| Google enrichment (`pipeline/google_enrichment`) | `companies.google_*`, reviews, logs | age, pick a batch, look up, commit | one commit per batch, unflushed session, overlapping runs | status and place fit each other; reviews are queued; attempts are logged | `GoogleEnrichment` |
| Claim ledger (`pipeline/registry_engine/claims`) | claims, evidence, events | `submit_claim`, `record_event`, `resolve` | stamps made before the transaction; concurrent terminal events | the ledger is well formed; past beliefs do not change; only adjudications change an adjudicated belief | `ClaimLedger` |
| Tender lifecycle and presence (`lifecycle_resolver.py`, `tender_presence.py`, `closing_at_sync.py`, `awards_reconciler.py`, `import_csv.py`) | `tenders` | import, resolver, closing-date backfill, reconciler | jobs overlap, break off between commits, write stale columns | a tender leaves the market only for a reason | `TenderMarket` |
| Permit identity (`db/surrey_permit_import.py`, `surrey_identity_*.py`, `permit_official_source_id_bridge.py`, `permit_import.py`) | `permits` | planned import, bridge, manual import | plans and fetched lists that go stale; look-up and update apart; unique indexes | an official number stays; a safe plan is carried out | `PermitIdentity` |
| Website-contact worker, scrapers, read models, public API pages, plans and alerts, scoring formulas, intelligence reports, migrations, research, n8n definitions | none of their own | - | external I/O, pure computation | - | not modelled, section 5 |

The components meet in three ways. The coordinator's callers compose with it
action by action (`TenderPipeline` over `RunCoordinator`, and the programs in
`LegacyCoordinator` over the file). Imports meet merges in `CompanyMerge`, and
imports meet resolvers in `TenderMarket`. The others share no table.

`PROJECT.json` lists every component with its sources, and under `hazards` the
places where this code is hard to test, each with the properties that watch it.

## 2. Modules

`ExclusiveRun` is what the coordinator promises, apart from how: an owner,
whether it is live, the runs used up, scraped and imported. `RunCoordinator`
implements it. The modules with `MC` in front hold symmetry sets and fair
specifications; `MCServices` composes six services that share no table, and
`MCCompanies` four that share no column of what is known of companies. The
modules ending in `_proofs` hold theorems.

A definition headed by a `\* Bug:` comment is not part of the model. It is the
form that a later definition in the file would have with a plausible mistake, and
shows, substituted for it, that a property can fail.

### RunCoordinator

`runs` and `completed` are the two tables; a run_id without a row is `absent`.
A call through `_mutate_locked_run` or `finish_run` or `reap_stale_run` locks
one row, decides and commits, and is one action. So is each refusal, and each
reclaim that a late call makes before it is refused. `begin_run` is not: `txn`
holds each worker's open transaction between its statements. `BeginScan` is
`SELECT ... FOR UPDATE` of the active row and keeps an expired row locked;
`BeginReused` and `BeginUnused` are the look-up of the run_id; `BeginInsert`
commits the new row and the reclaim together; `BeginCollides` is the
IntegrityError and the retry. READ COMMITTED shows in `BeginMissed`: who waits
for a row that stops being active finds nothing, not the row that took its
place. `Crash` is a connection that dies inside the transaction.

`lease` is the time left. `Tick` takes one unit from every lease, in any
interleaving, so a lease may expire between any two steps. The other time
stamps are kept as set or not set: no guard compares them.

### TenderPipeline

A worker has a program position `pc`, a `job` and no memory of the row: what a
program believes may be stale, as in the code. Scrapers, CSV checks, imports
and count checks are the failures they may have. `latest` is
`_latest_row_for_scope`, which the n8n endpoints read without a lock. A call of
the coordinator is made, is refused, or fails with the database and is rolled
back (`Raises`). Nearly everywhere the pipeline's except clause takes the error
and finishes the run. Two calls are outside of any handler: `begin_full_scrape`,
made before the `try`, and the `finish_run` of the except clause itself. When
the coordinator refuses them the run is not live; when the database fails in
them the pipeline ends with its run alive (`"unhandled"`). `Die` kills a worker
at any statement; its transaction is rolled back and its run stays.

### LegacyCoordinator

The JSON backend below all its users: pipelines in threads of the web process
and in children, scrape workers, gated imports. An operation decides on the
loaded file (`Call`), truncates it (`Truncate`) and writes it (`Write`), under
the `_LOCK` of its own process, so threads of the web process exclude each
other and children exclude nobody. A truncated file, or one written by two
processes at once, is no JSON, and every operation but `begin_run` raises on
it. The PID file is read, found dead (`FindDeadPid`), unlinked, written and
released unconditionally in steps of their own; pids are reused. `ran` and
`imported` are history variables for the properties.

### StepTracking

A request looks a running row up and inserts its own in another transaction.
Workers finish their row from counts through `_resolve_status`. `DatabaseFails`
and `WebCrash` leave rows running for good; `find_in_flight_run` knows no age,
and the model says so.

### JobRun

A telemetry call reads the clock first and executes its statement later, when
the lease may have lapsed. A call may fail, or commit and lose its answer, and
the job goes on either way. Jobs that isolate their phases derive the outcome
from the failures, others end with the first exception. n8n requests bring
their own run_id and may bring it twice. A heartbeat that had to wait for
the row may renew a lease that lapsed meanwhile, because it has read its clock
before (`job_run.py:221`). The docstring says it must never revive one; the model
has it as the code does, and no property is about it, since nothing takes over
a job run whose lease is over.

### EnrichmentJobs

Companies share no rows, so one company is modelled. A caller is one request
and its background task: cache check, insert or find, reclaim and retry, then
the providers in any order with match, no match, error or timeout, the writes
and the terminal update. A write is two steps, what it found and what it
commits, because two cascades may replace the same rows; the later one violates
the partial unique index of migration 034 and raises. `_mark_job_failed_best_effort`
is `MarkFailed`; that it may itself fail is part of `Die`.

### MatchCache

`matches` has a row per company and tender: a score, the sum of its breakdown
if it has one, and whether it is fresh. A deterministic score is the revision
of the profile it was computed from, so a stale read shows. Discover and the
prescore commit several pairs together, the synchronous path pair by pair, and
the batch writes scores of a language model without touching the breakdown.
The last is why `ConstructionScoresAddUp` speaks of construction companies:
architecture rows need not add up.

### CompanyMerge

A merge is one transaction: roles, the remap of permits, awards and outcomes
(with the unique index that lets an outcome stay behind), the aliases and the
snapshot. The canonical merge may insert the named row; the merge by parsed
identity and the manual bridge work on groups of their own that overlap it.
Imports link permits and awards by name in between. Two cases are exceptions in
the properties because the code has them: a merge that inserts its canonical
row leaves the permits it assigned at the old primary, and a bridged row's
import follows one link only. A third is the aggregates a company has over its
permits. `counted` is what those of `NamedRow` were computed from; the bridge
computes them again in its transaction, has them in its snapshot, and
`rollback_merge_run` restores other columns only. Its docstring, "Restore
company/permit rows snapshotted during apply", does not say that.
`PopulateCompanies` computes them again from the permits, by name. Awards are
linked again by name whatever the role of the row is. A rollback fails when a
foreign key would point at a row that is not there, be it of a row that still
refers to the inserted one or of a snapshot it restores.

### GoogleEnrichment

A run ages companies in its own transaction, picks a batch, looks each company
up, and commits all of it at the end. It holds the rows as it loaded them and
writes what differs. `fetch_reserved_place_ids` does not see the places the
batch itself has given away, because the session does not flush; the unique
index sees them at the commit (`CommitFails`). That two companies never share a
place is the index and nothing else, so no property says it. What overlapping
runs could break is the pair of status and place: each run writes the columns
that differ from the row it loaded, and `EnrichedPlacesWereAccepted` says that
the status of one is never left beside the place another has read.

### ClaimLedger

A fact stands for a claim and its idempotency key. A call takes its stamp
before its transaction begins (`submit_claim`, `record_event`), and
`CommitClaim`, `LockParent` and `CommitEvent` come later, on any day.
`resolve` is translated with its two time axes: what was known by a time, what
was effective by a time, adjudication before precedence of the source before
recency. One clock is assumed for all gateway processes.

### TenderMarket

An import commits its upsert, its count of absences and its closing dates one
after the other and may break off in between. The resolver and the reconciler
load all rows and flush the columns they changed. `absent` and `reason` are
history: which tenders may leave the market at all. Closed and delisted tenders
are never opened again by these jobs, in the code as in the model.

### PermitIdentity

A legacy key is the class of the official numbers that begin with it. The
identity-aware import plans, plans again and compares digests, then for each
number looks the official number up, looks the key up, and updates by id or
inserts, each a statement of its own; the counts are compared before the
commit. The scheduler plans again from the list it has (`"planned"`); the
operator's script applies a dry run that was reviewed (`"dryrun"`), and fetches
the city's list again for it, which may be another (`RefusedOver`, `drifted`).
The bridge fetches again too, and then writes with a guarded UPDATE. The manual import
deletes and commits first when it is a full refresh. A statement waits for
rows and index entries that others have not committed (`Locked`,
`CollidesUncommitted`).

## 3. Runs

| Run | Instance | Shows |
|---|---|---|
| `run_safety` | 2 runs, 2 workers, 2 steps, lease 2, 2 attempts; about 370,000 states | ownership, gating, leases, and that the coordinator implements `ExclusiveRun` |
| `run_liveness` | 2 runs, 2 workers, 1 step, lease 1 | a dead run does not block the next one |
| `run_idempotent` | 2 runs, 2 workers | finding 1 |
| `pipeline_safety` | 2 runs, 2 workers, 2 steps, lease 1, 1 attempt; 1,478,705 states | overlapping programs that fail and die |
| `pipeline_liveness` | 2 runs, 2 workers, 1 step, lease 1, 2 attempts; 272,881 states | every request ends |
| `pipeline_success_final`, `pipeline_partial` | as `pipeline_safety` | findings 2 and 3 |
| `companies_safety` | the four services below; 974,568 states, 1.5 minutes on two cores | one property or more of each |
| `enrichment_liveness` | 2 jobs, 2 callers, 1 provider | a stale job goes |
| `enrichment_heals` | 2 jobs, 2 callers, 1 provider | finding 4 |
| `services_safety` | the six services below; 873,482 states, 1 minute on two cores | one property or more of each |
| `google_logged` | as the google part | finding 5 |

`services_safety` checks the services that share no table in one run, and
`companies_safety` those of companies: the initial state chooses the part that
moves, so the states are the sum of the parts and not their product.

| Part | Instance | States | Properties |
|---|---|---|---|
| `services_safety`: | | 873,482 | |
| legacy | 2 threads, 2 runs, 2 scrapers, 2 pids, 2 programs started | 285,570 | `RecordedStepsWereRun`, `GatedImportFollowsScrapes`, `RecordedSuccessWasImported` |
| steps | 2 requests, 1 step, 1 chosen run_id and generated ones, 3 rows | 184,303 | `RetryFindsTheRunInFlight`, `StepOutcomeIsFinal` |
| jobs | 2 jobs, 2 run_ids, lease 1, 2 phases, time to 2 | 58,819 | `OneNarratorPerRun`, `OutcomeMatchesTimeline` |
| matches | 2 scorers, 1 company of each kind, 1 tender and the marker, 2 revisions | 117,417 | `ConstructionScoresAddUp`, `PrescoredOnce` |
| market | 1 tender, 2 jobs, 3 jobs started, 1 deadline, 2 days | 61,627 | `LeavesTheMarketForAReason` |
| permits | 3 numbers, two of them with one key, 2 importers, 4 rows, 2 sources | 165,746 | `RefusedForAReason`, `OfficialNumbersStay` |
| `companies_safety`: | | 974,568 | |
| enrichment | 2 jobs, 3 callers, 2 providers, lease 1 | 364,059 | `OneRunningJob`, `OneWorkerPerJob`, `ReportIsPersisted`, `OutcomeIsFinal`, `LiveJobIsLeftAlone` |
| merges | 5 companies in overlapping groups, 1 permit, 1 award, 2 outcomes, 2 merges | 428,505 | `RollbackRestoresTheTables`, `MergesTakeReferencesAlong`, `ImportLinksToNoAlias` |
| google | 2 companies, 2 places, 2 runs, batch 2 | 137,344 | `EnrichedPlacesWereAccepted`, `ReviewIsQueued` |
| claims | 3 facts in 2 scopes, one strong, 2 clients, 2 calls, clock to 1 | 44,660 | `LedgerIsWellFormed`, `SettledBeliefsStay`, `AdjudicationStands` |

Why these bounds are enough. Two runs are an owner and a rival; a run_id is used
once, so a third would repeat the roles of the first. Two workers give every
race between two transactions, and in the enrichment a third caller is there
because a reclaim needs a dead worker, the reclaimer and a second reclaimer. Two
steps tell "some" from "all". A lease of 1 or 2 ticks is live and expired (with
2, also renewed from the middle). `MaxAttempts` is 3 in the code; 2 has both a
retry and a last attempt. When run_ids are used up, requests can only be
resumed, joined or refused. The proofs do not depend on any of these.

In the services two actors give every race of two transactions. The other
bounds end behaviours and are reached: three rows are a run, its retry and a
synchronous one; two merges are the one rolled back and the one in between;
three jobs of the market are an import, a job that overlaps it and one that
follows; two sources are two overlapping imports of any kinds, and what a script
fetches again is not counted. Of the three permit numbers two share a key and
one does not, so that a row could get a number of another key. One
tracked tender is enough because the jobs treat rows alike, and the fact that an
import listed *something else* is a choice of the import. The permits were also
run with three sources, which are two overlapping imports and a manual scrape,
and two numbers, with one key (106,817 states) or two (255,642 states). Both
runs have `CHECK_DEADLOCK FALSE`, because services rest when nobody asks and the
bounds end.

Symmetry is used for the safety runs only, over sets that the specifications do
not tell apart. In `services_safety` and `companies_safety` the parts share
their model values, so that one set of permutations serves all. Of the three
callers of the enrichment two are permuted, because these two are also the
clients and the companies that Google is asked about.

### Fairness

- `run_liveness`: time passes; an open transaction goes on or is rolled back
  (weak fairness per worker); the scheduler's own statements are strongly fair,
  because PostgreSQL queues the waiters of a row lock, so one that waits again
  and again is served. The scheduler is the cron job, which asks every day. The
  premise of `DeadRunBlocksNobody` is a rival that has stopped renewing: a rival
  that keeps going owns the scope for good, as it should.
- `pipeline_liveness`: strong fairness of each worker's steps for the same
  reason, and because scrapers and imports carry network and statement time
  limits. Nothing is assumed of time or of new requests. In this run the
  scheduler asks for one run and the other worker for the other, to keep the
  graph small.
- `enrichment_liveness`: requests keep coming, some are served, time passes,
  cached fields grow old, and a background task goes on or dies. No caller is
  assumed to survive.

The services have safety properties only. What they would have to do in the end
the code leaves to the next request or the next day, and a crash leaves step
rows running for good.

### Findings

1. `BeginIsIdempotent`. Two overlapping `begin_run` calls of one run_id: the
   second may be told that the run_id "already exists" although its run is
   live, where the docstring promises to resume it.
2. `SuccessIsFinal`. `finish_run` does not go through `_mutate_locked_run`. A
   second pipeline of the same run_id ends in its except clause and overwrites
   the success recorded by the first.
3. `PartialFailureIsImported`. The pipeline's comment says a partly failed
   scrape is imported; the PostgreSQL coordinator's `begin_import` refuses it.
4. `NextRequestHeals`. The comment says the next request for a company
   recovers its dead job; a fresh cache answers that request first.
5. `EveryAttemptIsLogged`. `GOOGLE_ENRICHMENT_SERVICE.md` wants a log row of
   every attempt. A lookup whose answer the state machine refuses (a company
   without a match that is answered with a review) raises, the run ends before
   its only commit, and all its logs go with it. So they do when a batch gives
   one place to two companies and the unique index refuses the commit.

Some properties carry an exception because the code behaves so. They are told
at the property and here.

- A late look-up may start a step twice (`RetryFindsTheRunInFlight`), and a
  bridged permit may be linked to an alias (`ImportLinksToNoAlias`). No line of
  the repository says otherwise.
- A pipeline whose `begin_full_scrape`, or whose `finish_run` in the except
  clause, meets a database failure leaves its run alive until the lease is over
  (`EndedPipelineFreesTheScope`, `tender_data_pipeline.py:631` and `:724`).
- A rollback of the bridge leaves the recomputed aggregates
  (`RollbackRestoresTheTables`, `company_canonical_merge.py:914-925`), though
  its docstring promises the rows.
- An import during which another importer commits may put another number of the
  same key on a row (`OfficialNumbersStay`): it finds the row by its key, waits,
  and updates by id alone.
- The plan of the Surrey import does not see two numbers of a source that share
  a key, or a row that a manual scrape put in under a full number, so that the
  import is rolled back each time it meets one (`RefusedForAReason`). The
  docstring of `surrey_identity_import_canary.py:5-9` says that the plan models
  the full three-tier decision tree of the import, which it does not in these
  two cases. A plan is refused, besides, when other rows were committed since,
  and when the list fetched again is another: both are meant.

## 4. Proofs

Every safety property of the passing runs is a theorem but one,
`ImportLinksToNoAlias`. The proofs hold for any sets of runs, workers, steps,
callers, requests, facts, clients, companies, tenders, permits and jobs (finite
or not), any positive lease, any number of attempts and any bound in the guards.
The assumptions are the named `ASSUME`s of the modules and nothing else: NULL and
the other special values are none of the things they stand beside, sets that
the database keeps apart are disjoint, and numbers are numbers. TLC evaluates
each of them for its run.

The proof modules follow one plan: a type invariant, an inductive invariant, a
lemma that each step preserves them with one case per action, and the
properties from it. A run of TLC has checked each inductive invariant before it
was proved.

| Module | About | Properties proved |
|---|---|---|
| `RunCoordinator_proofs` | `RunCoordinator`, `ExclusiveRun` | `TypeOK`, `OneActiveRun`, `ImportAfterScrape`, `ReclaimIsExclusive`, `LiveRunNeverReclaimed`, `ExpiredLeaseStaysExpired`, `RetiredRunKeepsProgress`, `KeepsPromise` |
| `TenderPipeline_proofs` | `TenderPipeline` | `PipelineTypeOK`, `ImportsOnlyScrapedRuns`, `EndedPipelineFreesTheScope`, `SuccessMeansImported` |
| `EnrichmentJobs_proofs` | `EnrichmentJobs` | `TypeOK`, `OneRunningJob`, `OneWorkerPerJob`, `ReportIsPersisted`, `OutcomeIsFinal`, `LiveJobIsLeftAlone` |
| `RunHistory_proofs` | `StepTracking`, `JobRun`, `LegacyCoordinator` | `RetryFindsTheRunInFlight`, `StepOutcomeIsFinal`, `OneNarratorPerRun`, `OutcomeMatchesTimeline`, `RecordedStepsWereRun`, `GatedImportFollowsScrapes`, `RecordedSuccessWasImported` |
| `CompanyFacts_proofs` | `ClaimLedger`, `GoogleEnrichment`, `CompanyMerge` | `LedgerIsWellFormed`, `SettledBeliefsStay`, `AdjudicationStands`, `EnrichedPlacesWereAccepted`, `ReviewIsQueued`, `RollbackRestoresTheTables`, `MergesTakeReferencesAlong` |
| `Tenders_proofs` | `TenderMarket`, `MatchCache` | `LeavesTheMarketForAReason`, `ConstructionScoresAddUp`, `PrescoredOnce` |
| `PermitIdentity_proofs` | `PermitIdentity` | `RefusedForAReason`, `OfficialNumbersStay` |
| `Services_proofs` | `MCServices` | `ServicesTypeOK` |

### The coordinator and its callers

`OneActiveRun` is not inductive alone: an insert commits a new active row while
it reclaims the row its transaction holds, and one must know that the held row
is the only other active one. The unique index says so for the rows not held,
and `ReclaimIsExclusive` says that nobody else holds it, or has revived or
finished it since the scan.

`KeepsPromise` is the refinement of `ExclusiveRun`. The mapping reads the
owner, its liveness and the used, scraped and imported runs off the table.
Every action is one of a few kinds of step: it claims the scope, releases it,
lets it lapse or changes nothing the promise speaks of, scrapes, or imports;
there is one lemma for each kind.

The programs of `TenderPipeline` remember nothing of the row, so the argument
is about what a row cannot lose (`Lasting`): a scraped run stays scraped, an
imported one imported, a dead one dead. The invariant adds `WorkersFit`, which
ties each position of a program to what its last successful call made true, and
part of `Lasting` comes from the refinement. A failure of the database changes
no row, so it only moves the program; the positions from which nothing handles
it lead to `"unhandled"`, of which the invariant says nothing.

For the JSON backend (`LegacyInvariant`) the file is no basis for anything: it
is overwritten, truncated and recreated by threads that read it before. What
makes it honest is that the history it speaks of only grows. So
`StatesAreHonest` says of the file *and of what every thread still holds to
save* that its steps were run and its successes imported, and `ThreadFits` ties
a program's position to what it has run itself. The invariant does not mention
the PID file, which two children may hold at once.

### Jobs and steps

`OneWorkerPerJob` needs that every job worked on has a row, so that an insert
cannot draw its run_id; `ReportIsPersisted` needs that a terminal status never
changes. The step tracking's invariant is that a running row belongs to one
worker at most and that what a look-up found not running never runs again. A
job that narrates has its row to itself: the unique index refuses every other
start, a start whose answer was lost leaves its job silent, and only the
narrator finishes the row. So what it remembers of its failed phases
(`NarratorsRemember`) cannot fall behind the timeline, though a call may commit
and not answer, and the outcome it derives at the end agrees with it.

### What is known of a company

The ledger's strengthening is `AcceptedEvents`: what the gateway checked under
the lock of the parent claim holds until it inserts the event, because claims
are never removed. `AdjudicationStands` compares the belief before and after a
step: a claim or another event adds no adjudication, so the latest of them is
the one it was, and a new one takes over only if none in force was made later.

In `GoogleEnrichment` a run writes, minutes later, what differs from the rows it
read. `BatchInHand` says that a status that differs from the one it read is the
one it sent the company to, and only that: a row whose status it leaves alone
may carry anything another run committed since. `ReviewIsQueued` follows,
because whoever writes the status has put in the review.
`EnrichedPlacesWereAccepted` takes more: a run that makes a company enriched
from another status has accepted a place, which it writes unless it had read
the same place; then, and when it leaves the status alone, one has to know what
the row carries by now. That is `ReplacedByAccepted`: a place other than the one a run
has read was accepted for the company since, by a run that has committed.

A merge's snapshots are good for a rollback because of `SnapshotsCover`: between
the tables a run found and those it left nothing differs but what it has a
snapshot of, the row it inserted and its own aliases. It holds of every run on
record, whatever has become of the tables since, so it says what a rollback does
when the tables are again as the run left them (`RollbackRestoresTheTables`). It
takes besides that no row but the inserted one is ever missing, or a rollback
would pass over a row it has a snapshot of. The aggregates are outside of it, and
the theorem says that they stay as they are. `MergesTakeReferencesAlong` is from
the remap alone: an outcome that is left at an alias has one at the canonical
row, either before or because it was itself the one that moved.

### Tenders and permits

In `TenderMarket` every job writes from rows it loaded before the others wrote.
`NothingReturns` is why it may: no row goes, none is opened again, and a reason
is never taken back. `LoadFits` carries what a job read of a row, and what it is
going to close it for, over the commits in between.

In `MatchCache` rows are written and never deleted, so the prescore's list and
what it is through with stay disjoint (`ScorerFits`). The sums hold because the
batch, which writes scores without a breakdown, holds no construction company.

`PermitIdentity` has the largest invariant, because it relates three views of a
table: what is committed, what each importer has written over it and not
committed (`OwnFits`, the view `Over(mine, rows)`), and what it has found and
planned. The unique indexes hold in every view, and two importers write
different rows under different identities (`Apart`), which is what the row locks
and the waiting for uncommitted index entries come to. A found row need not be
there any more when it is written: `FoundFits` is what remains true of it. As
long as nobody else has committed more remains (`PlanHolds`, `FoundHolds`,
`ImportHolds`, `BridgeHolds`): the plan made is the plan carried out, unless it
was refused over another list of the city, which is `RefusedForAReason`. For
`OfficialNumbersStay` one needs what an undisturbed import has found: a row it
found by the number has it still, one it found by the key has none, and so its
commit changes no number; the bridge writes where there is none in any case.

`Services_proofs` shows that the run over the six services is a run of each of
them, so that what is proved of a service alone holds in what TLC explores, and
puts their type invariants together.

### Only model-checked

- Liveness: `DeadRunBlocksNobody`, `EveryRequestEnds`, `StaleJobGoes`. Fairness
  and ENABLED are out of the prover's reach.
- `ImportLinksToNoAlias`. It is no theorem: it depends on which rows the groups
  share and which of them permits refer to, and the model leaves the second
  open (any of the companies alike may be a member of a merge). For a group of
  four companies alike and three merges that are rolled back in another order
  the snapshots can restore two rows as aliases of each other, and for a row in
  two groups the second link may lead to an alias. In the run the groups meet in
  `NamedRow`; with three merges instead of two it holds there as well
  (5,112,113 states).
- That the violated properties are violated, which their runs show.

The other way round, `PipelineTypeOK`, the `TypeOK` of `EnrichmentJobs`,
`MergeTypeOK`, `GoogleTypeOK` and the types in `LedgerInv` are in no run: they
are left to the proofs.

## 5. Not modelled, and why

- Scrapers, parsing, scoring formulas, prompts, ranking, intelligence reports,
  read models, pages, plans, mail: computation over data that nobody writes at
  the same time, by far the larger part of the code. A model of them would be a
  second copy of their arithmetic and their texts.
- The website-contact worker: a stateless HTTP service, a provider of
  `EnrichmentJobs`.
- Deadline alerts keep no state; what was sent is not recorded.
- The status rules of permits and companies, row by row and pure; evidence and
  registry matching in the registry engine; the grading of a belief as disputed
  or stale.
- Applicant recovery, and the canary's slice of a Surrey import: the protocol
  of the bridge and of the import once more.
- Migrations and one-shot scripts; database start-up and its retries. The
  indexes they create are part of the modules.
- The operator's `lifecycle_status_override`, and the rule by which an award
  matches a tender: the first is set by hand only, the second is left open.
- Clock skew between processes and the database. The models have one clock.
- PostgreSQL deadlock detection: seen by the program as an exception, which is
  `Crash` in `RunCoordinator` and `ImporterEnds` in `PermitIdentity`.
- The `error` texts, `updated_at`, and the order of time stamps that no guard
  compares.
- Two imports that overlap physically because one outlived its lease, and the
  CSV files they share: the coordinator does not see them.
- Provider threads that outlive their timeout, and the connection pool.
- `verified` fields: nothing in the repository sets them, so the guard in
  `write_enrichment_facts` has no reachable effect. The facts of one provider
  are one unit.

## 6. Plan

Done: the components of section 1 with a module, the refinement of
`ExclusiveRun` and its proof, and the safety properties of all modules as
theorems, with the exception named in section 4.

Next, in this order:

1. What each service promises apart from how, as an abstract specification of
   the enrichment's and the ledger's own, and the refinements as theorems.
2. Which companies permits refer to, as a condition on the members of a merge in
   `CompanyMerge`, and `ImportLinksToNoAlias` under it.
3. The CSV files and the physical overlap of imports, over `TenderPipeline`.
