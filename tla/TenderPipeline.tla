---------------------------- MODULE TenderPipeline ----------------------------
(***************************************************************************)
(* The programs that use the coordinator, running concurrently:            *)
(*  - run_tender_data_pipeline of src/pipeline/tender_data_pipeline.py, in *)
(*    the scheduler's child process or in POST /internal/pipeline/...;     *)
(*  - the n8n step workers of src/pipeline/internal_steps.py, started by   *)
(*    src/api/internal.py: one tender scraper each, or the gated import.   *)
(* A worker is one such execution; it ends, or dies at any point, and then *)
(* may serve another request.  Scrapers and imports may fail at any time.  *)
(* TENDER_SCRAPER_RUNNERS run one after another; their order is left open. *)
(***************************************************************************)
EXTENDS RunCoordinator

VARIABLES
  pc,        \* where each worker's program is
  job,       \* what each worker was asked to do, and what failed so far
  latest     \* the run with the highest id (_latest_row_for_scope)

progVars == <<pc, job, latest>>
allVars  == <<vars, progVars>>

Job == [run    : RunIds \cup {NoRun},
        todo   : SUBSET Steps,       \* scrapers still to run
        failed : SUBSET Steps]       \* scrapers that failed

NoJob == [run |-> NoRun, todo |-> {}, failed |-> {}]

\* A pipeline that had begun its run returned or raised, or the database failed
\* in a call whose error nothing handles; anything else ended.
Ends == {"returned", "raised", "unhandled", "ended"}

Labels == Ends \cup
  {"begin", "full", "scrape", "steps", "aux", "import", "importing", "imported",
   "cleanup",                                               \* the pipeline
   "ensure", "create", "created", "ready", "marking",       \* a scrape step
   "resolve", "gate", "loading"}                            \* the gated import

PipelineInit ==
  /\ Init
  /\ pc = [w \in Workers |-> "ended"]
  /\ job = [w \in Workers |-> NoJob]
  /\ latest = NoRun

Goto(w, to) ==
  /\ pc' = [pc EXCEPT ![w] = to]
  /\ job' = IF to = "ended" THEN [job EXCEPT ![w] = NoJob] ELSE job

run(w) == job[w].run

\* The coordinator refuses a mutating call of w for its run: it raises.
Refused(w, Ready) ==
  \/ RefuseRetired(w, run(w))
  \/ ReclaimOnCallback(w, run(w))
  \/ RefuseEarly(w, run(w), Ready)

\* The call raises: it is refused, or the database fails and rolls it back.
Raises(w, Ready) == Refused(w, Ready) \/ UNCHANGED vars

Started(w, q, steps, to) ==
  /\ pc[w] \in Ends
  /\ pc' = [pc EXCEPT ![w] = to]
  /\ job' = [job EXCEPT ![w] = [run |-> q, todo |-> steps, failed |-> {}]]
  /\ UNCHANGED <<vars, latest>>

(***************************************************************************)
(*                       begin_run, statement by statement                 *)
(***************************************************************************)
\* The row that this step inserts becomes the latest one.
Latest ==
  latest' = IF \E r \in RunIds : runs[r].status = "absent"
                              /\ runs'[r].status # "absent"
            THEN CHOOSE r \in RunIds : runs[r].status = "absent"
                                    /\ runs'[r].status # "absent"
            ELSE latest

\* begin_run(run(w)), called at from, returns to next or raises to error.
BeginRun(w, from, next, error) ==
  /\ pc[w] = from
  /\ \/ (BeginResume(w, run(w)) \/ BeginInsert(w)) /\ Goto(w, next)
     \/ (BeginConflict(w, run(w)) \/ BeginReused(w)) /\ Goto(w, error)
     \/ BeginCollides(w) /\ Goto(w, IF txn'[w] = Idle THEN error ELSE from)
     \/ /\ BeginScan(w, run(w)) \/ BeginWaits(w, run(w)) \/ BeginMissed(w)
           \/ BeginUnused(w)
        /\ Goto(w, from)
  /\ Latest

(***************************************************************************)
(*                         run_tender_data_pipeline                        *)
(***************************************************************************)
StartPipeline(w, r) == Started(w, r, Steps, "begin")

\* Outside the try: an error here leaves the run as it is, which is no longer
\* live if the coordinator refused the call, and still is if the database failed.
BeginFullScrape(w) ==
  /\ pc[w] = "full"
  /\ \/ begin_full_scrape(w, run(w)) /\ Goto(w, "scrape")
     \/ Refused(w, TRUE) /\ Goto(w, "raised")
     \/ UNCHANGED vars /\ Goto(w, "unhandled")
  /\ UNCHANGED latest

BeginTenderScrape(w) ==
  /\ pc[w] = "scrape"
  /\ \/ begin_tender_scrape(w, run(w)) /\ Goto(w, "steps")
     \/ Raises(w, TRUE) /\ Goto(w, "cleanup")
  /\ UNCHANGED latest

\* One scraper: it fails, or marking its step fails, or the step is marked.
RunScraper(w) ==
  /\ pc[w] = "steps"
  /\ \E step \in job[w].todo :
       \/ /\ mark_tender_scrape_step(w, run(w), step)
          /\ job' = [job EXCEPT ![w].todo = @ \ {step}]
       \/ /\ Raises(w, TRUE)
          /\ job' = [job EXCEPT ![w].todo = @ \ {step},
                                ![w].failed = @ \cup {step}]
  /\ UNCHANGED <<pc, latest>>

\* All scrapers ran: status "success", "failed" or "partial_failure".
ScrapersDone(w) ==
  /\ pc[w] = "steps" /\ job[w].todo = {}
  /\ \/ /\ job[w].failed = {}
        /\ \/ complete_tender_scrape(w, run(w)) /\ Goto(w, "aux")
           \/ Raises(w, completed[run(w)] = Steps) /\ Goto(w, "cleanup")
     \/ /\ job[w].failed # {} /\ UNCHANGED vars
        /\ Goto(w, IF job[w].failed = Steps THEN "cleanup" ELSE "aux")
  /\ UNCHANGED latest

\* The best-effort auxiliary scrapers, then complete_full_scrape.
CompleteFullScrape(w) ==
  /\ pc[w] = "aux"
  /\ \/ complete_full_scrape(w, run(w)) /\ Goto(w, "import")
     \/ Raises(w, TRUE) /\ Goto(w, "cleanup")
  /\ UNCHANGED latest

\* The check of the CSV files, which may fail, then begin_import.
BeginImport(w) ==
  /\ pc[w] = "import"
  /\ \/ begin_import(w, run(w)) /\ Goto(w, "importing")
     \/ Raises(w, ReadyForImport(run(w))) /\ Goto(w, "cleanup")
  /\ UNCHANGED latest

\* Bug: the error of complete_import is swallowed.
CompleteImportQuietly(w) ==
  /\ pc[w] = "importing"
  /\ \/ (complete_import(w, run(w)) \/ Refused(w, TRUE)) /\ Goto(w, "imported")
     \/ UNCHANGED vars /\ Goto(w, "cleanup")
  /\ UNCHANGED latest

\* The import, which may fail, then complete_import.
CompleteImport(w) ==
  /\ pc[w] = "importing"
  /\ \/ complete_import(w, run(w)) /\ Goto(w, "imported")
     \/ Raises(w, TRUE) /\ Goto(w, "cleanup")
  /\ UNCHANGED latest

\* The check of the database counts, which may fail, then finish_run(True).
FinishSuccess(w) ==
  /\ pc[w] = "imported"
  /\ \/ finish_run(w, run(w), "true") /\ Goto(w, "returned")
     \/ UNCHANGED vars /\ Goto(w, "cleanup")
  /\ UNCHANGED latest

\* Bug: the error goes on and the run is left as it is.
RaiseOnly(w) ==
  /\ pc[w] = "cleanup"
  /\ UNCHANGED vars /\ Goto(w, "raised")
  /\ UNCHANGED latest

\* The except clause: finish_run(False), which the database may fail, and the
\* error goes on.
FinishFailure(w) ==
  /\ pc[w] = "cleanup"
  /\ \/ finish_run(w, run(w), "false") /\ Goto(w, "raised")
     \/ UNCHANGED vars /\ Goto(w, "unhandled")
  /\ UNCHANGED latest

(***************************************************************************)
(*                             n8n step workers                            *)
(***************************************************************************)
StartScrapeStep(w, r, step) == Started(w, r, {step}, "ensure")

\* ensure_run_started: begin_run unless the latest run is this one.
EnsureRunStarted(w) ==
  /\ pc[w] = "ensure"
  /\ Goto(w, IF latest = run(w) THEN "ready" ELSE "create")
  /\ UNCHANGED <<vars, latest>>

\* The begin_tender_scrape of ensure_run_started, and that of the worker.
StepBegins(w, from, to) ==
  /\ pc[w] = from
  /\ \/ begin_tender_scrape(w, run(w)) /\ Goto(w, to)
     \/ Refused(w, TRUE) /\ Goto(w, "ended")
  /\ UNCHANGED latest

\* The scraper fails, or marking its step fails, or the step is marked.
StepMarks(w) ==
  /\ pc[w] = "marking" /\ Goto(w, "ended")
  /\ \/ \E step \in job[w].todo : mark_tender_scrape_step(w, run(w), step)
     \/ Raises(w, TRUE)
  /\ UNCHANGED latest

\* POST /internal/import: _resolve_import_run_id first checks the run asked
\* for, or the latest one, without a lock; 409 if it is not ready.
StartImportStep(w, q) ==
  /\ \E r \in RunIds : r = (IF q = NoRun THEN latest ELSE q) /\ ReadyForImport(r)
  /\ Started(w, q, {}, "resolve")

\* With no run_id given it reads the latest run again; then the worker checks
\* once more, and may find the run no longer the one checked before.
ResolveImportRun(w) ==
  LET r == IF run(w) = NoRun THEN latest ELSE run(w)
      ready == r # NoRun /\ ReadyForImport(r)
  IN  /\ pc[w] = "resolve"
      /\ \/ /\ ready
            /\ pc' = [pc EXCEPT ![w] = "gate"]
            /\ job' = [job EXCEPT ![w].run = r]
         \/ ~ready /\ Goto(w, "ended")
      /\ UNCHANGED <<vars, latest>>

GatedBeginImport(w) ==
  /\ pc[w] = "gate"
  /\ \/ begin_import(w, run(w)) /\ Goto(w, "loading")
     \/ Refused(w, ReadyForImport(run(w))) /\ Goto(w, "ended")
  /\ UNCHANGED latest

\* The finally clause: complete_import after the import, failed or not.
GatedCompleteImport(w) ==
  /\ pc[w] = "loading" /\ Goto(w, "ended")
  /\ complete_import(w, run(w)) \/ Refused(w, TRUE)
  /\ UNCHANGED latest

(***************************************************************************)
(*                             The whole system                            *)
(***************************************************************************)
\* The process is killed, between two statements or inside a transaction.  An
\* error of the database in begin_run or in an n8n step's call, which nothing
\* handles either, ends the request the same way.
Die(w) ==
  /\ pc[w] \notin Ends
  /\ Goto(w, "ended")
  /\ txn' = [txn EXCEPT ![w] = Idle]
  /\ UNCHANGED <<runs, completed, latest>>

PipelineStep(w) ==
  \/ BeginRun(w, "begin", "full", "ended")
  \/ BeginFullScrape(w) \/ BeginTenderScrape(w) \/ RunScraper(w)
  \/ ScrapersDone(w) \/ CompleteFullScrape(w) \/ BeginImport(w)
  \/ CompleteImport(w) \/ FinishSuccess(w) \/ FinishFailure(w)

N8nStep(w) ==
  \/ EnsureRunStarted(w) \/ BeginRun(w, "create", "created", "ended")
  \/ StepBegins(w, "created", "ready") \/ StepBegins(w, "ready", "marking")
  \/ StepMarks(w)
  \/ ResolveImportRun(w) \/ GatedBeginImport(w) \/ GatedCompleteImport(w)

Step(w) == PipelineStep(w) \/ N8nStep(w)

Request(w) ==
  \/ \E r \in RunIds : StartPipeline(w, r)
  \/ \E r \in RunIds, step \in Steps : StartScrapeStep(w, r, step)
  \/ \E q \in RunIds \cup {NoRun} : StartImportStep(w, q)

PipelineNext ==
  \/ \E w \in Workers : Request(w) \/ Step(w) \/ Die(w)
  \/ Tick /\ UNCHANGED progVars
  \/ \E w \in Workers : pc[w] \in Ends /\ reap_stale_run(w) /\ UNCHANGED progVars

PipelineSpec == PipelineInit /\ [][PipelineNext]_allVars

(***************************************************************************)
(*                                Properties                               *)
(***************************************************************************)
PipelineTypeOK ==
  /\ TypeOK
  /\ pc \in [Workers -> Labels]
  /\ job \in [Workers -> Job]
  /\ latest \in RunIds \cup {NoRun}

\* Whoever imports, from the pipeline or from n8n and however stale the checks
\* made on the way there, imports for a run whose scrapers have all finished.
ImportsOnlyScrapedRuns ==
  \A w \in Workers : pc[w] \in {"importing", "loading"} => ReadyForImport(run(w))

\* A pipeline that returns or raises never leaves its run active with a live
\* lease, where it would block other runs for a whole lease: every path to an
\* end either finishes the run or was refused because the run was not live.
\* Two ends are excepted, "unhandled": the database fails in begin_full_scrape,
\* which is outside the try, or in the finish_run of the except clause.
EndedPipelineFreesTheScope ==
  \A w \in Workers : pc[w] \in {"returned", "raised"} => ~Live(run(w))

\* A run recorded as successful was imported completely, after its scrapes.
SuccessMeansImported ==
  \A r \in RunIds : runs[r].success = "true" =>
    runs[r].importing /\ runs[r].imported /\ ReadyForImport(r)

\* Every request that is served ends, though workers wait for each other's
\* row locks and retry their inserts.
EveryRequestEnds == \A w \in Workers : pc[w] \notin Ends ~> pc[w] \in Ends

\* A worker that is not killed goes on: PostgreSQL queues those who wait for a
\* row lock, and every statement, scraper and import returns or times out.
FairSteps == \A w \in Workers : SF_allVars(Step(w))

\* "A late worker never mutates an old/stale/finished run" (docstring of
\* _mutate_locked_run): a run that finished successfully stays so.
SuccessIsFinal ==
  [][\A r \in RunIds : runs[r].success = "true" => runs'[r].success = "true"]_allVars

\* "A partial_failure (some but not all steps succeeded) now proceeds: [...]
\* every independently-successful source is verified and imported normally"
\* (comment in run_tender_data_pipeline): its import is not refused while its
\* run is live.
PartialFailureIsImported ==
  [][\A w \in Workers :
       /\ pc[w] = "import" /\ job[w].failed # {} /\ Live(run(w))
       /\ RefuseEarly(w, run(w), ReadyForImport(run(w)))
       => pc'[w] # "cleanup"]_allVars
===============================================================================
