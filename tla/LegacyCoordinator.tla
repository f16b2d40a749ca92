--------------------------- MODULE LegacyCoordinator ---------------------------
(***************************************************************************)
(* The default coordinator backend (src/pipeline/run_coordinator_legacy.py)*)
(* under everything that uses it: a JSON file that the threads of the web  *)
(* process and the pipeline's child processes read and rewrite, each       *)
(* process under a threading.Lock of its own; and the PID file that is to  *)
(* keep children apart (src/pipeline/lock.py, src/run_pipeline.py).        *)
(*                                                                         *)
(* A file operation is three steps of its thread: decide on what the file  *)
(* holds, truncate it, write it.  Other processes move in between, and a   *)
(* process may die in between.                                             *)
(* RunState's phase and time stamps decide nothing and are left out, but   *)
(* for tender_scrape_finished_at, which assert_ready_for_import reads.     *)
(***************************************************************************)
EXTENDS Naturals, FiniteSets

CONSTANTS
  Threads,    \* threads of the web process, and pipeline children
  LegacyRuns, \* run_ids
  Scrapers,   \* TENDER_SCRAPE_STEPS
  Pids,       \* process ids of children; the system reuses them
  MaxStarts,  \* bound: programs started, for TLC
  Null,       \* None
  Empty,      \* the content of a truncated file
  Garbled     \* the content of a file written by two processes at once

VARIABLES
  file,       \* the JSON file: Null, Empty, Garbled or a RunState
  pidfile,    \* the PID file: Null or a pid
  pid,        \* the pid of each child; "web" for a thread of the web process
  at,         \* where each thread's program is
  work,       \* what it works on: run, scrapers to do, scrapers that failed
  saving,     \* the state it is about to write, while it holds its _LOCK
  cut,        \* it has truncated the file and not yet written
  starts,     \* programs started so far
  ran,        \* history: the scrapers that came to their end, for each run
  imported    \* history: the runs whose import came to its end

legacyVars ==
  <<file, pidfile, pid, at, work, saving, cut, starts, ran, imported>>

RunState == [run : LegacyRuns, done : SUBSET Scrapers,
             closed : BOOLEAN, success : {"none", "yes", "no"}]

LegacyWork == [run : LegacyRuns, todo : SUBSET Scrapers, failed : SUBSET Scrapers]

ASSUME LegacyAssumption ==
  /\ {Null, Empty, Garbled} \cap RunState = {} /\ Null \notin LegacyWork
  /\ Null \notin Pids \cup {"web"} /\ "web" \notin Pids
  /\ MaxStarts \in Nat

\* Positions from which a program calls the coordinator.
Calls == {"begin", "full", "scrape", "mark", "close", "aux", "import", "stored",
          "finish", "cleanup",                    \* run_tender_data_pipeline
          "ensure", "create", "created", "ready", "markstep",  \* scrape worker
          "gate", "begin_import", "complete_import"}           \* gated import

Labels == Calls \cup {"ended", "acquire", "unlink", "write", "release", "steps",
                      "importing", "scraping", "loading"}

LegacyTypeOK ==
  /\ file \in RunState \cup {Null, Empty, Garbled}
  /\ pidfile \in Pids \cup {Null}
  /\ pid \in [Threads -> Pids \cup {"web", Null}]
  /\ at \in [Threads -> Labels]
  /\ work \in [Threads -> LegacyWork \cup {Null}]
  /\ saving \in [Threads -> RunState \cup {Null}]
  /\ cut \subseteq Threads
  /\ starts \in 0..MaxStarts
  /\ ran \in [LegacyRuns -> SUBSET Scrapers]
  /\ imported \subseteq LegacyRuns

LegacyInit ==
  /\ file = Null /\ pidfile = Null
  /\ pid \in [Threads -> {"web", Null}]
  /\ at = [t \in Threads |-> "ended"]
  /\ work = [t \in Threads |-> Null]
  /\ saving = [t \in Threads |-> Null]
  /\ cut = {} /\ starts = 0
  /\ ran = [r \in LegacyRuns |-> {}]
  /\ imported = {}

(***************************************************************************)
(*                       What each operation makes of the file             *)
(***************************************************************************)
Fresh(r) == [run |-> r, done |-> {}, closed |-> FALSE, success |-> "none"]

Mine(s, r) == s \in RunState /\ s.run = r

\* An operation answers with the state to save, or returns without one, or
\* raises: PipelineOrderError, or json's error for a file that is no JSON.
Save(s) == [answer |-> "save", state |-> s]
Return == [answer |-> "return", state |-> Null]
Raise == [answer |-> "raise", state |-> Null]

begin_run(r) == Save(Fresh(r))

\* Bug: the state of another run is taken over with the steps it recorded.
begin_scrape_inherits(s, r) ==
  Save(IF s \in RunState THEN [s EXCEPT !.run = r] ELSE Fresh(r))

\* begin_tender_scrape, begin_full_scrape: the state of another run is dropped.
begin_scrape(s, r) == Save(IF Mine(s, r) THEN s ELSE Fresh(r))

mark_tender_scrape_step(s, r, step) ==
  IF ~Mine(s, r) THEN Raise
  ELSE LET done == s.done \cup {step}
       IN  Save([s EXCEPT !.done = done, !.closed = @ \/ done = Scrapers])

complete_tender_scrape(s, r) ==
  IF Mine(s, r) /\ s.done = Scrapers THEN Save([s EXCEPT !.closed = TRUE])
                                     ELSE Raise

\* complete_full_scrape, begin_import, complete_import: stamps only.
stamp(s, r) == IF Mine(s, r) THEN Save(s) ELSE Raise

\* Bug: the steps are not looked at, only whose run it is.
assert_ready_unread(s, r) == IF Mine(s, r) THEN Return ELSE Raise

assert_ready_for_import(s, r) ==
  IF Mine(s, r) /\ s.done = Scrapers /\ s.closed THEN Return ELSE Raise

finish_run(s, r, success) ==
  IF Mine(s, r) THEN Save([s EXCEPT !.success = success]) ELSE Return

get_run_state == Return

\* The scraper that is run and marked next; in a fixed order.
Step(t) == CHOOSE s \in work[t].todo : TRUE

\* The answer that thread t gets from the file as it is.
Answer(t) ==
  LET r == work[t].run
  IN  IF at[t] \in {"begin", "create"} THEN begin_run(r)
      ELSE IF file \in {Empty, Garbled} THEN Raise
      ELSE CASE at[t] \in {"full", "scrape", "created", "ready"} -> begin_scrape(file, r)
             [] at[t] \in {"mark", "markstep"} -> mark_tender_scrape_step(file, r, Step(t))
             [] at[t] = "close" -> complete_tender_scrape(file, r)
             [] at[t] = "gate" -> assert_ready_for_import(file, r)
             [] at[t] = "finish" -> finish_run(file, r, "yes")
             [] at[t] = "cleanup" -> finish_run(file, r, "no")
             [] at[t] = "ensure" -> get_run_state
             [] OTHER -> stamp(file, r)

(***************************************************************************)
(*                     Where the programs go from there                    *)
(***************************************************************************)
\* A child releases the PID file at the end of its program, whatever happened.
End(t) == IF pid[t] = "web" THEN "ended" ELSE "release"

\* After a call that returned.
Next1(t) ==
  CASE at[t] = "begin" -> "full"      [] at[t] = "full" -> "scrape"
    [] at[t] = "scrape" -> "steps"    [] at[t] = "mark" -> "steps"
    [] at[t] = "close" -> "aux"       [] at[t] = "aux" -> "import"
    [] at[t] = "import" -> "importing" [] at[t] = "stored" -> "finish"
    [] at[t] = "ensure" -> IF Mine(file, work[t].run) THEN "ready" ELSE "create"
    [] at[t] = "create" -> "created"  [] at[t] = "created" -> "ready"
    [] at[t] = "ready" -> "scraping"  [] at[t] = "gate" -> "begin_import"
    [] at[t] = "begin_import" -> "loading"
    [] OTHER -> End(t)

\* After a call that raised: run_tender_scrapers counts a failed step, the try
\* of run_tender_data_pipeline finishes the run, anything else just ends.
Next2(t) ==
  CASE at[t] = "mark" -> "steps"
    [] at[t] \in {"scrape", "close", "aux", "import", "stored", "finish"} -> "cleanup"
    [] OTHER -> End(t)

WithoutStep(t, failed) ==
  [work[t] EXCEPT !.todo = @ \ {Step(t)},
                  !.failed = IF failed THEN @ \cup {Step(t)} ELSE @]

\* The work of t after a call that marked its step, or could not.
Marked(t, failed) == IF at[t] = "mark" THEN WithoutStep(t, failed) ELSE work[t]

Move(t, to, job) ==
  /\ at' = [at EXCEPT ![t] = to]
  /\ work' = [work EXCEPT ![t] = IF to = "ended" THEN Null ELSE job]

Goto(t, to) == Move(t, to, work[t])

\* _LOCK of t's process is free; children have one thread each.
LockFree(t) ==
  pid[t] = "web" => \A u \in Threads \ {t} : pid[u] = "web" => saving[u] = Null

(***************************************************************************)
(*                    One operation, in its three steps                    *)
(***************************************************************************)
Call(t) ==
  /\ at[t] \in Calls /\ saving[t] = Null /\ LockFree(t)
  /\ LET a == Answer(t) IN
       \/ /\ a.answer = "save"
          /\ saving' = [saving EXCEPT ![t] = a.state]
          /\ UNCHANGED <<at, work>>
       \/ /\ a.answer = "return"
          /\ Goto(t, Next1(t))
          /\ UNCHANGED saving
       \/ /\ a.answer = "raise"
          /\ Move(t, Next2(t), Marked(t, TRUE))
          /\ UNCHANGED saving
  /\ UNCHANGED <<file, pidfile, pid, cut, starts, ran, imported>>

Truncate(t) ==
  /\ saving[t] # Null /\ t \notin cut
  /\ file' = Empty
  /\ cut' = cut \cup {t}
  /\ UNCHANGED <<pidfile, pid, at, work, saving, starts, ran, imported>>

\* Over what another process wrote since, a shorter text leaves a tail of it.
Write(t) ==
  /\ t \in cut
  /\ file' \in IF file = Empty THEN {saving[t]} ELSE {saving[t], Garbled}
  /\ cut' = cut \ {t}
  /\ saving' = [saving EXCEPT ![t] = Null]
  /\ Move(t, Next1(t), Marked(t, FALSE))
  /\ UNCHANGED <<pidfile, pid, starts, ran, imported>>

(***************************************************************************)
(*                                The programs                             *)
(***************************************************************************)
Starts(t, r, todo, to) ==
  /\ at[t] = "ended" /\ starts < MaxStarts
  /\ starts' = starts + 1
  /\ Move(t, to, [run |-> r, todo |-> todo, failed |-> {}])
  /\ UNCHANGED <<file, pidfile, saving, cut, ran, imported>>

\* POST /api/pipeline/run and /internal/pipeline/...: no PID file.
StartInWeb(t, r) == pid[t] = "web" /\ Starts(t, r, Scrapers, "begin") /\ UNCHANGED pid

StartScrapeWorker(t, r, step) ==
  pid[t] = "web" /\ Starts(t, r, {step}, "ensure") /\ UNCHANGED pid

StartGatedImport(t, r) == pid[t] = "web" /\ Starts(t, r, {}, "gate") /\ UNCHANGED pid

\* run_pipeline.py, started by the scheduler or as the worker process.
StartChild(t, r) ==
  /\ pid[t] = Null
  /\ \E p \in Pids \ {pid[u] : u \in Threads} : pid' = [pid EXCEPT ![t] = p]
  /\ Starts(t, r, Scrapers, "acquire")

\* One scraper comes to its end, or fails.
RunScraper(t) ==
  \/ /\ at[t] = "steps" /\ work[t].todo # {}
     /\ \/ /\ ran' = [ran EXCEPT ![work[t].run] = @ \cup {Step(t)}]
           /\ Goto(t, "mark")
        \/ Move(t, "steps", WithoutStep(t, TRUE)) /\ UNCHANGED ran
     /\ UNCHANGED <<file, pidfile, pid, saving, cut, starts, imported>>
  \/ /\ at[t] = "scraping"
     /\ \/ /\ ran' = [ran EXCEPT ![work[t].run] = @ \cup work[t].todo]
           /\ Goto(t, "markstep")
        \/ Goto(t, End(t)) /\ UNCHANGED ran
     /\ UNCHANGED <<file, pidfile, pid, saving, cut, starts, imported>>

\* All scrapers were run: "success", "failed" or "partial_failure".
ScrapersRun(t) ==
  /\ at[t] = "steps" /\ work[t].todo = {}
  /\ Goto(t, IF work[t].failed = {} THEN "close"
             ELSE IF work[t].failed = Scrapers THEN "cleanup" ELSE "aux")
  /\ UNCHANGED <<file, pidfile, pid, saving, cut, starts, ran, imported>>

\* Bug: an import that failed is finished like one that did not.
FinishAnyway(t) ==
  /\ at[t] = "importing"
  /\ \/ Goto(t, "stored") /\ imported' = imported \cup {work[t].run}
     \/ Goto(t, "finish") /\ UNCHANGED imported
  /\ UNCHANGED <<file, pidfile, pid, saving, cut, starts, ran>>

\* import_all_csvs of the pipeline, or of the gated import, ends or fails.
Import(t) ==
  /\ \/ /\ at[t] = "importing"
        /\ \/ Goto(t, "stored") /\ imported' = imported \cup {work[t].run}
           \/ Goto(t, "cleanup") /\ UNCHANGED imported
     \/ /\ at[t] = "loading"
        /\ Goto(t, "complete_import")
        /\ imported' \in {imported, imported \cup {work[t].run}}
  /\ UNCHANGED <<file, pidfile, pid, saving, cut, starts, ran>>

\* A check of CSV files or of row counts fails.
CheckFails(t) ==
  /\ at[t] \in {"import", "finish"} /\ saving[t] = Null
  /\ Goto(t, "cleanup")
  /\ UNCHANGED <<file, pidfile, pid, saving, cut, starts, ran, imported>>

(***************************************************************************)
(*                              The PID file                               *)
(***************************************************************************)
\* acquire_lock: read_lock_pid, and a dead pid's file is unlinked.
Acquire(t) ==
  /\ at[t] = "acquire"
  /\ \/ pidfile = Null /\ Goto(t, "write") /\ UNCHANGED pid
     \/ /\ pidfile # Null /\ pidfile \notin {pid[u] : u \in Threads}
        /\ Goto(t, "unlink") /\ UNCHANGED pid
     \/ /\ pidfile \in {pid[u] : u \in Threads}       \* RuntimeError
        /\ Goto(t, "ended")
        /\ pid' = [pid EXCEPT ![t] = Null]
  /\ UNCHANGED <<file, pidfile, saving, cut, starts, ran, imported>>

\* is_pipeline_running, asked by the scheduler and by the route that starts a
\* child: it unlinks a dead pid's file too.
FindDeadPid(t) ==
  /\ at[t] = "ended" /\ pid[t] = "web"
  /\ pidfile # Null /\ pidfile \notin {pid[u] : u \in Threads}
  /\ Goto(t, "unlink")
  /\ UNCHANGED <<file, pidfile, pid, saving, cut, starts, ran, imported>>

Unlink(t) ==
  /\ at[t] = "unlink"
  /\ pidfile' = Null /\ Goto(t, IF pid[t] = "web" THEN "ended" ELSE "write")
  /\ UNCHANGED <<file, pid, saving, cut, starts, ran, imported>>

WritePid(t) ==
  /\ at[t] = "write"
  /\ pidfile' = pid[t] /\ Goto(t, "begin")
  /\ UNCHANGED <<file, pid, saving, cut, starts, ran, imported>>

\* release_lock: whoever's file it is.
Release(t) ==
  /\ at[t] = "release"
  /\ pidfile' = Null /\ Goto(t, "ended")
  /\ pid' = [pid EXCEPT ![t] = Null]
  /\ UNCHANGED <<file, saving, cut, starts, ran, imported>>

\* A process dies with all its threads, at any statement.
Kill(p) ==
  LET dead == {t \in Threads : pid[t] = p} IN
  /\ dead # {}
  /\ at' = [t \in Threads |-> IF t \in dead THEN "ended" ELSE at[t]]
  /\ work' = [t \in Threads |-> IF t \in dead THEN Null ELSE work[t]]
  /\ saving' = [t \in Threads |-> IF t \in dead THEN Null ELSE saving[t]]
  /\ cut' = cut \ dead
  /\ pid' = [t \in Threads |-> IF t \in dead /\ p # "web" THEN Null ELSE pid[t]]
  /\ UNCHANGED <<file, pidfile, starts, ran, imported>>

LegacyNext ==
  \/ \E t \in Threads :
       \/ \E r \in LegacyRuns :
            \/ StartInWeb(t, r) \/ StartGatedImport(t, r) \/ StartChild(t, r)
            \/ \E step \in Scrapers : StartScrapeWorker(t, r, step)
       \/ Call(t) \/ Truncate(t) \/ Write(t)
       \/ RunScraper(t) \/ ScrapersRun(t) \/ Import(t) \/ CheckFails(t)
       \/ Acquire(t) \/ FindDeadPid(t) \/ Unlink(t) \/ WritePid(t) \/ Release(t)
  \/ \E p \in Pids \cup {"web"} : Kill(p)

(***************************************************************************)
(*                                Properties                               *)
(***************************************************************************)
\* Lost updates lose steps and never invent one: a step that the file, or a
\* copy of it that is about to be written, records for a run is a scraper that
\* came to its end for that run, whoever overwrote whom.
RecordedStepsWereRun ==
  \A s \in ({file} \cup {saving[t] : t \in Threads}) \cap RunState :
    s.done \subseteq ran[s.run]

\* The gated import loads the CSV files of a run only when each of its scrapers
\* came to its end, although it asks the file once and other processes rewrite
\* the file before it imports.
GatedImportFollowsScrapes ==
  \A t \in Threads : at[t] = "loading" => ran[work[t].run] = Scrapers

\* A run that the file calls successful has been imported, although finish_run
\* is refused by nothing and overlapping pipelines share the file.
RecordedSuccessWasImported ==
  file \in RunState /\ file.success = "yes" => file.run \in imported
===============================================================================
