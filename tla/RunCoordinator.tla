---------------------------- MODULE RunCoordinator ----------------------------
(***************************************************************************)
(* The PostgreSQL run coordinator, src/pipeline/run_coordinator_postgres.py *)
(* over the tables of src/db/migrations/032_pipeline_coordinator_state.sql. *)
(*                                                                         *)
(* Any number of workers (web requests, background tasks, the scheduler's  *)
(* child process) call the coordinator in any order.  Every mutating call  *)
(* but one is a single short transaction on one locked row, and is one     *)
(* action here.  The exception is _begin_or_resume: it scans for the       *)
(* active row, looks for an earlier use of the run_id, and inserts, and    *)
(* other transactions may commit between those statements.                 *)
(*                                                                         *)
(* Time: lease_expires_at is kept as the time left, 0 once expired, and    *)
(* Tick lets time pass.  The other time stamps are kept as set or not set. *)
(***************************************************************************)
EXTENDS Integers

CONSTANTS
  RunIds,        \* the run_ids that callers may use
  Workers,       \* the processes and threads that call the coordinator
  Steps,         \* TENDER_SCRAPE_STEPS
  LeaseTTL,      \* _lease_ttl_seconds(), in ticks
  MaxAttempts,   \* _MAX_INSERT_RETRIES
  NoRun          \* begin_or_resume_run(None), and "no row is locked"

ASSUME LeaseAssumption    == LeaseTTL \in Nat \ {0}
ASSUME AttemptsAssumption == MaxAttempts \in Nat \ {0}
ASSUME NoRunAssumption    == NoRun \notin RunIds

VARIABLES
  runs,          \* pipeline_coordinator_runs: run_id -> row
  completed,     \* pipeline_coordinator_steps: run_id -> steps marked done
  txn            \* each worker's open _begin_or_resume transaction

vars == <<runs, completed, txn>>

(***************************************************************************)
(*                              Rows and calls                             *)
(***************************************************************************)
Statuses == {"absent", "active", "finished"}

Phases == {"running", "full_scrape", "tender_scrape", "tender_scrape_complete",
           "scrape_complete", "import", "import_complete", "finished"}

\* One row; "absent" stands for a run_id that has no row.
Row == [status    : Statuses,
        phase     : Phases,
        lease     : 0 .. LeaseTTL,
        scraped   : BOOLEAN,      \* tender_scrape_finished_at is set
        importing : BOOLEAN,      \* import_started_at is set
        imported  : BOOLEAN,      \* import_finished_at is set
        success   : {"unset", "true", "false"},
        reclaimed : BOOLEAN]      \* stale_reclaimed

NoRow == [status |-> "absent", phase |-> "running", lease |-> 0,
          scraped |-> FALSE, importing |-> FALSE, imported |-> FALSE,
          success |-> "unset", reclaimed |-> FALSE]

\* The row that _begin_or_resume inserts.
NewRow == [NoRow EXCEPT !.status = "active", !.lease = LeaseTTL]

\* A _begin_or_resume transaction: the row it waits for, the row it has locked.
Txn == [pc : {"idle", "scan", "wait", "check", "insert"},
        run : RunIds \cup {NoRun}, attempt : 0 .. MaxAttempts - 1,
        awaits : RunIds \cup {NoRun}, held : RunIds \cup {NoRun}]

Idle == [pc |-> "idle", run |-> NoRun, attempt |-> 0,
         awaits |-> NoRun, held |-> NoRun]

Active(r) == runs[r].status = "active"
Live(r)   == Active(r) /\ runs[r].lease > 0      \* not _lease_expired
Stale(r)  == Active(r) /\ runs[r].lease = 0

\* Some transaction holds the row lock of r (SELECT ... FOR UPDATE).
Locked(r) == \E w \in Workers : txn[w].held = r

Reclaim(row) ==      \* _reclaim_stale_values
  [row EXCEPT !.status = "finished", !.phase = "finished",
              !.success = "false", !.reclaimed = TRUE]

Renewed(row) == [row EXCEPT !.lease = LeaseTTL]      \* _touch_lease_values

Init ==
  /\ runs = [r \in RunIds |-> NoRow]
  /\ completed = [r \in RunIds |-> {}]
  /\ txn = [w \in Workers |-> Idle]

(***************************************************************************)
(*             begin_run(q) and begin_or_resume_run(q), q may be NoRun     *)
(***************************************************************************)
\* _active_row_for_update runs now: at the call, at a retry, or when the row
\* waited for is free again and still active.
Begins(w, q) ==
  \/ txn[w].pc = "idle"
  \/ txn[w].pc = "scan" /\ txn[w].run = q
  \/ txn[w].pc = "wait" /\ txn[w].run = q /\ Active(txn[w].awaits)

\* Bug: the session is not closed, and keeps its row lock.
ReturnKeepsLock(w) == txn' = [txn EXCEPT ![w] = [@ EXCEPT !.pc = "idle"]]

\* The call ends here: commit or rollback, the row lock is released.
Return(w) == txn' = [txn EXCEPT ![w] = Idle]

\* A live run is active and may not be this one: PipelineRunConflictError.
BeginConflict(w, q) ==
  /\ Begins(w, q) /\ q # NoRun
  /\ \E r \in RunIds \ {q} : Live(r) /\ ~Locked(r)
  /\ Return(w)
  /\ UNCHANGED <<runs, completed>>

\* The active run is the one asked for, or any would do: renew its lease.
BeginResume(w, q) ==
  /\ Begins(w, q)
  /\ \E r \in RunIds :
       /\ q \in {r, NoRun} /\ Live(r) /\ ~Locked(r)
       /\ runs' = [runs EXCEPT ![r] = Renewed(@)]
  /\ Return(w)
  /\ UNCHANGED completed

\* The scan is over with row h locked; a generated run_id needs no check.
Scanned(t, q, h) ==
  [t EXCEPT !.run = q, !.held = h, !.awaits = NoRun,
            !.pc = IF q = NoRun THEN "insert" ELSE "check"]

\* Bug: the lease of the active row is not looked at.
BeginScanTakesAny(w, q) ==
  /\ Begins(w, q)
  /\ \E h \in RunIds \cup {NoRun} :
       /\ IF h = NoRun THEN \A r \in RunIds : ~Active(r)
                       ELSE Active(h) /\ ~Locked(h)
       /\ txn' = [txn EXCEPT ![w] = Scanned(@, q, h)]
  /\ UNCHANGED <<runs, completed>>

\* Bug: an active row is never reclaimed, as before there were leases.
BeginScanTakesNone(w, q) ==
  /\ Begins(w, q)
  /\ \A r \in RunIds : ~Active(r)
  /\ txn' = [txn EXCEPT ![w] = Scanned(@, q, NoRun)]
  /\ UNCHANGED <<runs, completed>>

\* No active row, or one whose lease has expired: that row stays locked, its
\* reclaim is not visible to others before the commit in BeginInsert.
BeginScan(w, q) ==
  /\ Begins(w, q)
  /\ \E h \in RunIds \cup {NoRun} :
       /\ IF h = NoRun THEN \A r \in RunIds : ~Active(r)
                       ELSE Stale(h) /\ ~Locked(h)
       /\ txn' = [txn EXCEPT ![w] = Scanned(@, q, h)]
  /\ UNCHANGED <<runs, completed>>

\* Another transaction has the active row locked: wait for it.
BeginWaits(w, q) ==
  /\ txn[w].pc \in {"idle", "scan"} /\ Begins(w, q)
  /\ \E r \in RunIds :
       /\ Active(r) /\ Locked(r)
       /\ txn' = [txn EXCEPT ![w] =
                    [@ EXCEPT !.pc = "wait", !.run = q, !.awaits = r]]
  /\ UNCHANGED <<runs, completed>>

\* READ COMMITTED: the row waited for is no longer active, and the row that
\* replaced it is not in the statement's snapshot.
BeginMissed(w) ==
  /\ txn[w].pc = "wait" /\ ~Active(txn[w].awaits)
  /\ txn' = [txn EXCEPT ![w] = Scanned(@, @.run, NoRun)]
  /\ UNCHANGED <<runs, completed>>

\* The run_id has a row: PipelineOrderError, and the rollback undoes the
\* reclaim of the row this transaction holds.
BeginReused(w) ==
  /\ txn[w].pc = "check"
  /\ runs[txn[w].run].status # "absent"
  /\ Return(w)
  /\ UNCHANGED <<runs, completed>>

BeginUnused(w) ==
  /\ txn[w].pc = "check"
  /\ runs[txn[w].run].status = "absent"
  /\ txn' = [txn EXCEPT ![w].pc = "insert"]
  /\ UNCHANGED <<runs, completed>>

\* The run_id to insert; NoRun asks for a fresh uuid, known to nobody yet.
Chosen(w) ==
  IF txn[w].run = NoRun
  THEN {r \in RunIds : /\ runs[r].status = "absent"
                       /\ \A v \in Workers : txn[v].run # r}
  ELSE {txn[w].run}

\* Bug: without the partial index on the active run of a scope.
UniqueRunIdOnly(w, r) == runs[r].status # "absent"

\* What the two unique indexes of migration 032 see for an insert of r by w.
UniqueViolation(w, r) ==
  \/ runs[r].status # "absent"
  \/ \E s \in RunIds : Active(s) /\ s # txn[w].held

\* The insert waits while another transaction has the active row locked.
InsertWaits(w) ==
  \E s \in RunIds : Active(s) /\ Locked(s) /\ s # txn[w].held

BeginInsert(w) ==
  /\ txn[w].pc = "insert" /\ ~InsertWaits(w)
  /\ \E r \in Chosen(w) :
       /\ ~UniqueViolation(w, r)
       /\ runs' = [s \in RunIds |->
                     IF s = r THEN NewRow
                     ELSE IF s = txn[w].held THEN Reclaim(runs[s])
                     ELSE runs[s]]
  /\ Return(w)
  /\ UNCHANGED completed

Retried(t) == [t EXCEPT !.pc = "scan", !.held = NoRun, !.attempt = @ + 1]

\* Bug: off by one, one attempt too many.
BeginCollidesOnceMore(w) ==
  /\ txn[w].pc = "insert" /\ ~InsertWaits(w)
  /\ \E r \in Chosen(w) : UniqueViolation(w, r)
  /\ IF txn[w].attempt = MaxAttempts
     THEN Return(w)
     ELSE txn' = [txn EXCEPT ![w] = Retried(@)]
  /\ UNCHANGED <<runs, completed>>

\* IntegrityError: roll back and retry, MaxAttempts times in all.
BeginCollides(w) ==
  /\ txn[w].pc = "insert" /\ ~InsertWaits(w)
  /\ \E r \in Chosen(w) : UniqueViolation(w, r)
  /\ IF txn[w].attempt + 1 = MaxAttempts
     THEN Return(w)
     ELSE txn' = [txn EXCEPT ![w] = Retried(@)]
  /\ UNCHANGED <<runs, completed>>

\* The process or its connection dies: the server rolls back.
Crash(w) ==
  /\ txn[w].pc # "idle"
  /\ Return(w)
  /\ UNCHANGED <<runs, completed>>

(***************************************************************************)
(*                      _mutate_locked_run and its callers                 *)
(***************************************************************************)
\* Bug: SELECT without FOR UPDATE.
LocksNothing(w, r) == txn[w].pc = "idle"

\* A call may start: the worker is free and gets the lock of r's row.
Locks(w, r) == txn[w].pc = "idle" /\ ~Locked(r)

\* Every mutating call for a run that has no row, is finished or reclaimed.
RefuseRetired(w, r) ==
  /\ Locks(w, r) /\ ~Active(r)
  /\ UNCHANGED <<runs, completed, txn>>

\* Every mutating call for a run whose lease has expired reclaims the row.
ReclaimOnCallback(w, r) ==
  /\ Locks(w, r) /\ Stale(r)
  /\ runs' = [runs EXCEPT ![r] = Reclaim(@)]
  /\ UNCHANGED <<completed, txn>>

\* build_values raised, because Ready does not hold: nothing is written and
\* the lease is not renewed.
RefuseEarly(w, r, Ready) ==
  /\ Locks(w, r) /\ Live(r) /\ ~Ready
  /\ UNCHANGED <<runs, completed, txn>>

\* Bug: the lease is not checked.
MutateAnyActive(w, r, row) ==
  /\ Locks(w, r) /\ Active(r)
  /\ runs' = [runs EXCEPT ![r] = Renewed(row)]
  /\ UNCHANGED txn

\* Bug: the status is not checked.
MutateAnyLeased(w, r, row) ==
  /\ Locks(w, r) /\ runs[r].lease > 0
  /\ runs' = [runs EXCEPT ![r] = Renewed(row)]
  /\ UNCHANGED txn

\* build_values returned: one UPDATE, which also renews the lease.
Mutate(w, r, row) ==
  /\ Locks(w, r) /\ Live(r)
  /\ runs' = [runs EXCEPT ![r] = Renewed(row)]
  /\ UNCHANGED txn

begin_tender_scrape(w, r) ==
  /\ Mutate(w, r, [runs[r] EXCEPT !.phase = "tender_scrape"])
  /\ UNCHANGED completed

\* The last missing step also stamps the scrape phase, once.
mark_tender_scrape_step(w, r, step) ==
  LET done == completed[r] \cup {step}
      ends == done = Steps /\ ~runs[r].scraped
  IN  /\ completed' = [completed EXCEPT ![r] = done]
      /\ Mutate(w, r, [runs[r] EXCEPT
                         !.scraped = @ \/ ends,
                         !.phase = IF ends THEN "tender_scrape_complete" ELSE @])

complete_tender_scrape(w, r) ==
  /\ completed[r] = Steps
  /\ Mutate(w, r, [runs[r] EXCEPT !.scraped = TRUE,
                                  !.phase = "tender_scrape_complete"])
  /\ UNCHANGED completed

begin_full_scrape(w, r) ==
  /\ Mutate(w, r, [runs[r] EXCEPT !.phase = "full_scrape"])
  /\ UNCHANGED completed

complete_full_scrape(w, r) ==
  /\ Mutate(w, r, [runs[r] EXCEPT
                     !.phase = IF @ = "tender_scrape_complete" THEN @
                               ELSE "scrape_complete"])
  /\ UNCHANGED completed

\* assert_ready_for_import reads this without a lock; begin_import reads it
\* again under the lock.
ReadyForImport(r) == completed[r] = Steps /\ runs[r].scraped

\* Bug: relies on the caller's assert_ready_for_import.
BeginImportUnchecked(w, r) ==
  /\ Mutate(w, r, [runs[r] EXCEPT !.phase = "import", !.importing = TRUE])
  /\ UNCHANGED completed

begin_import(w, r) ==
  /\ ReadyForImport(r)
  /\ Mutate(w, r, [runs[r] EXCEPT !.phase = "import", !.importing = TRUE])
  /\ UNCHANGED completed

complete_import(w, r) ==
  /\ Mutate(w, r, [runs[r] EXCEPT !.phase = "import_complete", !.imported = TRUE])
  /\ UNCHANGED completed

(***************************************************************************)
(*                    Calls outside _mutate_locked_run                     *)
(***************************************************************************)
\* Neither the status nor the lease of the row is looked at.
finish_run(w, r, success) ==
  /\ Locks(w, r) /\ runs[r].status # "absent"
  /\ runs' = [runs EXCEPT ![r] = [@ EXCEPT !.status = "finished",
                                           !.phase = "finished",
                                           !.success = success]]
  /\ UNCHANGED <<completed, txn>>

\* Bug: reaps the active run whatever its lease.
ReapAnyActive(w) ==
  /\ txn[w].pc = "idle"
  /\ \E r \in RunIds : /\ Active(r) /\ ~Locked(r)
                       /\ runs' = [runs EXCEPT ![r] = Reclaim(@)]
  /\ UNCHANGED <<completed, txn>>

reap_stale_run(w) ==
  /\ txn[w].pc = "idle"
  /\ \E r \in RunIds : /\ Stale(r) /\ ~Locked(r)
                       /\ runs' = [runs EXCEPT ![r] = Reclaim(@)]
  /\ UNCHANGED <<completed, txn>>

\* Time passes for every lease that has time left.
Tick ==
  /\ \E r \in RunIds : runs[r].lease > 0
  /\ runs' = [r \in RunIds |->
                [runs[r] EXCEPT !.lease = IF @ > 0 THEN @ - 1 ELSE 0]]
  /\ UNCHANGED <<completed, txn>>

Begin(w) ==
  \/ \E q \in RunIds \cup {NoRun} :
       \/ BeginConflict(w, q) \/ BeginResume(w, q)
       \/ BeginScan(w, q) \/ BeginWaits(w, q)
  \/ BeginMissed(w) \/ BeginReused(w) \/ BeginUnused(w) \/ BeginInsert(w) \/ BeginCollides(w)

MutateRun(w, r) ==
  \/ RefuseRetired(w, r)
  \/ ReclaimOnCallback(w, r)
  \/ begin_tender_scrape(w, r)
  \/ \E step \in Steps : mark_tender_scrape_step(w, r, step)
  \/ complete_tender_scrape(w, r)
  \/ RefuseEarly(w, r, completed[r] = Steps)
  \/ begin_full_scrape(w, r)
  \/ complete_full_scrape(w, r)
  \/ begin_import(w, r)
  \/ RefuseEarly(w, r, ReadyForImport(r))
  \/ complete_import(w, r)

Next ==
  \/ \E w \in Workers :
       \/ Begin(w)
       \/ Crash(w)
       \/ \E r \in RunIds : MutateRun(w, r)
       \/ \E r \in RunIds, s \in {"true", "false"} : finish_run(w, r, s)
       \/ reap_stale_run(w)
  \/ Tick

Spec == Init /\ [][Next]_vars

(***************************************************************************)
(*                                Properties                               *)
(***************************************************************************)
\* Every variable keeps its type.
TypeOK ==
  /\ runs \in [RunIds -> Row]
  /\ completed \in [RunIds -> SUBSET Steps]
  /\ txn \in [Workers -> Txn]

\* At most one run of the scope is active, whatever calls race to begin one.
OneActiveRun ==
  \A r, s \in RunIds : Active(r) /\ Active(s) => r = s

\* An import has begun only for a run whose tender scrapers have all been
\* marked done and whose scrape phase has been stamped complete, whatever the
\* order and number of calls (begin_import checks again under the lock).
ImportAfterScrape ==
  \A r \in RunIds : runs[r].importing => ReadyForImport(r)

\* A transaction that is about to reclaim a row has it to itself, and the row
\* is still active and expired: no late callback, reaper or other begin_run
\* can revive or retire it before the commit.
ReclaimIsExclusive ==
  \A w \in Workers : txn[w].held # NoRun =>
    /\ Stale(txn[w].held)
    /\ \A v \in Workers : txn[v].held = txn[w].held => v = w

\* A run with a live lease is never reclaimed as stale, by any of the three
\* paths that reclaim (begin_run, a late callback, the reaper).
LiveRunNeverReclaimed ==
  [][\A r \in RunIds : Live(r) => runs'[r].reclaimed = runs[r].reclaimed]_vars

\* Once a lease has expired nothing renews it, not even a begin_run that
\* resumes the same run: a zombie worker cannot keep its run alive.
ExpiredLeaseStaysExpired ==
  [][\A r \in RunIds : Stale(r) => runs'[r].lease = 0]_vars

\* Of a finished or reclaimed run, no late call changes the status, the marked
\* steps or the progress stamps.
RetiredRunKeepsProgress ==
  [][\A r \in RunIds : runs[r].status = "finished" =>
       /\ completed'[r] = completed[r]
       /\ \A f \in {"status", "scraped", "importing", "imported", "reclaimed"} :
            runs'[r][f] = runs[r][f]]_vars

\* begin_run "start[s] (or idempotently resume[s])" its run and says "already
\* used" only of "a run that has since finished", never of a live one.
BeginIsIdempotent ==
  [][\A w \in Workers : BeginReused(w) => ~Live(txn[w].run)]_vars

(***************************************************************************)
(*           The coordinator keeps the promise of ExclusiveRun             *)
(***************************************************************************)
Owner == IF \E r \in RunIds : Active(r) THEN CHOOSE r \in RunIds : Active(r)
                                       ELSE NoRun

Promise == INSTANCE ExclusiveRun WITH
  owner    <- Owner,
  live     <- \E r \in RunIds : Live(r),
  used     <- {r \in RunIds : runs[r].status # "absent"},
  scraped  <- {r \in RunIds : ReadyForImport(r)},
  imported <- {r \in RunIds : runs[r].importing}

\* Every step of the coordinator, seen through Owner, is a step of
\* ExclusiveRun or changes nothing there.
KeepsPromise == Promise!Spec
=============================================================================
