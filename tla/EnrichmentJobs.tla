---------------------------- MODULE EnrichmentJobs ----------------------------
(***************************************************************************)
(* On-demand enrichment of one company: the jobs, their dedup and the      *)
(* provider cascade of src/pipeline/company_enrichment/orchestrator.py, as *)
(* POST /internal/enrichment/company/{id}/run of src/api/internal.py runs  *)
(* it.  Companies do not share rows, so one is enough.                     *)
(*                                                                         *)
(* A caller is one request and its background task.  Each commit is one    *)
(* step.  The rows a provider's facts are kept in are one unit here, known *)
(* by the run that wrote them; nothing in the repository sets verified, so *)
(* no row is.  providers_attempted is kept as "some ran cleanly" and "some *)
(* broke", which is all that _resolve_cascade_status reads in it.          *)
(***************************************************************************)
EXTENDS Integers

CONSTANTS
  RunIds,       \* the uuids that start_or_join_job draws
  Callers,
  Providers,    \* _default_providers()
  LeaseTTL,     \* DEFAULT_LEASE_TTL, in ticks
  NoRun

ASSUME LeaseAssumption == LeaseTTL \in Nat \ {0}
ASSUME NoRunAssumption == NoRun \notin RunIds

VARIABLES
  jobs,       \* company_enrichment_jobs: run_id -> status and lease
  current,    \* company_enrichment_fields: provider -> run of its current rows
  fresh,      \* is_cache_fresh(get_current_fields(company))
  task        \* what each caller is doing

vars == <<jobs, current, fresh, task>>

Terminal == {"success", "failed", "partial_success"}     \* _TERMINAL_STATUSES

Job == [status : Terminal \cup {"absent", "running"}, lease : 0 .. LeaseTTL]

Task == [pc     : {"idle", "check", "insert", "find", "reclaim", "cascade",
                   "writing", "readback", "raising", "returned", "raised"},
         run    : RunIds \cup {NoRun},      \* the caller's job, or the one it found
         left   : SUBSET Providers,         \* not called yet
         facts  : SUBSET Providers,         \* their facts are still to be written
         source : Providers \cup {NoRun},   \* whose facts are being written
         sees   : RunIds \cup {NoRun},      \* the current rows that write found
         clean  : BOOLEAN,                  \* some provider ran cleanly
         broken : BOOLEAN,                  \* some provider failed or timed out
         report : Terminal \cup {"none"}]   \* the status returned

Idle == [pc |-> "idle", run |-> NoRun, left |-> {}, facts |-> {},
         source |-> NoRun, sees |-> NoRun, clean |-> FALSE, broken |-> FALSE,
         report |-> "none"]

Running(r) == jobs[r].status = "running"
Live(r)    == Running(r) /\ jobs[r].lease > 0
Stale(r)   == Running(r) /\ jobs[r].lease = 0

Init ==
  /\ jobs = [r \in RunIds |-> [status |-> "absent", lease |-> 0]]
  /\ current = [p \in Providers |-> NoRun]
  /\ fresh = FALSE
  /\ task = [c \in Callers |-> Idle]

Becomes(c, t) == task' = [task EXCEPT ![c] = t]
Goto(c, to)   == Becomes(c, [task[c] EXCEPT !.pc = to])
At(c, pc)     == task[c].pc = pc

(***************************************************************************)
(*                   The request: check_cache, start_or_join_job           *)
(***************************************************************************)
Request(c) ==
  /\ task[c].pc \in {"idle", "returned", "raised"}
  /\ Becomes(c, [Idle EXCEPT !.pc = "check"])
  /\ UNCHANGED <<jobs, current, fresh>>

\* cache_hit ends the request; no job is looked at.
CheckCache(c) ==
  /\ At(c, "check")
  /\ Becomes(c, [Idle EXCEPT !.pc = IF fresh THEN "idle" ELSE "insert"])
  /\ UNCHANGED <<jobs, current, fresh>>

Started(c, r) ==
  /\ jobs[r].status = "absent"
  /\ jobs' = [jobs EXCEPT ![r] = [status |-> "running", lease |-> LeaseTTL]]
  /\ Becomes(c, [Idle EXCEPT !.pc = "cascade", !.run = r, !.left = Providers])

\* Bug: without the partial unique index on the running job of a company.
InsertAlways(c) ==
  /\ At(c, "insert")
  /\ \E r \in RunIds : Started(c, r)
  /\ UNCHANGED <<current, fresh>>

\* INSERT ... ON CONFLICT DO NOTHING on the running job of the company.
InsertJob(c) ==
  /\ At(c, "insert")
  /\ \/ (\A r \in RunIds : ~Running(r)) /\ \E r \in RunIds : Started(c, r)
     \/ (\E r \in RunIds : Running(r)) /\ Goto(c, "find") /\ UNCHANGED jobs
  /\ UNCHANGED <<current, fresh>>

\* Bug: the background task is scheduled for a joined job too.
FindAndRun(c) ==
  /\ At(c, "find")
  /\ \/ (\A r \in RunIds : ~Running(r)) /\ Goto(c, "insert")
     \/ \E r \in RunIds :
          Live(r) /\ Becomes(c, [Idle EXCEPT !.pc = "cascade", !.run = r,
                                            !.left = Providers])
     \/ \E r \in RunIds :
          Stale(r) /\ Becomes(c, [Idle EXCEPT !.pc = "reclaim", !.run = r])
  /\ UNCHANGED <<jobs, current, fresh>>

\* find_active_job: gone, so insert again; live, so join it; or expired.
FindJob(c) ==
  /\ At(c, "find")
  /\ \/ (\A r \in RunIds : ~Running(r)) /\ Goto(c, "insert")
     \/ (\E r \in RunIds : Live(r)) /\ Becomes(c, Idle)
     \/ \E r \in RunIds :
          Stale(r) /\ Becomes(c, [Idle EXCEPT !.pc = "reclaim", !.run = r])
  /\ UNCHANGED <<jobs, current, fresh>>

\* Bug: reclaims the running job of the company, whichever it is by now.
ReclaimByCompany(c) ==
  /\ At(c, "reclaim")
  /\ jobs' = [r \in RunIds |->
                IF Running(r) THEN [jobs[r] EXCEPT !.status = "failed"] ELSE jobs[r]]
  /\ Becomes(c, [Idle EXCEPT !.pc = "insert"])
  /\ UNCHANGED <<current, fresh>>

\* Bug: an expired job is left to its worker.
ReclaimNothing(c) ==
  /\ At(c, "reclaim")
  /\ Becomes(c, [Idle EXCEPT !.pc = "insert"])
  /\ UNCHANGED <<jobs, current, fresh>>

\* reclaim_stale_job checks again; start_or_join_job then starts over.
ReclaimJob(c) ==
  /\ At(c, "reclaim")
  /\ jobs' = IF Stale(task[c].run)
             THEN [jobs EXCEPT ![task[c].run].status = "failed"] ELSE jobs
  /\ Becomes(c, [Idle EXCEPT !.pc = "insert"])
  /\ UNCHANGED <<current, fresh>>

(***************************************************************************)
(*              The background task: run_cascade_for_job                   *)
(***************************************************************************)
\* The providers are called one after another, in an order left open here.
CallProvider(c, p) ==
  /\ At(c, "cascade") /\ p \in task[c].left
  /\ \E tag \in {"match", "no_match", "error_or_timeout"} :
       Becomes(c, [task[c] EXCEPT
         !.left   = @ \ {p},
         !.facts  = IF tag = "match" THEN @ \cup {p} ELSE @,
         !.clean  = @ \/ tag # "error_or_timeout",
         !.broken = @ \/ tag = "error_or_timeout"])
  /\ UNCHANGED <<jobs, current, fresh>>

\* write_enrichment_facts up to its UPDATE of the current rows, or up to its
\* INSERT when there are none: what it finds there is what it replaces.
BeginWrite(c, p) ==
  /\ At(c, "cascade") /\ task[c].left = {} /\ p \in task[c].facts
  /\ Becomes(c, [task[c] EXCEPT !.pc = "writing", !.source = p,
                                !.facts = @ \ {p}, !.sees = current[p]])
  /\ UNCHANGED <<jobs, current, fresh>>

\* Of two writes that found the same rows, the first to lock or insert them
\* commits; the other waits and then violates the index on current rows.
CommitWrite(c) ==
  LET p == task[c].source
  IN  /\ At(c, "writing")
      /\ \/ /\ current[p] = task[c].sees
            /\ current' = [current EXCEPT ![p] = task[c].run]
            /\ fresh' = TRUE
            /\ Becomes(c, [task[c] EXCEPT !.pc = "cascade", !.source = NoRun,
                                          !.sees = NoRun])
         \/ /\ current[p] # task[c].sees
            /\ Goto(c, "raising") /\ UNCHANGED <<current, fresh>>
  /\ UNCHANGED jobs

\* Any other exception of the cascade, the writer or the finish.
Fail(c) ==
  /\ task[c].pc \in {"cascade", "writing", "readback"}
  /\ Goto(c, "raising")
  /\ UNCHANGED <<jobs, current, fresh>>

Status(t) ==      \* _resolve_cascade_status
  IF ~t.broken THEN "success" ELSE IF t.clean THEN "partial_success" ELSE "failed"

\* UPDATE ... WHERE status = 'running', of _finish_job: the lease is not read.
Finished(r, status) ==
  jobs' = IF Running(r) THEN [jobs EXCEPT ![r].status = status] ELSE jobs

CascadeOver(c) ==
  At(c, "cascade") /\ task[c].left = {} /\ task[c].facts = {}

Returns(c, status) ==
  Becomes(c, [Idle EXCEPT !.pc = "returned", !.run = task[c].run, !.report = status])

\* Bug: the status is not checked, the last to finish wins.
FinishOver(c) ==
  /\ CascadeOver(c)
  /\ jobs' = [jobs EXCEPT ![task[c].run].status = Status(task[c])]
  /\ Returns(c, Status(task[c]))
  /\ UNCHANGED <<current, fresh>>

\* Bug: reports the status asked for, not the one the row has.
FinishBlindly(c) ==
  /\ CascadeOver(c)
  /\ Finished(task[c].run, Status(task[c]))
  /\ Returns(c, Status(task[c]))
  /\ UNCHANGED <<current, fresh>>

\* _finish_job: done, or the job had been reclaimed and its status is read.
Finish(c) ==
  /\ CascadeOver(c)
  /\ Finished(task[c].run, Status(task[c]))
  /\ IF Running(task[c].run) THEN Returns(c, Status(task[c])) ELSE Goto(c, "readback")
  /\ UNCHANGED <<current, fresh>>

ReadBack(c) ==
  /\ At(c, "readback")
  /\ Returns(c, jobs[task[c].run].status)
  /\ UNCHANGED <<jobs, current, fresh>>

\* _mark_job_failed_best_effort, then the exception goes on.
MarkFailed(c) ==
  /\ At(c, "raising")
  /\ Finished(task[c].run, "failed")
  /\ Becomes(c, [Idle EXCEPT !.pc = "raised", !.run = task[c].run])
  /\ UNCHANGED <<current, fresh>>

(***************************************************************************)
(*                               Environment                               *)
(***************************************************************************)
\* The process dies; or marking the job failed fails too and is given up.
Die(c) ==
  /\ task[c].pc \notin {"idle", "returned", "raised"}
  /\ Becomes(c, Idle)
  /\ UNCHANGED <<jobs, current, fresh>>

Tick ==
  /\ \E r \in RunIds : jobs[r].lease > 0
  /\ jobs' = [r \in RunIds |->
                [jobs[r] EXCEPT !.lease = IF @ > 0 THEN @ - 1 ELSE 0]]
  /\ UNCHANGED <<current, fresh, task>>

\* DEFAULT_STALE_DAYS pass without a write.
Age ==
  /\ fresh /\ fresh' = FALSE
  /\ UNCHANGED <<jobs, current, task>>

StartOrJoin(c) == InsertJob(c) \/ FindJob(c) \/ ReclaimJob(c)

Cascade(c) ==
  \/ \E p \in Providers : CallProvider(c, p) \/ BeginWrite(c, p)
  \/ CommitWrite(c) \/ Fail(c) \/ Finish(c) \/ ReadBack(c) \/ MarkFailed(c)

Next ==
  \/ \E c \in Callers : \/ Request(c) \/ CheckCache(c) \/ StartOrJoin(c)
                        \/ Cascade(c) \/ Die(c)
  \/ Tick \/ Age

Spec == Init /\ [][Next]_vars

(***************************************************************************)
(*                                Properties                               *)
(***************************************************************************)
\* Every variable keeps its type.
TypeOK ==
  /\ jobs \in [RunIds -> Job]
  /\ current \in [Providers -> RunIds \cup {NoRun}]
  /\ fresh \in BOOLEAN
  /\ task \in [Callers -> Task]

\* However many requests race, reclaim and retry, at most one job of the
\* company is running (golden case #5 of start_or_join_job).
OneRunningJob == \A r, s \in RunIds : Running(r) /\ Running(s) => r = s

Works(c, r) ==
  /\ task[c].run = r
  /\ task[c].pc \in {"cascade", "writing", "readback", "raising"}

\* Two background tasks never work on the same job.
OneWorkerPerJob ==
  \A b, c \in Callers : \A r \in RunIds : Works(b, r) /\ Works(c, r) => b = c

\* A cascade that returned, or raised and could mark its job, left the job in
\* a terminal status, though it may have been reclaimed under way; and what it
\* returned is what the row says, "never a silently wrong success".
ReportIsPersisted ==
  \A c \in Callers :
    /\ At(c, "returned") => task[c].report = jobs[task[c].run].status
    /\ task[c].pc \in {"returned", "raised"} => jobs[task[c].run].status \in Terminal

\* The first terminal status of a job is its last, whoever comes late: the
\* worker of a reclaimed job, or a second reclaimer.
OutcomeIsFinal ==
  [][\A r \in RunIds : jobs[r].status \in Terminal =>
       jobs'[r].status = jobs[r].status]_vars

\* Only its own worker ends a job whose lease has time left; a request that
\* found an expired job may not end the one that replaced it meanwhile.
LiveJobIsLeftAlone ==
  [][\A r \in RunIds : Live(r) /\ jobs'[r].status # "running" =>
       \E c \in Callers : Works(c, r)]_vars

\* A stale job does not stay in the way: when the company is asked for again
\* and again and its cached fields grow old, the job is reclaimed or ends.
StaleJobGoes == \A r \in RunIds : Stale(r) ~> ~Running(r)

\* Requests keep coming and some are served, time passes, without new facts the
\* cached fields grow old, and a background task goes on (its providers' time
\* is limited) or its process dies.
FairSpec ==
  /\ Spec /\ WF_vars(Tick) /\ WF_vars(Age)
  /\ \A c \in Callers :
       WF_vars(Request(c)) /\ SF_vars(CheckCache(c)) /\ SF_vars(InsertJob(c))
       /\ SF_vars(FindJob(c)) /\ SF_vars(ReclaimJob(c))
       /\ WF_vars(Cascade(c) \/ Die(c))

\* "The same lease-expiry reclaim already recovers it transparently the next
\* time anyone requests that company again" (comment of orchestrator.py on a
\* process killed under a job): that request reaches start_or_join_job.
NextRequestHeals ==
  [][\A c \in Callers : CheckCache(c) /\ (\E r \in RunIds : Stale(r)) =>
       task'[c].pc = "insert"]_vars
===============================================================================
