-------------------------------- MODULE JobRun --------------------------------
(***************************************************************************)
(* The run history of the jobs (ops_job_runs, ops_job_run_events): the     *)
(* writer src/pipeline/job_run.py, and the jobs that narrate themselves    *)
(* through it, each call on a session of its own that swallows every error *)
(* (src/pipeline/job_run_telemetry.py).                                    *)
(*                                                                         *)
(* A call reads the clock of its process, then waits for a connection and  *)
(* for the row; the statement compares the lease with the time read.  It   *)
(* may fail, or commit and lose the answer.                                *)
(***************************************************************************)
EXTENDS Naturals, Sequences

CONSTANTS
  Jobs,       \* threads that run jobs
  JobRunIds,  \* run_ids: uuids, or the run_id of the n8n request
  LeaseTtl,   \* DEFAULT_LEASE_TTL
  MaxPhases,  \* bound: phases of a job, for TLC
  MaxTime     \* bound: the clock, for TLC

ASSUME JobAssumption == LeaseTtl \in Nat /\ MaxPhases \in Nat /\ MaxTime \in Nat

VARIABLES
  jobruns,    \* ops_job_runs with their events, by run_id
  telling,    \* what each job is telling
  clock

jobVars == <<jobruns, telling, clock>>

NoRow == [status |-> "none"]

Event == {"started", "step_completed", "step_failed", "finished"}

JobRow == {NoRow}
  \cup [status : {"running", "success", "failed", "partial_failure"},
        lease : Nat, events : Seq(Event)]

\* No telemetry: the flag is off, or start_job_run did not answer with a run_id.
Silent == [pc |-> "silent"]

\* isolates: the job catches the failure of a phase and goes on (architecture
\* intelligence, news); failed: any_step_failed.
Telling == {Silent} \cup
  [pc : {"work", "step", "beat"}, run : JobRunIds, isolates : BOOLEAN,
   failed : BOOLEAN, phases : 0..MaxPhases, event : Event, now : Nat]

JobTypeOK ==
  /\ jobruns \in [JobRunIds -> JobRow]
  /\ telling \in [Jobs -> Telling]
  /\ clock \in 0..MaxTime

JobInit ==
  /\ jobruns = [r \in JobRunIds |-> NoRow]
  /\ telling = [j \in Jobs |-> Silent]
  /\ clock = 0

Running(r) == jobruns[r].status = "running"

Tell(j, s) == telling' = [telling EXCEPT ![j] = s]

Begun(r, isolates) ==
  [pc |-> "work", run |-> r, isolates |-> isolates, failed |-> FALSE, phases |-> 0,
   event |-> "started", now |-> 0]

\* The job goes on with its work.
Resume(j) == Tell(j, [telling[j] EXCEPT !.pc = "work", !.event = "started", !.now = 0])

\* Bug: the collision is taken for "already started".
StartAlways(j, r, isolates) ==
  /\ telling[j] = Silent
  /\ jobruns' = IF jobruns[r] # NoRow THEN jobruns
                ELSE [jobruns EXCEPT ![r] = [status |-> "running",
                        lease |-> clock + LeaseTtl, events |-> <<"started">>]]
  /\ Tell(j, Begun(r, isolates)) \/ UNCHANGED telling
  /\ UNCHANGED clock

\* start_job_run.  A run_id that exists is refused by the unique index; every
\* failure, and a lost answer, leaves the job untold.
StartJob(j, r, isolates) ==
  /\ telling[j] = Silent /\ jobruns[r] = NoRow
  /\ jobruns' = [jobruns EXCEPT ![r] =
       [status |-> "running", lease |-> clock + LeaseTtl, events |-> <<"started">>]]
  /\ Tell(j, Begun(r, isolates)) \/ UNCHANGED telling
  /\ UNCHANGED clock

\* A phase of the job ends and on_phase is called; record_job_step reads the
\* clock.  Only a job that isolates its phases tells of one that failed.
PhaseEnds(j, ok) ==
  LET s == telling[j] IN
  /\ s.pc = "work" /\ s.phases < MaxPhases
  /\ ok \/ s.isolates
  /\ Tell(j, [s EXCEPT !.pc = "step", !.phases = @ + 1, !.now = clock,
                       !.failed = @ \/ ~ok,
                       !.event = IF ok THEN "step_completed" ELSE "step_failed"])
  /\ UNCHANGED <<jobruns, clock>>

\* record_job_step writes, or finds the run over or stale; then
\* heartbeat_job_run reads the clock.
RecordStep(j) ==
  LET s == telling[j] IN
  /\ s.pc = "step"
  /\ jobruns' = IF Running(s.run) /\ jobruns[s.run].lease > s.now
                THEN [jobruns EXCEPT ![s.run].events = Append(@, s.event)]
                ELSE jobruns
  /\ Tell(j, [s EXCEPT !.pc = "beat", !.event = "started", !.now = clock])
  /\ UNCHANGED clock

Heartbeat(j) ==
  LET s == telling[j] IN
  /\ s.pc = "beat"
  /\ jobruns' = IF Running(s.run) /\ jobruns[s.run].lease > s.now
                THEN [jobruns EXCEPT ![s.run].lease = s.now + LeaseTtl]
                ELSE jobruns
  /\ Resume(j)
  /\ UNCHANGED clock

\* A call fails, or its answer is lost after the commit: the work goes on.
CallFails(j) ==
  LET s == telling[j] IN
  /\ s.pc \in {"step", "beat"}
  /\ Resume(j)
  /\ UNCHANGED <<jobruns, clock>>

\* Bug: the outcome of the jobs that isolate nothing.
outcome_unisolated(s, raised) == IF raised THEN "failed" ELSE "success"

\* The status a job is finished with: the except and the else of its wrapper.
outcome(s, raised) ==
  IF raised THEN "failed" ELSE IF s.failed THEN "partial_failure" ELSE "success"

\* The job ends: finish_job_run, exempt from the lease; or the call fails.
FinishJob(j, raised) ==
  LET s == telling[j] IN
  /\ s.pc = "work"
  /\ \/ jobruns' = IF Running(s.run)
                   THEN [jobruns EXCEPT ![s.run].status = outcome(s, raised),
                                        ![s.run].events = Append(@, "finished")]
                   ELSE jobruns
     \/ UNCHANGED jobruns
  /\ Tell(j, Silent)
  /\ UNCHANGED clock

\* The process of a job dies.
JobDies(j) == telling[j] # Silent /\ Tell(j, Silent) /\ UNCHANGED <<jobruns, clock>>

Tick == clock < MaxTime /\ clock' = clock + 1 /\ UNCHANGED <<jobruns, telling>>

JobNext ==
  \/ \E j \in Jobs :
       \/ \E r \in JobRunIds, isolates \in BOOLEAN : StartJob(j, r, isolates)
       \/ \E ok \in BOOLEAN : PhaseEnds(j, ok) \/ FinishJob(j, ok)
       \/ RecordStep(j) \/ Heartbeat(j) \/ CallFails(j) \/ JobDies(j)
  \/ Tick

\* No two jobs narrate one run, although a retried n8n request gives a second
\* job the run_id of the first: the lease does not tell them apart, and
\* finish_job_run asks for none.
OneNarratorPerRun ==
  \A i, j \in Jobs :
    i # j /\ telling[i] # Silent /\ telling[j] # Silent
      => telling[i].run # telling[j].run

\* A run whose timeline tells of a failed step never ends as a success, over
\* expired leases and calls that failed or lost their answer; and the timeline
\* ends with the event "finished" exactly when the run has ended.
OutcomeMatchesTimeline ==
  \A r \in JobRunIds : jobruns[r] # NoRow =>
    LET events == jobruns[r].events IN
    /\ jobruns[r].status = "success"
         => \A i \in DOMAIN events : events[i] # "step_failed"
    /\ \A i \in DOMAIN events :
         events[i] = "finished" <=> i = Len(events) /\ ~Running(r)
===============================================================================
