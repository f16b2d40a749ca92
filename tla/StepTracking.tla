----------------------------- MODULE StepTracking -----------------------------
(***************************************************************************)
(* The tracked steps of the n8n workflows: a request to /internal/<step>   *)
(* inserts a row of pipeline_runs and runs a worker, in the background of  *)
(* the request or inside it, and the worker's end is written to its row    *)
(* (src/pipeline/runs.py, src/api/internal.py).                            *)
(*                                                                         *)
(* A retried request is to be told "already_running".  The look-up and the *)
(* insertion are two statements of READ COMMITTED transactions, with no    *)
(* unique constraint behind them, and other requests come in between.      *)
(***************************************************************************)
EXTENDS Integers, Sequences

CONSTANTS
  Requests,   \* threads of the web process that serve requests
  Steps,      \* names of steps
  StepRuns,   \* run_ids that callers choose
  Anonymous,  \* stands for a run_id generated by the server, fresh every time
  MaxRows     \* bound: rows of pipeline_runs, for TLC

ASSUME StepAssumption == Anonymous \notin StepRuns /\ MaxRows \in Nat

VARIABLES
  rows,       \* pipeline_runs, by id
  serving     \* what each thread is doing

stepVars == <<rows, serving>>

Outcomes == {"success", "failed", "skipped", "partial_success"}

\* sync: inserted by a sync request, which looks nothing up; seen (history):
\* the rows there were when the request looked for a run in flight.
PipelineRun == [step : Steps, run : StepRuns \cup {Anonymous},
                status : Outcomes \cup {"running"}, sync : BOOLEAN, seen : Nat]

Idle == [pc |-> "idle"]

Serving == {Idle}
  \cup [pc : {"insert"}, step : Steps, run : StepRuns, seen : Nat]
  \cup [pc : {"work"}, row : Nat \ {0}]
  \cup [pc : {"finish"}, row : Nat \ {0}, status : Outcomes]

StepTypeOK == rows \in Seq(PipelineRun) /\ serving \in [Requests -> Serving]

StepInit == rows = <<>> /\ serving = [t \in Requests |-> Idle]

(***************************************************************************)
(*                            The status of a run                          *)
(***************************************************************************)
\* What a worker counts: chunks committed and writes failed; or, for a worker
\* that counts neither, whether it skipped its work.
Counts == [chunked : {TRUE}, committed : 0..1, failures : 0..1]
            \cup [chunked : {FALSE}, skipped : BOOLEAN]

\* Bug: the word of the coordinator and of the job runs for "some of it failed".
_resolve_status_of_job(c) ==
  IF c.chunked
  THEN IF c.failures > 0 THEN IF c.committed > 0 THEN "partial_failure" ELSE "failed"
                         ELSE IF c.committed > 0 THEN "success" ELSE "skipped"
  ELSE IF c.skipped THEN "skipped" ELSE "success"

_resolve_status(c) ==
  IF c.chunked
  THEN IF c.failures > 0 THEN IF c.committed > 0 THEN "partial_success" ELSE "failed"
                         ELSE IF c.committed > 0 THEN "success" ELSE "skipped"
  ELSE IF c.skipped THEN "skipped" ELSE "success"

(***************************************************************************)
(*                               The requests                              *)
(***************************************************************************)
Of(step, run) == {i \in DOMAIN rows : rows[i].step = step /\ rows[i].run = run}

\* Bug: the newest row is taken first, and its status looked at then.
find_newest(step, run) ==
  {i \in Of(step, run) : /\ rows[i].status = "running"
                         /\ \A j \in Of(step, run) : j <= i}

\* The rows in flight; the caller is told of the newest.
find_in_flight_run(step, run) ==
  {i \in Of(step, run) : rows[i].status = "running"}

Serve(t, s) == serving' = [serving EXCEPT ![t] = s]

Inserted(step, run, sync, seen) ==
  /\ Len(rows) < MaxRows
  /\ rows' = Append(rows, [step |-> step, run |-> run, status |-> "running",
                           sync |-> sync, seen |-> seen])

Work(i) == [pc |-> "work", row |-> i]

\* Bug: a request that finds the run in flight runs a worker for it all the same.
EnqueueAgain(t, step, run) ==
  /\ serving[t] = Idle
  /\ \/ \E i \in find_in_flight_run(step, run) : Serve(t, Work(i))
     \/ /\ find_in_flight_run(step, run) = {}
        /\ Serve(t, [pc |-> "insert", step |-> step, run |-> run,
                     seen |-> Len(rows)])
  /\ UNCHANGED rows

\* _enqueue_step with a run_id: already_running (which changes nothing), or
\* on to the insertion.  A gated import or a missing key may refuse before.
Enqueue(t, step, run) ==
  /\ serving[t] = Idle
  /\ find_in_flight_run(step, run) = {}
  /\ Serve(t, [pc |-> "insert", step |-> step, run |-> run, seen |-> Len(rows)])
  /\ UNCHANGED rows

\* start_run, and the answer "started": the background task follows.
StartRun(t) ==
  /\ serving[t].pc = "insert"
  /\ Inserted(serving[t].step, serving[t].run, FALSE, serving[t].seen)
  /\ Serve(t, Work(Len(rows) + 1))

\* _enqueue_step without a run_id.
EnqueueAnonymous(t, step) ==
  /\ serving[t] = Idle
  /\ Inserted(step, Anonymous, FALSE, Len(rows))
  /\ Serve(t, Work(Len(rows) + 1))

\* _run_step_sync, execute_tracked_step.
RunSync(t, step, run) ==
  /\ serving[t] = Idle
  /\ Inserted(step, run, TRUE, Len(rows))
  /\ Serve(t, Work(Len(rows) + 1))

\* _execute_tracked_worker: the worker returns its counts, or raises.
WorkerEnds(t) ==
  /\ serving[t].pc = "work"
  /\ \E status \in {_resolve_status(c) : c \in Counts} \cup {"failed"} :
       Serve(t, [pc |-> "finish", row |-> serving[t].row, status |-> status])
  /\ UNCHANGED rows

\* finish_run, with no look at the row's status.
FinishRun(t) ==
  /\ serving[t].pc = "finish"
  /\ rows' = [rows EXCEPT ![serving[t].row].status = serving[t].status]
  /\ Serve(t, Idle)

\* A statement of the database fails: nothing comes back to the row.
DatabaseFails(t) ==
  /\ serving[t].pc \in {"insert", "finish"}
  /\ Serve(t, Idle)
  /\ UNCHANGED rows

\* The web process dies: its background tasks are lost.
WebCrash ==
  /\ \E t \in Requests : serving[t] # Idle
  /\ serving' = [t \in Requests |-> Idle]
  /\ UNCHANGED rows

StepNext ==
  \/ \E t \in Requests, step \in Steps :
       \/ \E run \in StepRuns : Enqueue(t, step, run) \/ RunSync(t, step, run)
       \/ EnqueueAnonymous(t, step) \/ RunSync(t, step, Anonymous)
  \/ \E t \in Requests :
       StartRun(t) \/ WorkerEnds(t) \/ FinishRun(t) \/ DatabaseFails(t)
  \/ WebCrash

StepSpec == StepInit /\ [][StepNext]_stepVars

(***************************************************************************)
(*                                Properties                               *)
(***************************************************************************)
\* The outcome a poller of /internal/steps/{id} was told as done is the outcome:
\* finish_run asks for no status, so it is the hand-over of rows to workers,
\* one each, over retries and crashes, that keeps an outcome from being replaced.
StepOutcomeIsFinal ==
  [][\A i \in DOMAIN rows :
       rows[i].status # "running" =>
         i \in DOMAIN rows' /\ rows'[i].status = rows[i].status]_stepVars

\* A retry finds what it retries.  Two rows of one step and run_id are running at
\* once only if the later was asked for synchronously, or its look-up came before
\* the earlier was inserted (the race find_in_flight_run's docstring admits);
\* that the run was started twice before, or ended once, does not change it.
RetryFindsTheRunInFlight ==
  \A i, j \in DOMAIN rows :
    (/\ i < j
     /\ rows[i].step = rows[j].step /\ rows[i].run = rows[j].run
     /\ rows[i].status = "running" /\ rows[j].status = "running"
     /\ rows[j].run # Anonymous /\ ~rows[j].sync)
      => rows[j].seen < i
===============================================================================
