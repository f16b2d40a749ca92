--------------------------- MODULE MCRunCoordinator ---------------------------
(***************************************************************************)
(* Small instances of RunCoordinator for TLC.  Run_ids are interchangeable, *)
(* and so are workers and steps, in every safety property.                 *)
(***************************************************************************)
EXTENDS RunCoordinator, TLC

Symmetry == Permutations(RunIds) \cup Permutations(Workers) \cup Permutations(Steps)

(***************************************************************************)
(* Liveness.  One worker, the scheduler, does nothing but call             *)
(* begin_run(next_run), again and again; the others make any call.         *)
(***************************************************************************)
CONSTANTS scheduler, next_run

ScheduledBegin ==
  \/ BeginConflict(scheduler, next_run) \/ BeginResume(scheduler, next_run)
  \/ BeginScan(scheduler, next_run) \/ BeginWaits(scheduler, next_run)

Statements(w) ==
  BeginMissed(w) \/ BeginReused(w) \/ BeginUnused(w) \/ BeginInsert(w)
                 \/ BeginCollides(w)

NextScheduled ==
  \/ ScheduledBegin \/ Statements(scheduler)
  \/ \E w \in Workers \ {scheduler} :
       \/ Begin(w) \/ Crash(w)
       \/ \E r \in RunIds : MutateRun(w, r)
       \/ \E r \in RunIds, s \in {"true", "false"} : finish_run(w, r, s)
       \/ reap_stale_run(w)
  \/ Tick

\* Time passes; an open transaction goes on (its connection answers or it is
\* rolled back); the scheduler's calls are served in spite of the others'
\* (PostgreSQL queues the waiters of a row lock).
FairSpec ==
  /\ Init /\ [][NextScheduled]_vars
  /\ WF_vars(Tick)
  /\ \A w \in Workers \ {scheduler} : WF_vars(Statements(w) \/ Crash(w))
  /\ SF_vars(BeginScan(scheduler, next_run)) /\ SF_vars(Statements(scheduler))

\* "A dead run can never block every future run forever" (docstring of
\* run_coordinator_postgres.py): when every other run has stopped renewing its
\* lease for good, the run the scheduler asks for is begun.
DeadRunBlocksNobody ==
  (\A r \in RunIds \ {next_run} : <>[][runs'[r].lease <= runs[r].lease]_vars)
    => <>(runs[next_run].status # "absent")
===============================================================================
