-------------------------- MODULE RunHistory_proofs ---------------------------
(***************************************************************************)
(* Theorems about what is written down of a run: the tracked steps         *)
(* (pipeline_runs), the job telemetry (ops_job_runs) and the legacy JSON   *)
(* file, for any number of requests, rows, jobs, run_ids, leases, threads  *)
(* and processes.                                                          *)
(*                                                                         *)
(* A row of pipeline_runs is handed to the request that inserted it and to *)
(* no other. A job that narrates has the row of its run to itself, since   *)
(* the unique index refused everybody else's start and only its own        *)
(* finish_job_run ends it. The JSON file has no owner at all: what keeps   *)
(* it honest is that whatever a thread holds and may yet write over it was *)
(* true when the thread read it, and stays true.                           *)
(***************************************************************************)
EXTENDS LegacyCoordinator, StepTracking, JobRun, TLAPS

(***************************************************************************)
(*                               Tracked steps                               *)
(***************************************************************************)
\* A thread works for, or is about to finish, this row.
Busy(t) == serving[t].pc \in {"work", "finish"}

\* The row of a worker is running, and no two workers have one row: a row is
\* handed to the request that inserted it, and to no other.
WorkersOwnTheirRows ==
  \A t \in Requests : Busy(t) =>
    /\ serving[t].row \in DOMAIN rows
    /\ rows[serving[t].row].status = "running"
    /\ \A u \in Requests \ {t} : Busy(u) => serving[u].row # serving[t].row

\* What a look-up found not to be running will never run again.
LookedUpIsOver(rs, step, run, seen) ==
  \A i \in DOMAIN rs :
    i <= seen /\ rs[i].step = step /\ rs[i].run = run
      => rs[i].status # "running"

LookUpsHold ==
  /\ \A t \in Requests : serving[t].pc = "insert" =>
       /\ serving[t].seen <= Len(rows)
       /\ LookedUpIsOver(rows, serving[t].step, serving[t].run, serving[t].seen)
  /\ \A j \in DOMAIN rows :
       /\ rows[j].seen < j
       /\ rows[j].run # Anonymous /\ ~rows[j].sync
            => LookedUpIsOver(rows, rows[j].step, rows[j].run, rows[j].seen)

StepInv == StepTypeOK /\ WorkersOwnTheirRows /\ LookUpsHold

\* Every status a run is finished with is an outcome, "running" is none.
LEMMA ResolvesToOutcome ==
  ASSUME NEW c \in Counts
  PROVE  _resolve_status(c) \in Outcomes
BY DEF Counts, _resolve_status, Outcomes

\* The step that inserts a row: the rows that were there stay as they are.
LEMMA InsertedRow ==
  ASSUME StepTypeOK,
         NEW step \in Steps, NEW run \in StepRuns \cup {Anonymous},
         NEW sync \in BOOLEAN, NEW seen \in Nat,
         Inserted(step, run, sync, seen)
  PROVE  /\ rows' \in Seq(PipelineRun)
         /\ Len(rows') = Len(rows) + 1
         /\ DOMAIN rows' = DOMAIN rows \cup {Len(rows) + 1}
         /\ \A i \in DOMAIN rows : rows'[i] = rows[i]
         /\ rows'[Len(rows) + 1] =
              [step |-> step, run |-> run, status |-> "running",
               sync |-> sync, seen |-> seen]
<1> DEFINE r == [step |-> step, run |-> run, status |-> "running",
                 sync |-> sync, seen |-> seen]
<1>1. rows \in Seq(PipelineRun) /\ Len(rows) \in Nat
  BY DEF StepTypeOK
<1>2. r \in PipelineRun
  BY DEF PipelineRun
<1>3. rows' = Append(rows, r)
  BY DEF Inserted
<1> HIDE DEF r
<1>4. QED
  BY <1>1, <1>2, <1>3 DEF r

\* The row a request inserts is numbered after all rows, so it is nobody else's.
LEMMA InsertionStep ==
  ASSUME StepInv, NEW t \in Requests,
         NEW step \in Steps, NEW run \in StepRuns \cup {Anonymous},
         NEW sync \in BOOLEAN, NEW seen \in 0..Len(rows),
         Inserted(step, run, sync, seen),
         Serve(t, Work(Len(rows) + 1)),
         run # Anonymous /\ ~sync => LookedUpIsOver(rows, step, run, seen)
  PROVE  StepInv'
<1>1. /\ rows \in Seq(PipelineRun) /\ Len(rows) \in Nat /\ DOMAIN rows = 1..Len(rows)
      /\ serving \in [Requests -> Serving]
  BY DEF StepInv, StepTypeOK
<1>2. /\ rows' \in Seq(PipelineRun)
      /\ Len(rows') = Len(rows) + 1
      /\ DOMAIN rows' = DOMAIN rows \cup {Len(rows) + 1}
      /\ \A i \in DOMAIN rows : rows'[i] = rows[i]
      /\ rows'[Len(rows) + 1] =
           [step |-> step, run |-> run, status |-> "running",
            sync |-> sync, seen |-> seen]
  <2>1. StepTypeOK /\ seen \in Nat
    BY <1>1 DEF StepInv
  <2>2. QED
    BY <2>1, InsertedRow
<1>3. /\ serving'[t] = Work(Len(rows) + 1)
      /\ \A u \in Requests \ {t} : serving'[u] = serving[u]
  BY <1>1 DEF Serve
<1>4. StepTypeOK'
  <2>1. Work(Len(rows) + 1) \in Serving
    BY <1>1 DEF Work, Serving
  <2>2. QED
    BY <1>1, <1>2, <2>1 DEF Serve, StepTypeOK
<1>5. WorkersOwnTheirRows'
  <2> SUFFICES ASSUME NEW u \in Requests, Busy(u)'
               PROVE  /\ serving'[u].row \in DOMAIN rows'
                      /\ rows'[serving'[u].row].status = "running"
                      /\ \A v \in Requests \ {u} :
                           Busy(v)' => serving'[v].row # serving'[u].row
    BY DEF WorkersOwnTheirRows
  <2>1. \A v \in Requests \ {t} : Busy(v)' =>
          /\ serving[v].row \in DOMAIN rows
          /\ rows[serving[v].row].status = "running"
          /\ serving[v].row # Len(rows) + 1
          /\ serving'[v] = serving[v] /\ Busy(v)
    BY <1>1, <1>3 DEF StepInv, WorkersOwnTheirRows, Busy
  <2>2. serving'[t].row = Len(rows) + 1
    BY <1>3 DEF Work
  <2>3. CASE u = t
    BY <2>1, <2>2, <2>3, <1>2
  <2>4. CASE u # t
    <3>1. \A v \in Requests \ {u} : Busy(v)' => serving'[v].row # serving'[u].row
      BY <2>1, <2>2, <2>4 DEF StepInv, WorkersOwnTheirRows
    <3>2. QED
      BY <2>1, <2>4, <3>1, <1>2
  <2>5. QED
    BY <2>3, <2>4
<1>6. LookUpsHold'
  <2>1. \A st \in Steps, rn \in StepRuns \cup {Anonymous}, n \in 0..Len(rows) :
          LookedUpIsOver(rows, st, rn, n) => LookedUpIsOver(rows', st, rn, n)
    BY <1>1, <1>2 DEF LookedUpIsOver
  <2>2. ASSUME NEW u \in Requests, serving'[u].pc = "insert"
        PROVE  /\ serving'[u].seen <= Len(rows')
               /\ LookedUpIsOver(rows', serving'[u].step, serving'[u].run, serving'[u].seen)
    <3>1. u # t /\ serving'[u] = serving[u]
      BY <1>3, <2>2 DEF Work
    <3>2. serving[u].seen <= Len(rows)
          /\ LookedUpIsOver(rows, serving[u].step, serving[u].run, serving[u].seen)
      BY <3>1, <2>2 DEF StepInv, LookUpsHold
    <3>3. /\ serving[u].step \in Steps /\ serving[u].run \in StepRuns
          /\ serving[u].seen \in Nat
      BY <1>1, <3>1, <2>2 DEF Serving, Idle
    <3>4. LookedUpIsOver(rows', serving[u].step, serving[u].run, serving[u].seen)
      <4>1. serving[u].seen \in 0..Len(rows)
        BY <3>2, <3>3, <1>1
      <4>2. QED
        BY <2>1, <3>2, <3>3, <4>1
    <3>5. QED
      BY <3>1, <3>2, <3>3, <3>4, <1>1, <1>2
  <2>3. ASSUME NEW j \in DOMAIN rows'
        PROVE  /\ rows'[j].seen < j
               /\ rows'[j].run # Anonymous /\ ~rows'[j].sync
                    => LookedUpIsOver(rows', rows'[j].step, rows'[j].run, rows'[j].seen)
    <3>1. CASE j = Len(rows) + 1
      <4>1. rows'[j].seen = seen /\ rows'[j].run = run /\ rows'[j].sync = sync
            /\ rows'[j].step = step
        BY <3>1, <1>2
      <4>2. run # Anonymous /\ ~sync => LookedUpIsOver(rows', step, run, seen)
        BY <2>1
      <4>3. QED
        BY <4>1, <4>2, <3>1, <1>1, <1>2 DEF LookedUpIsOver
    <3>2. CASE j \in DOMAIN rows
      <4>1. rows'[j] = rows[j] /\ rows[j] \in PipelineRun
        BY <3>2, <1>1, <1>2
      <4>2. rows[j].seen < j /\ rows[j].seen \in 0..Len(rows)
        BY <4>1, <3>2, <1>1 DEF StepInv, LookUpsHold, PipelineRun
      <4>3. rows[j].run # Anonymous /\ ~rows[j].sync
              => LookedUpIsOver(rows', rows[j].step, rows[j].run, rows[j].seen)
        BY <2>1, <4>1, <4>2, <3>2 DEF StepInv, LookUpsHold, PipelineRun
      <4>4. QED
        BY <4>1, <4>2, <4>3, <1>1, <1>2 DEF LookedUpIsOver
    <3>3. QED
      BY <3>1, <3>2, <1>2
  <2>4. QED
    BY <2>2, <2>3 DEF LookUpsHold
<1>7. QED
  BY <1>4, <1>5, <1>6 DEF StepInv

\* Every step of the system keeps the rows with their workers, and what
\* look-ups found.
LEMMA StepInvStep ==
  ASSUME StepInv, [StepNext]_stepVars
  PROVE  StepInv'
<1>1. /\ rows \in Seq(PipelineRun) /\ Len(rows) \in Nat /\ DOMAIN rows = 1..Len(rows)
      /\ serving \in [Requests -> Serving]
  BY DEF StepInv, StepTypeOK
<1>2. ASSUME NEW t \in Requests, NEW step \in Steps, NEW run \in StepRuns,
             Enqueue(t, step, run)
      PROVE  StepInv'
  <2> DEFINE s == [pc |-> "insert", step |-> step, run |-> run, seen |-> Len(rows)]
  <2>1. rows' = rows /\ serving' = [serving EXCEPT ![t] = s]
    BY <1>2 DEF Enqueue, Serve
  <2>2. s \in Serving
    BY <1>1 DEF Serving
  <2>3. /\ s.pc = "insert" /\ s.seen = Len(rows)
        /\ LookedUpIsOver(rows, s.step, s.run, s.seen)
    BY <1>2, <1>1 DEF Enqueue, find_in_flight_run, Of, LookedUpIsOver
  <2> HIDE DEF s
  <2>4. /\ serving'[t] = s
        /\ \A u \in Requests \ {t} : serving'[u] = serving[u]
    BY <2>1, <1>1
  <2>5. StepTypeOK'
    BY <2>1, <2>2, <1>1 DEF StepTypeOK
  <2>6. WorkersOwnTheirRows'
    BY <2>1, <2>3, <2>4 DEF StepInv, WorkersOwnTheirRows, Busy
  <2>7. LookUpsHold'
    <3>1. ASSUME NEW u \in Requests, serving'[u].pc = "insert"
          PROVE  /\ serving'[u].seen <= Len(rows)
                 /\ LookedUpIsOver(rows, serving'[u].step, serving'[u].run,
                                   serving'[u].seen)
      BY <1>1, <2>3, <2>4, <3>1 DEF StepInv, LookUpsHold
    <3>2. QED
      BY <2>1, <3>1 DEF StepInv, LookUpsHold
  <2>8. QED
    BY <2>5, <2>6, <2>7 DEF StepInv
<1>3. ASSUME NEW t \in Requests, StartRun(t)
      PROVE  StepInv'
  <2> DEFINE s == serving[t]
  <2>1. /\ s.pc = "insert" /\ s.step \in Steps /\ s.run \in StepRuns /\ s.seen \in Nat
    BY <1>1, <1>3 DEF StartRun, Serving, Idle
  <2>2. /\ s.seen \in 0..Len(rows)
        /\ LookedUpIsOver(rows, s.step, s.run, s.seen)
    BY <1>1, <2>1 DEF StepInv, LookUpsHold
  <2>3. Inserted(s.step, s.run, FALSE, s.seen) /\ Serve(t, Work(Len(rows) + 1))
    BY <1>3 DEF StartRun
  <2>4. QED
    BY <2>1, <2>2, <2>3, InsertionStep
<1>4. ASSUME NEW t \in Requests, NEW step \in Steps, EnqueueAnonymous(t, step)
      PROVE  StepInv'
  <2>1. /\ Inserted(step, Anonymous, FALSE, Len(rows))
        /\ Serve(t, Work(Len(rows) + 1))
    BY <1>4 DEF EnqueueAnonymous
  <2>2. Len(rows) \in 0..Len(rows) /\ Anonymous \in StepRuns \cup {Anonymous}
    BY <1>1
  <2>3. QED
    BY <2>1, <2>2, InsertionStep
<1>5. ASSUME NEW t \in Requests, NEW step \in Steps,
             NEW run \in StepRuns \cup {Anonymous}, RunSync(t, step, run)
      PROVE  StepInv'
  <2>1. /\ Inserted(step, run, TRUE, Len(rows))
        /\ Serve(t, Work(Len(rows) + 1))
    BY <1>5 DEF RunSync
  <2>2. Len(rows) \in 0..Len(rows) /\ ~(~TRUE)
    BY <1>1
  <2>3. QED
    BY <2>1, <2>2, InsertionStep
<1>6. ASSUME NEW t \in Requests, WorkerEnds(t)
      PROVE  StepInv'
  <2>1. PICK status \in Outcomes :
          serving' = [serving EXCEPT ![t] =
                        [pc |-> "finish", row |-> serving[t].row, status |-> status]]
    <3>1. {_resolve_status(c) : c \in Counts} \cup {"failed"} \subseteq Outcomes
      BY ResolvesToOutcome DEF Outcomes
    <3>2. QED
      BY <1>6, <3>1 DEF WorkerEnds, Serve
  <2> DEFINE s == [pc |-> "finish", row |-> serving[t].row, status |-> status]
  <2>2. rows' = rows /\ serving[t].pc = "work" /\ serving[t].row \in Nat \ {0}
    BY <1>1, <1>6 DEF WorkerEnds, Serving, Idle
  <2>3. s \in Serving
    BY <2>2 DEF Serving
  <2>4. s.pc = "finish" /\ s.row = serving[t].row
    OBVIOUS
  <2>5. /\ serving'[t] = s
        /\ \A u \in Requests \ {t} : serving'[u] = serving[u]
    BY <2>1, <1>1
  <2>6. StepTypeOK'
    BY <2>1, <2>2, <2>3, <1>1 DEF StepTypeOK
  <2> HIDE DEF s
  <2>7. WorkersOwnTheirRows'
    <3>1. \A u \in Requests : (Busy(u)' <=> Busy(u)) /\ (Busy(u) => serving'[u].row = serving[u].row)
      BY <2>2, <2>4, <2>5 DEF Busy
    <3>2. QED
      BY <2>2, <3>1 DEF StepInv, WorkersOwnTheirRows
  <2>8. LookUpsHold'
    BY <2>2, <2>4, <2>5 DEF StepInv, LookUpsHold
  <2>9. QED
    BY <2>6, <2>7, <2>8 DEF StepInv
<1>7. ASSUME NEW t \in Requests, FinishRun(t)
      PROVE  StepInv'
  <2> DEFINE i == serving[t].row
  <2>1. /\ serving[t].pc = "finish" /\ serving[t].status \in Outcomes
        /\ i \in DOMAIN rows /\ Busy(t)
    BY <1>1, <1>7 DEF FinishRun, Serving, Idle, StepInv, WorkersOwnTheirRows, Busy
  <2>2. /\ rows' = [rows EXCEPT ![i].status = serving[t].status]
        /\ serving' = [serving EXCEPT ![t] = Idle]
    BY <1>7 DEF FinishRun, Serve
  <2>3. /\ rows' \in Seq(PipelineRun) /\ Len(rows') = Len(rows)
        /\ DOMAIN rows' = DOMAIN rows
    <3>1. rows[i] \in PipelineRun
      BY <1>1, <2>1
    <3>2. [rows[i] EXCEPT !.status = serving[t].status] \in PipelineRun
      BY <3>1, <2>1 DEF PipelineRun
    <3>3. QED
      BY <1>1, <2>1, <2>2, <3>2
  <2>4. \A j \in DOMAIN rows :
          /\ rows'[j].step = rows[j].step /\ rows'[j].run = rows[j].run
          /\ rows'[j].sync = rows[j].sync /\ rows'[j].seen = rows[j].seen
          /\ rows'[j].status = IF j = i THEN serving[t].status ELSE rows[j].status
    <3>1. \A j \in DOMAIN rows : rows[j] \in PipelineRun
      BY <1>1
    <3>2. QED
      BY <1>1, <2>1, <2>2, <3>1 DEF PipelineRun
  <2>5. /\ serving'[t] = Idle
        /\ \A u \in Requests \ {t} : serving'[u] = serving[u]
    BY <2>2, <1>1
  <2>6. StepTypeOK'
    BY <2>2, <2>3, <1>1 DEF StepTypeOK, Serving
  <2>7. WorkersOwnTheirRows'
    <3>1. \A u \in Requests : Busy(u)' =>
            /\ u # t /\ Busy(u) /\ serving'[u] = serving[u]
            /\ serving[u].row \in DOMAIN rows /\ serving[u].row # i
            /\ rows[serving[u].row].status = "running"
      BY <2>1, <2>5 DEF Busy, Idle, StepInv, WorkersOwnTheirRows
    <3>2. QED
      BY <2>3, <2>4, <3>1 DEF StepInv, WorkersOwnTheirRows
  <2>8. LookUpsHold'
    <3>1. \A st, rn, n : LookedUpIsOver(rows, st, rn, n) => LookedUpIsOver(rows', st, rn, n)
      BY <2>1, <2>3, <2>4 DEF LookedUpIsOver, Outcomes
    <3>2. \A u \in Requests : serving'[u].pc = "insert" => serving'[u] = serving[u]
      BY <2>5 DEF Idle
    <3>3. ASSUME NEW u \in Requests, serving'[u].pc = "insert"
          PROVE  /\ serving'[u].seen <= Len(rows')
                 /\ LookedUpIsOver(rows', serving'[u].step, serving'[u].run,
                                   serving'[u].seen)
      BY <2>3, <3>1, <3>2, <3>3 DEF StepInv, LookUpsHold
    <3>4. ASSUME NEW j \in DOMAIN rows'
          PROVE  /\ rows'[j].seen < j
                 /\ rows'[j].run # Anonymous /\ ~rows'[j].sync
                      => LookedUpIsOver(rows', rows'[j].step, rows'[j].run, rows'[j].seen)
      BY <2>3, <2>4, <3>1 DEF StepInv, LookUpsHold
    <3>5. QED
      BY <3>3, <3>4 DEF LookUpsHold
  <2>9. QED
    BY <2>6, <2>7, <2>8 DEF StepInv
<1>8. ASSUME NEW t \in Requests, DatabaseFails(t)
      PROVE  StepInv'
  <2>1. /\ rows' = rows /\ serving' \in [Requests -> Serving]
        /\ serving'[t] = Idle
        /\ \A u \in Requests \ {t} : serving'[u] = serving[u]
    BY <1>1, <1>8 DEF DatabaseFails, Serve, Serving
  <2>2. WorkersOwnTheirRows'
    BY <2>1 DEF Busy, Idle, StepInv, WorkersOwnTheirRows
  <2>3. LookUpsHold'
    BY <2>1 DEF Idle, StepInv, LookUpsHold
  <2>4. QED
    BY <1>1, <2>1, <2>2, <2>3 DEF StepInv, StepTypeOK
<1>9. ASSUME WebCrash
      PROVE  StepInv'
  <2>1. /\ rows' = rows /\ serving' \in [Requests -> Serving]
        /\ \A u \in Requests : serving'[u] = Idle
    BY <1>9 DEF WebCrash, Serving
  <2>2. QED
    BY <1>1, <2>1 DEF Busy, Idle, StepInv, StepTypeOK, WorkersOwnTheirRows, LookUpsHold
<1>10. ASSUME UNCHANGED stepVars
       PROVE  StepInv'
  BY <1>10 DEF stepVars, StepInv, StepTypeOK, WorkersOwnTheirRows, Busy, LookUpsHold
<1>11. QED
  BY <1>2, <1>3, <1>4, <1>5, <1>6, <1>7, <1>8, <1>9, <1>10 DEF StepNext

\* The inductive invariant of the tracked steps.
THEOREM StepInvariant == StepSpec => []StepInv
<1>1. StepInit => StepInv
  BY DEF StepInit, StepInv, StepTypeOK, WorkersOwnTheirRows, LookUpsHold, Busy,
         Idle, Serving
<1>2. StepInv /\ [StepNext]_stepVars => StepInv'
  BY StepInvStep
<1>3. QED
  BY <1>1, <1>2, PTL DEF StepSpec

\* A look-up of an asynchronous retry that follows the insertion finds the run
\* that is in flight (find_in_flight_run, _enqueue_step).
THEOREM StepRetries == StepSpec => []RetryFindsTheRunInFlight
<1>1. StepInv => RetryFindsTheRunInFlight
  <2> SUFFICES ASSUME StepInv, NEW i \in DOMAIN rows, NEW j \in DOMAIN rows, i < j,
                      rows[i].step = rows[j].step, rows[i].run = rows[j].run,
                      rows[i].status = "running",
                      rows[j].run # Anonymous, ~rows[j].sync
               PROVE  rows[j].seen < i
    BY DEF RetryFindsTheRunInFlight
  <2>1. LookedUpIsOver(rows, rows[j].step, rows[j].run, rows[j].seen)
    BY DEF StepInv, LookUpsHold
  <2>2. rows[j].seen \in Nat /\ i \in Nat
    <3>1. rows \in Seq(PipelineRun) /\ rows[j] \in PipelineRun
      BY DEF StepInv, StepTypeOK
    <3>2. QED
      BY <3>1 DEF PipelineRun
  <2>3. ~(i <= rows[j].seen)
    BY <2>1 DEF LookedUpIsOver
  <2>4. QED
    BY <2>2, <2>3
<1>2. QED
  BY <1>1, StepInvariant, PTL

\* finish_run never replaces an outcome, although it looks at no status.
THEOREM StepOutcomes == StepSpec => StepOutcomeIsFinal
<1> DEFINE A == \A i \in DOMAIN rows :
                  rows[i].status # "running" =>
                    i \in DOMAIN rows' /\ rows'[i].status = rows[i].status
<1>1. StepInv /\ [StepNext]_stepVars => [A]_stepVars
  <2> SUFFICES ASSUME StepInv, StepNext PROVE A
    BY DEF stepVars
  <2>1. StepTypeOK
    BY DEF StepInv
  <2>2. ASSUME NEW step \in Steps, NEW run \in StepRuns \cup {Anonymous},
               NEW sync \in BOOLEAN, NEW seen \in Nat,
               Inserted(step, run, sync, seen)
        PROVE  A
    BY <2>1, <2>2, InsertedRow
  <2>3. ASSUME NEW t \in Requests, FinishRun(t)
        PROVE  A
    <3>1. /\ rows \in Seq(PipelineRun) /\ serving \in [Requests -> Serving]
          /\ serving[t].pc = "finish"
      BY <2>1, <2>3 DEF StepTypeOK, FinishRun
    <3>2. serving[t].row \in DOMAIN rows /\ rows[serving[t].row].status = "running"
      BY <3>1 DEF StepInv, WorkersOwnTheirRows, Busy
    <3>3. rows' = [rows EXCEPT ![serving[t].row].status = serving[t].status]
      BY <2>3 DEF FinishRun
    <3>4. QED
      BY <3>1, <3>2, <3>3
  <2>4. ASSUME NEW t \in Requests, StartRun(t)
        PROVE  A
    <3>1. serving[t].step \in Steps /\ serving[t].run \in StepRuns /\ serving[t].seen \in Nat
      BY <2>1, <2>4 DEF StepTypeOK, StartRun, Serving, Idle
    <3>2. QED
      BY <2>4, <3>1, <2>2 DEF StartRun
  <2>5. Len(rows) \in Nat
    BY <2>1 DEF StepTypeOK
  <2>6. QED
    BY <2>2, <2>3, <2>4, <2>5
       DEF StepNext, Enqueue, RunSync, EnqueueAnonymous, WorkerEnds, DatabaseFails, WebCrash
<1> HIDE DEF A
<1>2. StepSpec => [][A]_stepVars
  BY <1>1, StepInvariant, PTL DEF StepSpec
<1>3. QED
  BY <1>2 DEF StepOutcomeIsFinal, A

(***************************************************************************)
(*                               Job telemetry                               *)
(***************************************************************************)
JobTells(j) == telling[j] # Silent

\* The timeline of one row fits its status.
FitsTimeline(row) ==
  /\ row.status = "success" => \A i \in DOMAIN row.events : row.events[i] # "step_failed"
  /\ \A i \in DOMAIN row.events :
       row.events[i] = "finished" <=> i = Len(row.events) /\ row.status # "running"

\* What a job that tells s of its row remembers, and is about to write.
Narrates(s, row) ==
  /\ row # NoRow /\ row.status = "running"
  /\ s.pc = "step" => s.event \in {"step_completed", "step_failed"}
  /\ s.pc = "step" /\ s.event = "step_failed" => s.failed
  /\ \A i \in DOMAIN row.events : row.events[i] = "step_failed" => s.failed

NarratorsRemember == \A j \in Jobs : JobTells(j) => Narrates(telling[j], jobruns[telling[j].run])

JobInv == JobTypeOK /\ OneNarratorPerRun /\ NarratorsRemember /\ OutcomeMatchesTimeline

\* A job that narrates has a run and a place in its program.
LEMMA TellingTypes ==
  ASSUME NEW s \in Telling, s # Silent
  PROVE  /\ s \in [pc : {"work", "step", "beat"}, run : JobRunIds, isolates : BOOLEAN,
                   failed : BOOLEAN, phases : 0..MaxPhases, event : Event, now : Nat]
         /\ s.run \in JobRunIds
BY DEF Telling

\* A row that is there has a timeline.
LEMMA RowTypes ==
  ASSUME NEW row \in JobRow, row # NoRow
  PROVE  /\ row \in [status : {"running", "success", "failed", "partial_failure"},
                     lease : Nat, events : Seq(Event)]
         /\ row.events \in Seq(Event) /\ row.lease \in Nat
BY DEF JobRow

\* A job that narrates goes on as t, and leaves its row as `row`; or falls silent.
LEMMA Tells ==
  ASSUME JobInv, NEW j \in Jobs, JobTells(j), NEW t \in Telling, Tell(j, t),
         NEW row \in JobRow, row # NoRow,
         jobruns' = [jobruns EXCEPT ![telling[j].run] = row], UNCHANGED clock,
         FitsTimeline(row),
         t # Silent => t.run = telling[j].run /\ Narrates(t, row)
  PROVE  JobInv'
<1> DEFINE r == telling[j].run
<1>1. r \in JobRunIds
  BY TellingTypes DEF JobInv, JobTypeOK, JobTells
<1>2. /\ telling' \in [Jobs -> Telling]
      /\ telling'[j] = t
      /\ \A i \in Jobs \ {j} : telling'[i] = telling[i]
  BY DEF JobInv, JobTypeOK, Tell
<1>3. /\ jobruns' \in [JobRunIds -> JobRow]
      /\ jobruns'[r] = row
      /\ \A q \in JobRunIds \ {r} : jobruns'[q] = jobruns[q]
  BY <1>1 DEF JobInv, JobTypeOK
<1>4. JobTypeOK'
  BY <1>2, <1>3 DEF JobInv, JobTypeOK
<1>5. OneNarratorPerRun'
  BY <1>2 DEF JobInv, OneNarratorPerRun, JobTells
<1>6. NarratorsRemember'
  <2> SUFFICES ASSUME NEW i \in Jobs, telling'[i] # Silent
               PROVE  Narrates(telling'[i], jobruns'[telling'[i].run])
    BY DEF NarratorsRemember, JobTells
  <2>1. CASE i = j
    BY <2>1, <1>2, <1>3
  <2>2. CASE i # j
    <3>1. telling[i] # Silent /\ telling[i].run # r
      BY <2>2, <1>2 DEF JobInv, OneNarratorPerRun, JobTells
    <3>2. telling[i].run \in JobRunIds
      BY <3>1, TellingTypes DEF JobInv, JobTypeOK
    <3> QED BY <2>2, <3>1, <3>2, <1>2, <1>3 DEF JobInv, NarratorsRemember, JobTells
  <2> QED BY <2>1, <2>2
<1>7. OutcomeMatchesTimeline'
  <2> SUFFICES ASSUME NEW q \in JobRunIds, jobruns'[q] # NoRow
               PROVE  FitsTimeline(jobruns'[q])
    BY DEF OutcomeMatchesTimeline, FitsTimeline, Running
  <2>1. CASE q = r
    BY <2>1, <1>3
  <2>2. CASE q # r
    BY <2>2, <1>3 DEF JobInv, OutcomeMatchesTimeline, FitsTimeline, Running
  <2> QED BY <2>1, <2>2
<1> QED BY <1>4, <1>5, <1>6, <1>7 DEF JobInv

\* The same when the row is left alone.
LEMMA TellsNothing ==
  ASSUME JobInv, NEW j \in Jobs, JobTells(j), NEW t \in Telling, Tell(j, t),
         UNCHANGED <<jobruns, clock>>,
         t # Silent => t.run = telling[j].run /\ Narrates(t, jobruns[telling[j].run])
  PROVE  JobInv'
<1> DEFINE r == telling[j].run
<1>1. r \in JobRunIds
  BY TellingTypes DEF JobInv, JobTypeOK, JobTells
<1>2. jobruns[r] \in JobRow /\ jobruns[r] # NoRow
  BY <1>1 DEF JobInv, JobTypeOK, NarratorsRemember, Narrates
<1>3. jobruns' = [jobruns EXCEPT ![r] = jobruns[r]]
  BY <1>1 DEF JobInv, JobTypeOK
<1>4. FitsTimeline(jobruns[r])
  BY <1>1, <1>2 DEF JobInv, OutcomeMatchesTimeline, FitsTimeline, Running
<1> QED BY <1>2, <1>3, <1>4, Tells
\* start_job_run inserts a row that nobody tells of.
LEMMA StartsRun ==
  ASSUME JobInv, NEW j \in Jobs, NEW r \in JobRunIds, NEW isolates \in BOOLEAN,
         StartJob(j, r, isolates)
  PROVE  JobInv'
<1> DEFINE row == [status |-> "running", lease |-> clock + LeaseTtl, events |-> <<"started">>]
           t == telling'[j]
<1>1. row \in JobRow /\ row # NoRow /\ FitsTimeline(row)
  <2>1. clock + LeaseTtl \in Nat
    BY JobAssumption DEF JobInv, JobTypeOK
  <2>2. <<"started">> \in Seq(Event) /\ Len(<<"started">>) = 1 /\ DOMAIN <<"started">> = {1}
    BY DEF Event
  <2>3. row.events = <<"started">> /\ row.status = "running"
    OBVIOUS
  <2>4. row \in JobRow
    BY <2>1, <2>2 DEF JobRow
  <2>5. row # NoRow
    BY <2>3 DEF NoRow
  <2>6. \A i \in DOMAIN row.events : row.events[i] = "started"
    BY <2>2, <2>3
  <2> QED BY <2>3, <2>4, <2>5, <2>6 DEF FitsTimeline
<1>2. t = telling[j] \/ t = Begun(r, isolates)
  BY DEF StartJob, Tell, JobInv, JobTypeOK
<1>3. telling[j] = Silent /\ \A i \in Jobs \ {j} : telling'[i] = telling[i]
  BY DEF StartJob, Tell, JobInv, JobTypeOK
<1>4. Begun(r, isolates) \in Telling
  BY JobAssumption DEF Begun, Telling, Event
<1>5. telling' \in [Jobs -> Telling]
  BY <1>4 DEF StartJob, Tell, JobInv, JobTypeOK
<1>6. /\ jobruns' \in [JobRunIds -> JobRow]
      /\ jobruns'[r] = row
      /\ \A q \in JobRunIds \ {r} : jobruns'[q] = jobruns[q]
  BY <1>1 DEF StartJob, JobInv, JobTypeOK
<1>7. JobTypeOK'
  BY <1>5, <1>6 DEF StartJob, JobInv, JobTypeOK
<1>8. \A i \in Jobs : telling[i] # Silent => telling[i].run \in JobRunIds \ {r}
  <2> SUFFICES ASSUME NEW i \in Jobs, telling[i] # Silent
               PROVE  telling[i].run \in JobRunIds \ {r}
    OBVIOUS
  <2>1. telling[i].run \in JobRunIds
    BY TellingTypes DEF JobInv, JobTypeOK
  <2>2. jobruns[telling[i].run] # NoRow
    BY DEF JobInv, NarratorsRemember, Narrates, JobTells
  <2> QED BY <2>1, <2>2 DEF StartJob
<1>9. Begun(r, isolates).run = r /\ Begun(r, isolates).pc = "work"
  BY DEF Begun
<1>10. OneNarratorPerRun'
  <2> SUFFICES ASSUME NEW i \in Jobs, NEW k \in Jobs, i # k,
                      telling'[i] # Silent, telling'[k] # Silent
               PROVE  telling'[i].run # telling'[k].run
    BY DEF OneNarratorPerRun
  <2>1. CASE i # j /\ k # j
    BY <2>1, <1>3 DEF JobInv, OneNarratorPerRun
  <2>2. CASE i = j
    BY <2>2, <1>2, <1>3, <1>8, <1>9
  <2>3. CASE k = j
    BY <2>3, <1>2, <1>3, <1>8, <1>9
  <2> QED BY <2>1, <2>2, <2>3
<1>11. NarratorsRemember'
  <2> SUFFICES ASSUME NEW i \in Jobs, telling'[i] # Silent
               PROVE  Narrates(telling'[i], jobruns'[telling'[i].run])
    BY DEF NarratorsRemember, JobTells
  <2>1. CASE i = j
    <3>1. telling'[i] = Begun(r, isolates)
      BY <2>1, <1>2, <1>3
    <3>2. \A n \in DOMAIN row.events : row.events[n] # "step_failed"
      OBVIOUS
    <3> QED BY <3>1, <3>2, <1>1, <1>6, <1>9 DEF Narrates
  <2>2. CASE i # j
    <3>1. telling[i] # Silent /\ telling'[i] = telling[i]
      BY <2>2, <1>3
    <3> QED BY <3>1, <1>6, <1>8 DEF JobInv, NarratorsRemember, JobTells
  <2> QED BY <2>1, <2>2
<1>12. OutcomeMatchesTimeline'
  <2> SUFFICES ASSUME NEW q \in JobRunIds, jobruns'[q] # NoRow
               PROVE  FitsTimeline(jobruns'[q])
    BY DEF OutcomeMatchesTimeline, FitsTimeline, Running
  <2>1. CASE q = r
    BY <2>1, <1>1, <1>6
  <2>2. CASE q # r
    BY <2>2, <1>6 DEF JobInv, OutcomeMatchesTimeline, FitsTimeline, Running
  <2> QED BY <2>1, <2>2
<1> QED BY <1>7, <1>10, <1>11, <1>12 DEF JobInv

\* A phase ends; the job remembers whether one has failed.
LEMMA EndsPhase ==
  ASSUME JobInv, NEW j \in Jobs, NEW ok \in BOOLEAN, PhaseEnds(j, ok)
  PROVE  JobInv'
<1> DEFINE s == telling[j]
           t == [s EXCEPT !.pc = "step", !.phases = @ + 1, !.now = clock,
                          !.failed = @ \/ ~ok,
                          !.event = IF ok THEN "step_completed" ELSE "step_failed"]
<1>1. s \in Telling /\ s # Silent
  BY DEF PhaseEnds, JobInv, JobTypeOK, Silent
<1>2. /\ t \in Telling
      /\ t.pc = "step" /\ t.run = s.run /\ t.failed = (s.failed \/ ~ok)
      /\ t.event = IF ok THEN "step_completed" ELSE "step_failed"
  <2>1. s.phases + 1 \in 0..MaxPhases /\ clock \in Nat
    BY <1>1, TellingTypes, JobAssumption DEF PhaseEnds, JobInv, JobTypeOK
  <2>2. (s.failed \/ ~ok) \in BOOLEAN
    BY <1>1, TellingTypes
  <2> QED BY <1>1, <2>1, <2>2, TellingTypes DEF Telling, Event
<1>3. Narrates(s, jobruns[s.run])
  BY <1>1 DEF JobInv, NarratorsRemember, JobTells
<1>4. Narrates(t, jobruns[s.run])
  <2>1. t.failed \/ t.event = "step_completed"
    BY <1>2
  <2>2. s.failed => t.failed
    BY <1>2
  <2>3. t.event \in {"step_completed", "step_failed"}
    BY <1>2
  <2>4. "step_completed" # "step_failed"
    OBVIOUS
  <2> HIDE DEF t, s
  <2> QED BY <1>3, <2>1, <2>2, <2>3, <2>4 DEF Narrates
<1> QED BY <1>1, <1>2, <1>4, TellsNothing DEF PhaseEnds, JobTells

\* An event is appended by the job that has the row, while its lease is good.
LEMMA RecordsStep ==
  ASSUME JobInv, NEW j \in Jobs, RecordStep(j)
  PROVE  JobInv'
<1> DEFINE s == telling[j]
           r == s.run
           old == jobruns[r]
           t == [s EXCEPT !.pc = "beat", !.event = "started", !.now = clock]
           row == [old EXCEPT !.events = Append(@, s.event)]
<1>1. s \in Telling /\ s # Silent /\ s.pc = "step"
  BY DEF RecordStep, JobInv, JobTypeOK, Silent
<1>2. t \in Telling /\ t.pc = "beat" /\ t.run = r /\ t.failed = s.failed
  <2>1. clock \in Nat
    BY JobAssumption DEF JobInv, JobTypeOK
  <2> QED BY <1>1, <2>1, TellingTypes DEF Telling, Event
<1>3. Narrates(s, old) /\ r \in JobRunIds /\ old \in JobRow
  BY <1>1, TellingTypes DEF JobInv, JobTypeOK, NarratorsRemember, JobTells
<1>4. CASE UNCHANGED jobruns
  <2>1. Narrates(t, old)
    BY <1>2, <1>3 DEF Narrates
  <2> QED BY <1>1, <1>2, <1>4, <2>1, TellsNothing DEF RecordStep, JobTells
<1>5. CASE jobruns' = [jobruns EXCEPT ![r].events = Append(@, s.event)]
  <2>1. jobruns' = [jobruns EXCEPT ![r] = row]
    BY <1>3, <1>5 DEF JobInv, JobTypeOK
  <2>2. /\ old # NoRow /\ old.status = "running"
        /\ s.event \in {"step_completed", "step_failed"}
        /\ s.event = "step_failed" => s.failed
        /\ \A i \in DOMAIN old.events : old.events[i] = "step_failed" => s.failed
    BY <1>1, <1>3 DEF Narrates
  <2>3. /\ old.events \in Seq(Event) /\ old.lease \in Nat
        /\ old \in [status : {"running", "success", "failed", "partial_failure"},
                     lease : Nat, events : Seq(Event)]
    BY <1>3, <2>2, RowTypes
  <2>4. /\ Append(old.events, s.event) \in Seq(Event)
        /\ DOMAIN Append(old.events, s.event) = 1..(Len(old.events) + 1)
        /\ DOMAIN old.events = 1..Len(old.events)
        /\ \A i \in 1..Len(old.events) : Append(old.events, s.event)[i] = old.events[i]
        /\ Append(old.events, s.event)[Len(old.events) + 1] = s.event
        /\ Len(old.events) \in Nat
    BY <2>2, <2>3 DEF Event
  <2>5. /\ row.status = "running" /\ row.lease = old.lease
        /\ row.events = Append(old.events, s.event)
        /\ row \in JobRow /\ row # NoRow
    BY <2>2, <2>3, <2>4 DEF JobRow, NoRow
  <2>6. \A i \in DOMAIN old.events : old.events[i] # "finished"
    BY <1>3, <2>2 DEF JobInv, OutcomeMatchesTimeline, Running
  <2>7. \A i \in DOMAIN row.events :
          \/ row.events[i] = s.event
          \/ i \in DOMAIN old.events /\ row.events[i] = old.events[i]
    <3> DEFINE new == Append(old.events, s.event)
               n == Len(old.events)
    <3>1. \A i \in 1..(n + 1) : i = n + 1 \/ i \in 1..n
      BY <2>4
    <3>2. \A i \in 1..(n + 1) : new[i] = s.event \/ (i \in 1..n /\ new[i] = old.events[i])
      BY <2>4, <3>1
    <3> HIDE DEF row, old, s, r
    <3> QED BY <2>4, <2>5, <3>2
  <2>8. FitsTimeline(row)
    BY <2>2, <2>5, <2>6, <2>7 DEF FitsTimeline
  <2>9. Narrates(t, row)
    BY <1>2, <2>2, <2>5, <2>7 DEF Narrates
  <2> QED BY <1>1, <1>2, <2>1, <2>5, <2>8, <2>9, Tells DEF RecordStep, JobTells
<1> QED BY <1>4, <1>5 DEF RecordStep

\* A heartbeat changes the lease and no more.
LEMMA Beats ==
  ASSUME JobInv, NEW j \in Jobs, Heartbeat(j)
  PROVE  JobInv'
<1> DEFINE s == telling[j]
           r == s.run
           old == jobruns[r]
           t == [s EXCEPT !.pc = "work", !.event = "started", !.now = 0]
           row == [old EXCEPT !.lease = s.now + LeaseTtl]
<1>1. s \in Telling /\ s # Silent
  BY DEF Heartbeat, JobInv, JobTypeOK, Silent
<1>2. t \in Telling /\ t.pc = "work" /\ t.run = r /\ t.failed = s.failed
  BY <1>1, TellingTypes DEF Telling, Event
<1>3. Narrates(s, old) /\ r \in JobRunIds /\ old \in JobRow
  BY <1>1, TellingTypes DEF JobInv, JobTypeOK, NarratorsRemember, JobTells
<1>4. CASE UNCHANGED jobruns
  <2>1. Narrates(t, old)
    BY <1>2, <1>3 DEF Narrates
  <2> QED BY <1>1, <1>2, <1>4, <2>1, TellsNothing DEF Heartbeat, Resume, JobTells
<1>5. CASE jobruns' = [jobruns EXCEPT ![r].lease = s.now + LeaseTtl]
  <2>1. jobruns' = [jobruns EXCEPT ![r] = row]
    BY <1>3, <1>5 DEF JobInv, JobTypeOK
  <2>2. old # NoRow /\ FitsTimeline(old)
    BY <1>3 DEF Narrates, JobInv, OutcomeMatchesTimeline, FitsTimeline, Running
  <2>3. s.now + LeaseTtl \in Nat
    BY <1>1, TellingTypes, JobAssumption
  <2>4. /\ row.status = old.status /\ row.events = old.events
        /\ row \in JobRow /\ row # NoRow
    BY <1>3, <2>2, <2>3, RowTypes DEF JobRow, NoRow
  <2>5. FitsTimeline(row) /\ Narrates(t, row)
    BY <1>2, <1>3, <2>2, <2>4 DEF FitsTimeline, Narrates
  <2> QED BY <1>1, <1>2, <2>1, <2>4, <2>5, Tells DEF Heartbeat, Resume, JobTells
<1> QED BY <1>4, <1>5 DEF Heartbeat

\* finish_job_run writes what the job remembers, or fails.
LEMMA Finishes ==
  ASSUME JobInv, NEW j \in Jobs, NEW raised \in BOOLEAN, FinishJob(j, raised)
  PROVE  JobInv'
<1> DEFINE s == telling[j]
           r == s.run
           old == jobruns[r]
           row == [old EXCEPT !.status = outcome(s, raised), !.events = Append(@, "finished")]
<1>1. s \in Telling /\ s # Silent /\ Silent \in Telling
  BY DEF FinishJob, JobInv, JobTypeOK, Silent, Telling
<1>2. Narrates(s, old) /\ r \in JobRunIds /\ old \in JobRow
  BY <1>1, TellingTypes DEF JobInv, JobTypeOK, NarratorsRemember, JobTells
<1>3. CASE UNCHANGED jobruns
  BY <1>1, <1>3, TellsNothing DEF FinishJob, JobTells
<1>4. CASE jobruns' = [jobruns EXCEPT ![r].status = outcome(s, raised),
                                      ![r].events = Append(@, "finished")]
  <2>1. jobruns' = [jobruns EXCEPT ![r] = row]
    BY <1>2, <1>4 DEF JobInv, JobTypeOK
  <2>2. /\ old # NoRow /\ old.status = "running"
        /\ \A i \in DOMAIN old.events : old.events[i] = "step_failed" => s.failed
    BY <1>2 DEF Narrates
  <2>3. /\ old.events \in Seq(Event) /\ old.lease \in Nat
        /\ old \in [status : {"running", "success", "failed", "partial_failure"},
                     lease : Nat, events : Seq(Event)]
    BY <1>2, <2>2, RowTypes
  <2>4. /\ Append(old.events, "finished") \in Seq(Event)
        /\ DOMAIN Append(old.events, "finished") = 1..(Len(old.events) + 1)
        /\ DOMAIN old.events = 1..Len(old.events)
        /\ \A i \in 1..Len(old.events) : Append(old.events, "finished")[i] = old.events[i]
        /\ Append(old.events, "finished")[Len(old.events) + 1] = "finished"
        /\ Len(Append(old.events, "finished")) = Len(old.events) + 1
        /\ Len(old.events) \in Nat
    BY <2>3 DEF Event
  <2>5. /\ outcome(s, raised) \in {"success", "failed", "partial_failure"}
        /\ outcome(s, raised) = "success" => ~s.failed
    BY DEF outcome
  <2>6. /\ row.status = outcome(s, raised) /\ row.lease = old.lease
        /\ row.events = Append(old.events, "finished")
        /\ row \in JobRow /\ row # NoRow
    BY <2>2, <2>3, <2>4, <2>5 DEF JobRow, NoRow
  <2>7. \A i \in DOMAIN old.events : old.events[i] # "finished"
    BY <1>2, <2>2 DEF JobInv, OutcomeMatchesTimeline, Running
  <2>8. /\ row.status # "running"
        /\ row.status = "success" => \A i \in DOMAIN old.events : old.events[i] # "step_failed"
    BY <2>2, <2>5, <2>6
  <2>9. \A i \in DOMAIN row.events :
          \/ i = Len(row.events) /\ row.events[i] = "finished"
          \/ i # Len(row.events) /\ i \in DOMAIN old.events /\ row.events[i] = old.events[i]
    <3> DEFINE new == Append(old.events, "finished")
               n == Len(old.events)
    <3>1. \A i \in 1..(n + 1) : i = n + 1 \/ (i \in 1..n /\ i # n + 1)
      BY <2>4
    <3>2. \A i \in 1..(n + 1) :
            \/ i = n + 1 /\ new[i] = "finished"
            \/ i # n + 1 /\ i \in 1..n /\ new[i] = old.events[i]
      BY <2>4, <3>1
    <3> HIDE DEF row, old, s, r
    <3> QED BY <2>4, <2>6, <3>2
  <2>10. FitsTimeline(row)
    BY <2>7, <2>8, <2>9 DEF FitsTimeline
  <2> QED BY <1>1, <2>1, <2>6, <2>10, Tells DEF FinishJob, JobTells
<1> QED BY <1>3, <1>4 DEF FinishJob

\* One step of any job, or of the clock.
LEMMA JobInvStep ==
  ASSUME JobInv, [JobNext]_jobVars
  PROVE  JobInv'
<1>1. ASSUME NEW j \in Jobs, CallFails(j) PROVE JobInv'
  <2> DEFINE s == telling[j]
             t == [s EXCEPT !.pc = "work", !.event = "started", !.now = 0]
  <2>1. s \in Telling /\ s # Silent
    BY <1>1 DEF CallFails, JobInv, JobTypeOK, Silent
  <2>2. t \in Telling /\ t.pc = "work" /\ t.run = s.run /\ t.failed = s.failed
    BY <2>1, TellingTypes DEF Telling, Event
  <2>3. Narrates(t, jobruns[s.run])
    BY <2>1, <2>2 DEF JobInv, NarratorsRemember, JobTells, Narrates
  <2> QED BY <1>1, <2>1, <2>2, <2>3, TellsNothing DEF CallFails, Resume, JobTells
<1>2. ASSUME NEW j \in Jobs, JobDies(j) PROVE JobInv'
  BY <1>2, TellsNothing DEF JobDies, JobTells, Telling
<1>3. ASSUME UNCHANGED <<jobruns, telling>>, clock' \in 0..MaxTime PROVE JobInv'
  BY <1>3 DEF JobInv, JobTypeOK, OneNarratorPerRun, NarratorsRemember, JobTells,
              OutcomeMatchesTimeline, Running
<1>4. CASE Tick
  <2>1. clock' \in 0..MaxTime
    BY <1>4, JobAssumption DEF Tick, JobInv, JobTypeOK
  <2> QED BY <1>3, <1>4, <2>1 DEF Tick
<1>5. CASE UNCHANGED jobVars
  BY <1>3, <1>5 DEF jobVars, JobInv, JobTypeOK
<1> QED BY <1>1, <1>2, <1>4, <1>5, StartsRun, EndsPhase, RecordsStep, Beats, Finishes DEF JobNext

JobSpec == JobInit /\ [][JobNext]_jobVars

\* The run history, its readers' view of it and what the jobs remember of it
\* agree, over the whole of start, step, heartbeat and finish.
THEOREM JobInvariant == JobSpec => []JobInv
<1>1. JobInit => JobInv
  BY JobAssumption DEF JobInit, JobInv, JobTypeOK, OneNarratorPerRun, NarratorsRemember, JobTells,
     OutcomeMatchesTimeline, JobRow, Telling
<1>2. JobInv /\ [JobNext]_jobVars => JobInv'
  BY JobInvStep
<1>3. QED
  BY <1>1, <1>2, PTL DEF JobSpec

\* Two jobs never narrate one run, however often a request is retried
\* (start_job_run and its unique index).
THEOREM OneNarrator == JobSpec => []OneNarratorPerRun
<1>1. JobInv => OneNarratorPerRun
  BY DEF JobInv
<1>2. QED
  BY <1>1, JobInvariant, PTL

\* No run with a failed step in its timeline ends as a success, and a timeline
\* is finished exactly when its run has ended (record_job_step, finish_job_run).
THEOREM OutcomesMatch == JobSpec => []OutcomeMatchesTimeline
<1>1. JobInv => OutcomeMatchesTimeline
  BY DEF JobInv
<1>2. QED
  BY <1>1, JobInvariant, PTL

(***************************************************************************)
(*                               The JSON file                               *)
(***************************************************************************)
FirstLegacy(S) == CHOOSE x \in S : TRUE

\* What a state that is in the file, or on its way there, says of its run.
Honest(s, rn, im) ==
  /\ s.done \subseteq rn[s.run]
  /\ s.success = "yes" => s.run \in im

StatesAreHonest ==
  /\ file \in RunState => Honest(file, ran, imported)
  /\ \A t \in Threads : saving[t] # Null => Honest(saving[t], ran, imported)

\* What a thread of process p at a knows of its work w and has to save sv.
Fits(p, a, w, sv, rn, im) ==
  /\ p = Null => a = "ended"
  /\ w = Null <=> (a = "ended" \/ (a = "unlink" /\ p = "web"))
  /\ a \in {"acquire", "write"} => p # "web"
  /\ sv # Null => a \in Calls \ {"gate", "ensure"}
  /\ a \in {"ensure", "create", "created", "ready", "scraping", "mark", "markstep"} => w.todo # {}
  /\ a = "mark" => FirstLegacy(w.todo) \in rn[w.run]
  /\ a = "markstep" => w.todo \subseteq rn[w.run]
  /\ a \in {"begin_import", "loading", "complete_import"} => rn[w.run] = Scrapers
  /\ a \in {"stored", "finish"} => w.run \in im

ThreadFits(t) == Fits(pid[t], at[t], work[t], saving[t], ran, imported)

LegacyInv ==
  /\ LegacyTypeOK
  /\ StatesAreHonest
  /\ \A t \in Threads : ThreadFits(t)
  /\ \A t \in cut : saving[t] # Null

-----------------------------------------------------------------------------

\* The scrapers run and the imports done only grow.
Grow == /\ \A r \in LegacyRuns : ran[r] \subseteq ran'[r]
        /\ imported \subseteq imported'

\* What a thread knows stays true while the histories grow.
LEMMA FitsLasts ==
  ASSUME LegacyTypeOK, LegacyTypeOK', Grow,
         NEW p, NEW a, NEW w \in LegacyWork \cup {Null}, NEW sv,
         Fits(p, a, w, sv, ran, imported)
  PROVE  Fits(p, a, w, sv, ran', imported')
<1>1. CASE w = Null
  <2>1. a \in {"ended", "unlink"}
    BY <1>1 DEF Fits
  <2> QED BY <2>1, <1>1 DEF Fits
<1>2. CASE w \in LegacyWork
  <2>1. w.run \in LegacyRuns
    BY <1>2 DEF LegacyWork
  <2>2. ran[w.run] \subseteq ran'[w.run] /\ ran'[w.run] \subseteq Scrapers
    BY <2>1 DEF LegacyTypeOK, Grow
  <2> QED BY <1>2, <2>1, <2>2 DEF Fits, Grow
<1> QED BY <1>1, <1>2

\* So does what a state says.
LEMMA HonestyLasts ==
  ASSUME Grow, NEW s \in RunState, Honest(s, ran, imported)
  PROVE  Honest(s, ran', imported')
BY DEF Honest, Grow, RunState

\* A step of one thread keeps the invariant when the thread fits again and what
\* it wrote is honest.
LEMMA OneThreadMoves ==
  ASSUME LegacyInv, LegacyTypeOK', Grow, NEW t \in Threads,
         \A u \in Threads \ {t} : /\ pid'[u] = pid[u] /\ at'[u] = at[u]
                                  /\ work'[u] = work[u] /\ saving'[u] = saving[u]
                                  /\ u \in cut' => u \in cut,
         ThreadFits(t)',
         t \in cut' => saving'[t] # Null,
         saving'[t] \in {saving[t], Null} \/ Honest(saving'[t], ran', imported'),
         file' \in {file, Empty, Garbled} \/ Honest(file', ran', imported')
  PROVE  LegacyInv'
<1>1. \A u \in Threads : ThreadFits(u)'
  <2>1. ASSUME NEW u \in Threads \ {t} PROVE ThreadFits(u)'
    <3>1. ThreadFits(u) /\ work[u] \in LegacyWork \cup {Null}
      BY DEF LegacyInv, LegacyTypeOK
    <3>2. Fits(pid[u], at[u], work[u], saving[u], ran', imported')
      BY <3>1, FitsLasts DEF LegacyInv, ThreadFits
    <3> QED BY <3>2 DEF ThreadFits
  <2> QED BY <2>1
<1>2. file' \in RunState => Honest(file', ran', imported')
  <2>1. Empty \notin RunState /\ Garbled \notin RunState
    BY LegacyAssumption
  <2> QED BY <2>1, HonestyLasts DEF LegacyInv, StatesAreHonest
<1>3. ASSUME NEW u \in Threads, saving'[u] # Null PROVE Honest(saving'[u], ran', imported')
  <2>1. CASE saving'[u] = saving[u]
    <3>1. saving[u] \in RunState /\ Honest(saving[u], ran, imported)
      BY <1>3, <2>1 DEF LegacyInv, LegacyTypeOK, StatesAreHonest
    <3> QED BY <2>1, <3>1, HonestyLasts
  <2> QED BY <2>1, <1>3
<1>4. \A u \in cut' : saving'[u] # Null
  BY DEF LegacyInv, LegacyTypeOK
<1> QED BY <1>1, <1>2, <1>3, <1>4 DEF LegacyInv, StatesAreHonest

-----------------------------------------------------------------------------

\* What Move does to the types and to the thread itself.
LEMMA Moves ==
  ASSUME LegacyTypeOK, NEW t \in Threads, NEW to \in Labels, NEW job \in LegacyWork \cup {Null},
         Move(t, to, job)
  PROVE  /\ at' \in [Threads -> Labels] /\ work' \in [Threads -> LegacyWork \cup {Null}]
         /\ at'[t] = to /\ work'[t] = IF to = "ended" THEN Null ELSE job
         /\ \A u \in Threads \ {t} : at'[u] = at[u] /\ work'[u] = work[u]
BY DEF Move, LegacyTypeOK

\* A thread that is somewhere in its program has work.
LEMMA HasWork ==
  ASSUME LegacyInv, NEW t \in Threads, at[t] # "ended", at[t] # "unlink"
  PROVE  /\ work[t] \in LegacyWork /\ work[t].run \in LegacyRuns
         /\ work[t].todo \subseteq Scrapers /\ work[t].failed \subseteq Scrapers
         /\ ran[work[t].run] \subseteq Scrapers
<1>1. work[t] \in LegacyWork
  BY DEF LegacyInv, LegacyTypeOK, ThreadFits, Fits
<1> QED BY <1>1 DEF LegacyWork, LegacyInv, LegacyTypeOK

\* The step that comes next is one of those to do.
LEMMA StepIsToDo ==
  ASSUME NEW t \in Threads, work[t].todo # {}
  PROVE  Step(t) \in work[t].todo
BY DEF Step

\* What is left to do after a step.
LEMMA WorkWithoutStep ==
  ASSUME LegacyInv, NEW t \in Threads, at[t] # "ended", at[t] # "unlink",
         work[t].todo # {}, NEW failed \in BOOLEAN
  PROVE  WithoutStep(t, failed) \in LegacyWork
<1>1. /\ work[t] \in LegacyWork /\ Step(t) \in work[t].todo
      /\ work[t].todo \subseteq Scrapers /\ work[t].failed \subseteq Scrapers
  BY HasWork, StepIsToDo
<1>2. work[t].failed \cup {Step(t)} \subseteq Scrapers /\ work[t].todo \ {Step(t)} \subseteq Scrapers
  BY <1>1
<1> HIDE DEF Step
<1> QED BY <1>1, <1>2 DEF WithoutStep, LegacyWork

\* A state that an operation saves is a state, and honest.
LEMMA SavedStateIsHonest ==
  ASSUME LegacyInv, NEW t \in Threads, at[t] \in Calls, Answer(t).answer = "save"
  PROVE  /\ Answer(t).state \in RunState
         /\ Honest(Answer(t).state, ran, imported)
         /\ at[t] \notin {"gate", "ensure"}
<1> DEFINE r == work[t].run
<1>1. /\ work[t] \in LegacyWork /\ r \in LegacyRuns /\ work[t].todo \subseteq Scrapers
      /\ ThreadFits(t) /\ ran[r] \subseteq Scrapers
  BY HasWork DEF Calls, LegacyInv
<1>2. Fresh(r) \in RunState /\ Honest(Fresh(r), ran, imported)
  BY <1>1 DEF Fresh, RunState, Honest
<1>3. CASE at[t] \in {"begin", "create"}
  <2>1. Answer(t) = begin_run(r)
    BY <1>3 DEF Answer
  <2> QED BY <1>2, <1>3, <2>1 DEF begin_run, Save
<1>4. CASE at[t] \notin {"begin", "create"} /\ file \in {Empty, Garbled}
  <2>1. Answer(t) = Raise
    BY <1>4 DEF Answer
  <2> QED BY <2>1 DEF Raise
<1>5. ASSUME at[t] \notin {"begin", "create"}, file \notin {Empty, Garbled}
      PROVE  /\ Answer(t).state \in RunState
             /\ Honest(Answer(t).state, ran, imported)
             /\ at[t] \notin {"gate", "ensure"}
  <2>1. file \in RunState => Honest(file, ran, imported)
    BY DEF LegacyInv, StatesAreHonest
  <2>2. CASE at[t] \in {"full", "scrape", "created", "ready"}
    BY <1>2, <1>5, <2>1, <2>2 DEF Answer, begin_scrape, Save, Mine
  <2>3. CASE at[t] \in {"mark", "markstep"}
    <3> DEFINE done == file.done \cup {Step(t)}
               s == [file EXCEPT !.done = done, !.closed = @ \/ done = Scrapers]
    <3>1. /\ Answer(t) = mark_tender_scrape_step(file, r, Step(t))
      BY <1>5, <2>3 DEF Answer
    <3>2. Mine(file, r) /\ Answer(t).state = s
      BY <3>1 DEF mark_tender_scrape_step, Raise, Save
    <3>3. Step(t) \in ran[r]
      <4>1. work[t].todo # {}
        BY <1>1, <2>3 DEF ThreadFits, Fits
      <4>2. Step(t) \in work[t].todo
        BY <4>1, StepIsToDo
      <4>3. CASE at[t] = "mark"
        BY <1>1, <4>3 DEF ThreadFits, Fits, Step, FirstLegacy
      <4>4. CASE at[t] = "markstep"
        BY <1>1, <4>2, <4>4 DEF ThreadFits, Fits
      <4> QED BY <2>3, <4>3, <4>4
    <3>4. file \in RunState /\ file.run = r /\ file.done \subseteq ran[r]
      BY <3>2, <2>1 DEF Mine, Honest
    <3>5. done \subseteq ran[r] /\ done \subseteq Scrapers
      BY <3>3, <3>4, <1>1
    <3> HIDE DEF done
    <3>6. s \in RunState /\ s.done = done /\ s.run = r /\ s.success = file.success
      BY <3>4, <3>5 DEF RunState
    <3> QED BY <3>2, <3>4, <3>5, <3>6, <2>1, <2>3 DEF Honest
  <2>4. CASE at[t] = "close"
    BY <1>5, <2>1, <2>4 DEF Answer, complete_tender_scrape, Save, Raise, Mine, Honest, RunState
  <2>5. CASE at[t] = "gate"
    BY <1>5, <2>5 DEF Answer, assert_ready_for_import, Return, Raise
  <2>6. CASE at[t] = "finish"
    <3>1. r \in imported
      BY <1>1, <2>6 DEF ThreadFits, Fits
    <3> QED BY <3>1, <1>5, <2>1, <2>6 DEF Answer, finish_run, Save, Return, Mine, Honest, RunState
  <2>7. CASE at[t] = "cleanup"
    BY <1>5, <2>1, <2>7 DEF Answer, finish_run, Save, Return, Mine, Honest, RunState
  <2>8. CASE at[t] = "ensure"
    BY <1>5, <2>8 DEF Answer, get_run_state, Return
  <2>9. CASE at[t] \in {"aux", "import", "stored", "begin_import", "complete_import"}
    BY <1>5, <2>1, <2>9 DEF Answer, stamp, Save, Raise, Mine
  <2> QED BY <1>5, <2>2, <2>3, <2>4, <2>5, <2>6, <2>7, <2>8, <2>9 DEF Calls
<1> QED BY <1>3, <1>4, <1>5

\* A call that only asks leads the thread on when its answer allows it.
LEMMA ReturnFits ==
  ASSUME LegacyInv, NEW t \in Threads, at[t] \in Calls, saving[t] = Null,
         Answer(t).answer = "return"
  PROVE  LET to == Next1(t)
         IN  /\ to \in Labels
             /\ Fits(pid[t], to, IF to = "ended" THEN Null ELSE work[t], Null, ran, imported)
<1>1. ThreadFits(t) /\ work[t] \in LegacyWork /\ ran[work[t].run] \subseteq Scrapers /\ pid[t] # Null
  BY HasWork DEF Calls, LegacyInv, ThreadFits, Fits
<1>2. CASE at[t] = "gate"
  <2>1. Answer(t) = assert_ready_for_import(file, work[t].run)
    BY <1>2, LegacyAssumption DEF Answer, Raise
  <2>2. file \in RunState /\ file.run = work[t].run /\ file.done = Scrapers
    BY <2>1 DEF assert_ready_for_import, Mine, Raise
  <2>3. ran[work[t].run] = Scrapers
    BY <1>1, <2>2 DEF LegacyInv, StatesAreHonest, Honest
  <2>4. Next1(t) = "begin_import"
    BY <1>2 DEF Next1
  <2> QED BY <1>1, <2>3, <2>4, LegacyAssumption DEF Fits, Labels, Calls
<1>3. CASE at[t] = "ensure"
  BY <1>1, <1>3 DEF Next1, ThreadFits, Fits, Labels, Calls
<1>4. CASE at[t] \in {"finish", "cleanup"}
  BY <1>1, <1>4 DEF Next1, End, ThreadFits, Fits, Labels, Calls
<1>5. at[t] \in {"gate", "ensure", "finish", "cleanup"}
  BY DEF Answer, begin_run, begin_scrape, mark_tender_scrape_step, complete_tender_scrape, stamp,
         Save, Raise, Calls
<1> QED BY <1>2, <1>3, <1>4, <1>5

\* A call that raises ends the program, or leads to the next scraper or the cleanup.
LEMMA RaiseFits ==
  ASSUME LegacyInv, NEW t \in Threads, at[t] \in Calls, saving[t] = Null
  PROVE  LET to == Next2(t)
             job == Marked(t, TRUE)
         IN  /\ to \in Labels /\ job \in LegacyWork
             /\ Fits(pid[t], to, IF to = "ended" THEN Null ELSE job, Null, ran, imported)
<1>1. ThreadFits(t) /\ work[t] \in LegacyWork /\ pid[t] # Null
  BY HasWork DEF Calls, LegacyInv, ThreadFits, Fits
<1>2. Marked(t, TRUE) \in LegacyWork
  <2>1. CASE at[t] = "mark"
    BY <1>1, <2>1, WorkWithoutStep DEF Marked, ThreadFits, Fits
  <2>2. CASE at[t] # "mark"
    BY <1>1, <2>2 DEF Marked
  <2> QED BY <2>1, <2>2
<1>3. Next2(t) \in {"steps", "cleanup", "release", "ended"} /\ (Next2(t) = "ended" <=> Next2(t) = End(t) /\ pid[t] = "web")
  BY DEF Next2, End
<1> QED BY <1>1, <1>2, <1>3, LegacyAssumption DEF Fits, Labels, Calls

\* After its state is written a thread goes on as if the call had returned.
LEMMA WrittenFits ==
  ASSUME LegacyInv, NEW t \in Threads, saving[t] # Null
  PROVE  LET to == Next1(t)
             job == Marked(t, FALSE)
         IN  /\ to \in Labels /\ job \in LegacyWork
             /\ Fits(pid[t], to, IF to = "ended" THEN Null ELSE job, Null, ran, imported)
<1>1. /\ ThreadFits(t) /\ at[t] \in Calls \ {"gate", "ensure"}
      /\ work[t] \in LegacyWork /\ pid[t] # Null
  BY HasWork DEF Calls, LegacyInv, ThreadFits, Fits
<1>2. Marked(t, FALSE) \in LegacyWork
  <2>1. CASE at[t] = "mark"
    BY <1>1, <2>1, WorkWithoutStep DEF Marked, ThreadFits, Fits
  <2>2. CASE at[t] # "mark"
    BY <1>1, <2>2 DEF Marked
  <2> QED BY <2>1, <2>2
<1>3. CASE at[t] = "mark"
  <2>1. Next1(t) = "steps"
    BY <1>3 DEF Next1
  <2> QED BY <1>1, <1>2, <2>1, LegacyAssumption DEF Fits, Labels, Calls
<1>4. CASE at[t] \in {"begin", "full", "scrape", "close", "aux", "import"}
  <2>1. Next1(t) \in {"full", "scrape", "steps", "aux", "import", "importing"}
    BY <1>4 DEF Next1
  <2> QED BY <1>1, <1>2, <1>4, <2>1, LegacyAssumption DEF Marked, Fits, Labels, Calls
<1>5. CASE at[t] \in {"create", "created", "ready"}
  <2>1. Next1(t) \in {"created", "ready", "scraping"}
    BY <1>5 DEF Next1
  <2> QED BY <1>1, <1>2, <1>5, <2>1, LegacyAssumption DEF Marked, ThreadFits, Fits, Labels, Calls
<1>6. CASE at[t] \in {"stored", "begin_import"}
  <2>1. Next1(t) = IF at[t] = "stored" THEN "finish" ELSE "loading"
    BY <1>6 DEF Next1
  <2> QED BY <1>1, <1>2, <1>6, <2>1, LegacyAssumption DEF Marked, ThreadFits, Fits, Labels, Calls
<1>7. CASE at[t] \in {"finish", "cleanup", "markstep", "complete_import"}
  <2>1. Next1(t) = End(t)
    BY <1>7 DEF Next1
  <2> QED BY <1>1, <1>2, <1>7, <2>1, LegacyAssumption DEF End, Fits, Labels, Calls
<1> QED BY <1>1, <1>3, <1>4, <1>5, <1>6, <1>7 DEF Calls

-----------------------------------------------------------------------------

\* An operation decides on the file as it is.
LEMMA CallKeeps ==
  ASSUME LegacyInv, NEW t \in Threads, Call(t)
  PROVE  LegacyInv'
<1>1. /\ at[t] \in Calls /\ saving[t] = Null
      /\ UNCHANGED <<file, pidfile, pid, cut, starts, ran, imported>>
  BY DEF Call
<1>2. LegacyTypeOK /\ ThreadFits(t) /\ Grow /\ work[t] \in LegacyWork /\ Calls \subseteq Labels
  BY <1>1, HasWork DEF LegacyInv, Grow, Calls, Labels
<1>3. CASE Answer(t).answer = "save" /\ saving' = [saving EXCEPT ![t] = Answer(t).state]
           /\ UNCHANGED <<at, work>>
  <2>1. /\ Answer(t).state \in RunState /\ Honest(Answer(t).state, ran, imported)
        /\ at[t] \notin {"gate", "ensure"}
    BY <1>1, <1>3, SavedStateIsHonest
  <2>2. LegacyTypeOK'
    BY <1>1, <1>2, <1>3, <2>1 DEF LegacyTypeOK
  <2>3. saving'[t] = Answer(t).state /\ \A u \in Threads \ {t} : saving'[u] = saving[u]
    BY <1>2, <1>3 DEF LegacyTypeOK
  <2>4. ThreadFits(t)'
    BY <1>1, <1>2, <1>3, <2>1, <2>3 DEF ThreadFits, Fits
  <2>5. Answer(t).state # Null
    BY <2>1, LegacyAssumption
  <2> QED BY <1>1, <1>2, <1>3, <2>1, <2>2, <2>3, <2>4, <2>5, OneThreadMoves
<1>4. CASE Answer(t).answer = "return" /\ Goto(t, Next1(t)) /\ UNCHANGED saving
  <2> DEFINE to == Next1(t)
  <2>1. /\ to \in Labels
        /\ Fits(pid[t], to, IF to = "ended" THEN Null ELSE work[t], Null, ran, imported)
    BY <1>1, <1>4, ReturnFits
  <2> HIDE DEF to
  <2>2. Move(t, to, work[t])
    BY <1>4 DEF Goto, to
  <2>3. /\ at' \in [Threads -> Labels] /\ work' \in [Threads -> LegacyWork \cup {Null}]
        /\ at'[t] = to /\ work'[t] = IF to = "ended" THEN Null ELSE work[t]
        /\ \A u \in Threads \ {t} : at'[u] = at[u] /\ work'[u] = work[u]
    BY <1>2, <2>1, <2>2, Moves
  <2>4. LegacyTypeOK' /\ ThreadFits(t)'
    BY <1>1, <1>2, <1>4, <2>1, <2>3 DEF LegacyTypeOK, ThreadFits
  <2> QED BY <1>1, <1>2, <1>4, <2>3, <2>4, OneThreadMoves DEF LegacyInv
<1>5. CASE Move(t, Next2(t), Marked(t, TRUE)) /\ UNCHANGED saving
  <2> DEFINE to == Next2(t)
             job == Marked(t, TRUE)
  <2>1. /\ to \in Labels /\ job \in LegacyWork
        /\ Fits(pid[t], to, IF to = "ended" THEN Null ELSE job, Null, ran, imported)
    BY <1>1, RaiseFits
  <2> HIDE DEF to, job
  <2>2. Move(t, to, job)
    BY <1>5 DEF to, job
  <2>3. /\ at' \in [Threads -> Labels] /\ work' \in [Threads -> LegacyWork \cup {Null}]
        /\ at'[t] = to /\ work'[t] = IF to = "ended" THEN Null ELSE job
        /\ \A u \in Threads \ {t} : at'[u] = at[u] /\ work'[u] = work[u]
    BY <1>2, <2>1, <2>2, Moves
  <2>4. LegacyTypeOK' /\ ThreadFits(t)'
    BY <1>1, <1>2, <1>5, <2>1, <2>3 DEF LegacyTypeOK, ThreadFits
  <2> QED BY <1>1, <1>2, <1>5, <2>3, <2>4, OneThreadMoves DEF LegacyInv
<1> QED BY <1>3, <1>4, <1>5 DEF Call

\* The file is opened for writing, and empty.
LEMMA TruncateKeeps ==
  ASSUME LegacyInv, NEW t \in Threads, Truncate(t)
  PROVE  LegacyInv'
<1>1. LegacyTypeOK' /\ Grow /\ ThreadFits(t)'
  BY DEF LegacyInv, LegacyTypeOK, Truncate, Grow, ThreadFits
<1> QED BY <1>1, OneThreadMoves DEF Truncate, LegacyInv

\* What a thread had to save is in the file, or the file is garbled.
LEMMA WriteKeeps ==
  ASSUME LegacyInv, NEW t \in Threads, Write(t)
  PROVE  LegacyInv'
<1> DEFINE to == Next1(t)
           job == Marked(t, FALSE)
<1>1. saving[t] # Null /\ LegacyTypeOK /\ Grow
  BY DEF Write, LegacyInv, Grow
<1>2. /\ to \in Labels /\ job \in LegacyWork
      /\ Fits(pid[t], to, IF to = "ended" THEN Null ELSE job, Null, ran, imported)
  BY <1>1, WrittenFits
<1> HIDE DEF to, job
<1>3. Move(t, to, job)
  BY DEF Write, to, job
<1>4. /\ at' \in [Threads -> Labels] /\ work' \in [Threads -> LegacyWork \cup {Null}]
      /\ at'[t] = to /\ work'[t] = IF to = "ended" THEN Null ELSE job
      /\ \A u \in Threads \ {t} : at'[u] = at[u] /\ work'[u] = work[u]
  BY <1>1, <1>2, <1>3, Moves
<1>5. saving'[t] = Null /\ (\A u \in Threads \ {t} : saving'[u] = saving[u])
      /\ saving' \in [Threads -> RunState \cup {Null}]
  BY <1>1 DEF Write, LegacyTypeOK
<1>6. file' = Garbled \/ (file' = saving[t] /\ file' \in RunState)
  BY <1>1 DEF Write, LegacyTypeOK
<1>7. LegacyTypeOK'
  BY <1>1, <1>4, <1>5, <1>6 DEF Write, LegacyTypeOK
<1>8. ThreadFits(t)'
  BY <1>2, <1>4, <1>5 DEF Write, ThreadFits
<1>9. file' \in {file, Empty, Garbled} \/ Honest(file', ran', imported')
  BY <1>1, <1>6 DEF LegacyInv, StatesAreHonest, Write
<1> QED BY <1>1, <1>4, <1>5, <1>7, <1>8, <1>9, OneThreadMoves DEF Write

-----------------------------------------------------------------------------

\* A step of a program that leaves the file alone.
LEMMA ProgramStep ==
  ASSUME LegacyInv, NEW t \in Threads, saving[t] = Null, Grow,
         NEW to \in Labels, NEW job \in LegacyWork \cup {Null}, Move(t, to, job),
         UNCHANGED <<file, saving, cut>>,
         pidfile' \in Pids \cup {Null}, pid' \in [Threads -> Pids \cup {"web", Null}],
         \A u \in Threads \ {t} : pid'[u] = pid[u],
         starts' \in 0..MaxStarts, ran' \in [LegacyRuns -> SUBSET Scrapers],
         imported' \subseteq LegacyRuns,
         Fits(pid'[t], to, IF to = "ended" THEN Null ELSE job, Null, ran', imported')
  PROVE  LegacyInv'
<1>1. /\ at' \in [Threads -> Labels] /\ work' \in [Threads -> LegacyWork \cup {Null}]
      /\ at'[t] = to /\ work'[t] = IF to = "ended" THEN Null ELSE job
      /\ \A u \in Threads \ {t} : at'[u] = at[u] /\ work'[u] = work[u]
  BY Moves DEF LegacyInv
<1>2. LegacyTypeOK'
  BY <1>1 DEF LegacyInv, LegacyTypeOK
<1>3. ThreadFits(t)'
  BY <1>1 DEF ThreadFits
<1> QED BY <1>1, <1>2, <1>3, OneThreadMoves DEF LegacyInv

\* A thread that is at no call of the coordinator has nothing to save.
LEMMA NothingToSave ==
  ASSUME LegacyInv, NEW t \in Threads, at[t] \notin Calls
  PROVE  saving[t] = Null
BY DEF LegacyInv, ThreadFits, Fits

\* A thread that runs belongs to a process, and its run has run some scrapers.
LEMMA Processes ==
  ASSUME LegacyInv, NEW t \in Threads, at[t] # "ended"
  PROVE  pid[t] # Null /\ pid[t] \in Pids \cup {"web"}
BY DEF LegacyInv, LegacyTypeOK, ThreadFits, Fits

\* A program starts, in the web process or as a child.
LEMMA StartKeeps ==
  ASSUME LegacyInv, NEW t \in Threads, NEW r \in LegacyRuns, NEW todo \in SUBSET Scrapers,
         NEW to \in {"begin", "ensure", "gate", "acquire"}, to = "ensure" => todo # {},
         Starts(t, r, todo, to),
         pid' \in [Threads -> Pids \cup {"web", Null}], pid'[t] # Null,
         to = "acquire" => pid'[t] # "web",
         \A u \in Threads \ {t} : pid'[u] = pid[u]
  PROVE  LegacyInv'
<1> DEFINE job == [run |-> r, todo |-> todo, failed |-> {}]
<1>1. job \in LegacyWork /\ job # Null
  BY LegacyAssumption DEF LegacyWork
<1>2. saving[t] = Null
  BY NothingToSave DEF Starts, Calls
<1>3. to \in Labels
  BY DEF Labels, Calls
<1>4. Move(t, to, job) /\ Grow
  BY DEF Starts, Grow
<1>5. /\ pidfile' \in Pids \cup {Null} /\ starts' \in 0..MaxStarts
      /\ ran' \in [LegacyRuns -> SUBSET Scrapers] /\ imported' \subseteq LegacyRuns
  BY LegacyAssumption DEF Starts, LegacyInv, LegacyTypeOK
<1>6. Fits(pid'[t], to, IF to = "ended" THEN Null ELSE job, Null, ran', imported')
  BY <1>1 DEF Fits
<1> HIDE DEF job
<1> QED BY <1>1, <1>2, <1>3, <1>4, <1>5, <1>6, ProgramStep DEF Starts

\* The four ways a program starts.
LEMMA ProgramsStart ==
  ASSUME LegacyInv, NEW t \in Threads, NEW r \in LegacyRuns,
         \/ StartInWeb(t, r) \/ StartGatedImport(t, r) \/ StartChild(t, r)
         \/ \E step \in Scrapers : StartScrapeWorker(t, r, step)
  PROVE  LegacyInv'
<1>1. LegacyTypeOK /\ Null # "web"
  BY LegacyAssumption DEF LegacyInv
<1>2. CASE StartInWeb(t, r)
  BY <1>1, <1>2, StartKeeps DEF StartInWeb, LegacyTypeOK
<1>3. CASE StartGatedImport(t, r)
  BY <1>1, <1>3, StartKeeps DEF StartGatedImport, LegacyTypeOK
<1>4. CASE StartChild(t, r)
  <2>1. PICK p \in Pids : pid' = [pid EXCEPT ![t] = p]
    BY <1>4 DEF StartChild
  <2>2. /\ pid' \in [Threads -> Pids \cup {"web", Null}] /\ pid'[t] \notin {Null, "web"}
        /\ \A u \in Threads \ {t} : pid'[u] = pid[u]
    BY <1>1, <2>1, LegacyAssumption DEF LegacyTypeOK
  <2> QED BY <1>4, <2>2, StartKeeps DEF StartChild
<1>5. ASSUME NEW step \in Scrapers, StartScrapeWorker(t, r, step) PROVE LegacyInv'
  BY <1>1, <1>5, StartKeeps DEF StartScrapeWorker, LegacyTypeOK
<1> QED BY <1>2, <1>3, <1>4, <1>5

\* A scraper comes to its end, or fails.
LEMMA RunScraperKeeps ==
  ASSUME LegacyInv, NEW t \in Threads, RunScraper(t)
  PROVE  LegacyInv'
<1> DEFINE r == work[t].run
<1>1. /\ at[t] \in {"steps", "scraping"} /\ LegacyTypeOK /\ ThreadFits(t)
      /\ UNCHANGED <<file, pidfile, pid, saving, cut, starts, imported>>
  BY DEF RunScraper, LegacyInv
<1>2. /\ work[t] \in LegacyWork /\ r \in LegacyRuns /\ work[t].todo \subseteq Scrapers
      /\ ran[r] \subseteq Scrapers /\ pid[t] # Null /\ saving[t] = Null
  BY <1>1, HasWork, Processes, NothingToSave DEF Calls
<1>3. \A S \in SUBSET Scrapers : ran' = [ran EXCEPT ![r] = @ \cup S] =>
         ran' \in [LegacyRuns -> SUBSET Scrapers] /\ Grow /\ ran'[r] = ran[r] \cup S
  BY <1>1, <1>2 DEF LegacyTypeOK, Grow
<1>4. CASE at[t] = "steps"
  <2>1. work[t].todo # {} /\ Step(t) \in work[t].todo /\ Step(t) = FirstLegacy(work[t].todo)
    BY <1>4, StepIsToDo DEF RunScraper, Step, FirstLegacy
  <2>2. CASE ran' = [ran EXCEPT ![r] = @ \cup {Step(t)}] /\ Goto(t, "mark")
    <3>1. /\ ran' \in [LegacyRuns -> SUBSET Scrapers] /\ Grow /\ Step(t) \in ran'[r]
      BY <1>2, <1>3, <2>1, <2>2
    <3>2. Fits(pid[t], "mark", work[t], Null, ran', imported')
      BY <1>2, <2>1, <3>1, LegacyAssumption DEF Fits
    <3> QED BY <1>1, <1>2, <2>2, <3>1, <3>2, ProgramStep DEF Goto, Labels, Calls, LegacyTypeOK
  <2>3. CASE Move(t, "steps", WithoutStep(t, TRUE)) /\ UNCHANGED ran
    <3>1. WithoutStep(t, TRUE) \in LegacyWork /\ Grow
      BY <1>1, <1>4, <2>1, <2>3, WorkWithoutStep DEF Grow
    <3>2. Fits(pid[t], "steps", WithoutStep(t, TRUE), Null, ran', imported')
      BY <1>2, <3>1, LegacyAssumption DEF Fits
    <3> QED BY <1>1, <1>2, <2>3, <3>1, <3>2, ProgramStep DEF Labels, LegacyTypeOK
  <2> QED BY <1>4, <2>2, <2>3 DEF RunScraper
<1>5. CASE at[t] = "scraping"
  <2>1. CASE ran' = [ran EXCEPT ![r] = @ \cup work[t].todo] /\ Goto(t, "markstep")
    <3>1. /\ ran' \in [LegacyRuns -> SUBSET Scrapers] /\ Grow /\ work[t].todo \subseteq ran'[r]
      BY <1>2, <1>3, <2>1
    <3>2. Fits(pid[t], "markstep", work[t], Null, ran', imported')
      BY <1>1, <1>2, <1>5, <3>1, LegacyAssumption DEF ThreadFits, Fits
    <3> QED BY <1>1, <1>2, <2>1, <3>1, <3>2, ProgramStep DEF Goto, Labels, Calls, LegacyTypeOK
  <2>2. CASE Goto(t, End(t)) /\ UNCHANGED ran
    <3>1. /\ End(t) \in {"ended", "release"} /\ End(t) \in Labels /\ Grow
          /\ Fits(pid[t], End(t), IF End(t) = "ended" THEN Null ELSE work[t], Null, ran', imported')
      BY <1>1, <1>2, <2>2, LegacyAssumption DEF End, Labels, Fits, Grow
    <3> HIDE DEF End
    <3> QED BY <1>1, <1>2, <2>2, <3>1, ProgramStep DEF Goto, LegacyTypeOK
  <2> QED BY <1>5, <2>1, <2>2 DEF RunScraper
<1> QED BY <1>1, <1>4, <1>5

\* Steps that lead on with the same work, to a place that asks nothing of it.
LEMMA PlainStep ==
  ASSUME LegacyInv, NEW t \in Threads, at[t] # "ended", at[t] # "unlink", saving[t] = Null,
         NEW to \in {"close", "cleanup", "aux", "release", "write", "unlink", "begin"},
         to \in {"write", "unlink"} => pid[t] # "web",
         Goto(t, to), pidfile' \in Pids \cup {Null},
         UNCHANGED <<file, pid, saving, cut, starts, ran, imported>>
  PROVE  LegacyInv'
<1>1. work[t] \in LegacyWork /\ pid[t] # Null /\ LegacyTypeOK /\ Grow
  BY HasWork, Processes DEF LegacyInv, Grow
<1>2. to \in Labels /\ Fits(pid'[t], to, IF to = "ended" THEN Null ELSE work[t], Null, ran', imported')
  BY <1>1, LegacyAssumption DEF Labels, Calls, Fits
<1> QED BY <1>1, <1>2, ProgramStep DEF Goto, LegacyTypeOK

\* The import of a pipeline, or of the gate, ends or fails.
LEMMA ImportKeeps ==
  ASSUME LegacyInv, NEW t \in Threads, Import(t)
  PROVE  LegacyInv'
<1> DEFINE r == work[t].run
<1>1. /\ at[t] \in {"importing", "loading"} /\ LegacyTypeOK /\ ThreadFits(t)
      /\ UNCHANGED <<file, pidfile, pid, saving, cut, starts, ran>>
  BY DEF Import, LegacyInv
<1>2. /\ work[t] \in LegacyWork /\ r \in LegacyRuns /\ pid[t] # Null /\ saving[t] = Null
  BY <1>1, HasWork, Processes, NothingToSave DEF Calls
<1>3. CASE Goto(t, "cleanup") /\ UNCHANGED imported
  BY <1>1, <1>2, <1>3, PlainStep DEF LegacyTypeOK
<1>4. CASE Goto(t, "stored") /\ imported' = imported \cup {r}
  <2>1. Grow /\ imported' \subseteq LegacyRuns
    BY <1>1, <1>2, <1>4 DEF Grow, LegacyTypeOK
  <2>2. Fits(pid[t], "stored", work[t], Null, ran', imported')
    BY <1>2, <1>4, LegacyAssumption DEF Fits
  <2> QED BY <1>1, <1>2, <1>4, <2>1, <2>2, ProgramStep DEF Goto, Labels, Calls, LegacyTypeOK
<1>5. CASE at[t] = "loading" /\ Goto(t, "complete_import") /\ imported' \in {imported, imported \cup {r}}
  <2>1. Grow /\ imported' \subseteq LegacyRuns
    BY <1>1, <1>2, <1>5 DEF Grow, LegacyTypeOK
  <2>2. Fits(pid[t], "complete_import", work[t], Null, ran', imported')
    BY <1>1, <1>2, <1>5, LegacyAssumption DEF ThreadFits, Fits
  <2> QED BY <1>1, <1>2, <1>5, <2>1, <2>2, ProgramStep DEF Goto, Labels, Calls, LegacyTypeOK
<1> QED BY <1>3, <1>4, <1>5 DEF Import

\* The PID file is read, unlinked and written; nothing of it concerns the file.
LEMMA PidFileKeeps ==
  ASSUME LegacyInv, NEW t \in Threads,
         Acquire(t) \/ FindDeadPid(t) \/ Unlink(t) \/ WritePid(t) \/ Release(t)
  PROVE  LegacyInv'
<1>1. /\ at[t] \notin Calls /\ LegacyTypeOK /\ ThreadFits(t) /\ Grow
      /\ UNCHANGED <<file, saving, cut, starts, ran, imported>>
  BY DEF Acquire, FindDeadPid, Unlink, WritePid, Release, LegacyInv, Grow, Calls
<1>2. saving[t] = Null
  BY <1>1, NothingToSave
<1>3. ASSUME NEW job \in LegacyWork \cup {Null}, Move(t, "ended", job),
             pidfile' \in Pids \cup {Null}, pid' \in {pid, [pid EXCEPT ![t] = Null]}
      PROVE  LegacyInv'
  <2>1. /\ pid' \in [Threads -> Pids \cup {"web", Null}]
        /\ \A u \in Threads \ {t} : pid'[u] = pid[u]
    BY <1>1, <1>3 DEF LegacyTypeOK
  <2>2. Fits(pid'[t], "ended", Null, Null, ran', imported')
    BY LegacyAssumption DEF Fits, Calls
  <2> QED BY <1>1, <1>2, <1>3, <2>1, <2>2, ProgramStep DEF LegacyTypeOK, Labels
<1>4. CASE Acquire(t)
  <2>1. work[t] \in LegacyWork /\ pid[t] # Null
    BY <1>4, HasWork, Processes DEF Acquire
  <2>2. CASE Goto(t, "ended") /\ pid' = [pid EXCEPT ![t] = Null]
    BY <1>1, <1>3, <1>4, <2>1, <2>2 DEF Goto, Acquire, LegacyTypeOK
  <2>3. CASE (Goto(t, "write") \/ Goto(t, "unlink")) /\ UNCHANGED pid
    <3>1. pid[t] # "web"
      BY <1>1, <1>4 DEF Acquire, ThreadFits, Fits
    <3> QED BY <1>1, <1>2, <1>4, <2>3, <3>1, PlainStep DEF Acquire, LegacyTypeOK
  <2> QED BY <1>4, <2>2, <2>3 DEF Acquire
<1>5. CASE FindDeadPid(t)
  <2>1. work[t] = Null /\ pid[t] = "web" /\ Move(t, "unlink", Null) /\ UNCHANGED <<pid, pidfile>>
    BY <1>1, <1>5 DEF FindDeadPid, Goto, ThreadFits, Fits
  <2>2. Fits(pid'[t], "unlink", Null, Null, ran', imported')
    BY <2>1, LegacyAssumption DEF Fits, Calls
  <2> QED BY <1>1, <1>2, <2>1, <2>2, ProgramStep DEF LegacyTypeOK, Labels
<1>6. CASE Unlink(t)
  <2>1. pidfile' = Null /\ UNCHANGED pid /\ work[t] \in LegacyWork \cup {Null} /\ at[t] = "unlink"
    BY <1>1, <1>6 DEF Unlink, LegacyTypeOK
  <2>2. CASE pid[t] = "web"
    BY <1>3, <1>6, <2>1, <2>2 DEF Unlink, Goto
  <2>3. CASE pid[t] # "web"
    <3>1. work[t] # Null /\ pid[t] # Null
      BY <1>1, <2>1, <2>3 DEF ThreadFits, Fits
    <3>2. Fits(pid'[t], "write", work[t], Null, ran', imported')
      BY <2>1, <2>3, <3>1 DEF Fits, Calls
    <3>3. Move(t, "write", work[t])
      BY <1>6, <2>3 DEF Unlink, Goto
    <3> QED BY <1>1, <1>2, <2>1, <3>2, <3>3, ProgramStep DEF LegacyTypeOK, Labels
  <2> QED BY <2>2, <2>3
<1>7. CASE WritePid(t)
  <2>1. pid[t] \in Pids
    <3>1. pid[t] # Null /\ pid[t] # "web"
      BY <1>1, <1>7 DEF WritePid, ThreadFits, Fits
    <3> QED BY <1>1, <3>1 DEF LegacyTypeOK
  <2> QED BY <1>1, <1>2, <1>7, <2>1, PlainStep DEF WritePid
<1>8. CASE Release(t)
  BY <1>1, <1>3, <1>8 DEF Release, Goto, LegacyTypeOK
<1> QED BY <1>4, <1>5, <1>6, <1>7, <1>8

\* A process dies with all its threads.
LEMMA KillKeeps ==
  ASSUME LegacyInv, NEW p \in Pids \cup {"web"}, Kill(p)
  PROVE  LegacyInv'
<1> DEFINE dead == {t \in Threads : pid[t] = p}
<1>1. LegacyTypeOK /\ UNCHANGED <<file, pidfile, starts, ran, imported>>
  BY DEF LegacyInv, Kill
<1>2. LegacyTypeOK'
  BY <1>1 DEF Kill, LegacyTypeOK, Labels
<1>3. ASSUME NEW t \in dead PROVE ThreadFits(t)'
  <2>1. at'[t] = "ended" /\ work'[t] = Null /\ saving'[t] = Null
    BY DEF Kill
  <2> QED BY <2>1, LegacyAssumption DEF ThreadFits, Fits, Calls
<1>4. ASSUME NEW t \in Threads \ dead PROVE ThreadFits(t)'
  <2>1. pid'[t] = pid[t] /\ at'[t] = at[t] /\ work'[t] = work[t] /\ saving'[t] = saving[t]
    BY DEF Kill
  <2> QED BY <1>1, <2>1 DEF ThreadFits, LegacyInv
<1>5. StatesAreHonest'
  BY <1>1 DEF Kill, LegacyInv, StatesAreHonest
<1>6. \A t \in cut' : saving'[t] # Null
  BY <1>1 DEF Kill, LegacyInv, LegacyTypeOK
<1> QED BY <1>2, <1>3, <1>4, <1>5, <1>6 DEF LegacyInv

-----------------------------------------------------------------------------

\* One step of any thread or process.
LEMMA LegacyInvStep ==
  ASSUME LegacyInv, [LegacyNext]_legacyVars
  PROVE  LegacyInv'
<1>1. ASSUME NEW t \in Threads, ScrapersRun(t) PROVE LegacyInv'
  <2>1. saving[t] = Null /\ LegacyTypeOK
    BY <1>1, NothingToSave DEF ScrapersRun, Calls, LegacyInv
  <2> QED BY <1>1, <2>1, PlainStep DEF ScrapersRun, LegacyTypeOK
<1>2. ASSUME NEW t \in Threads, CheckFails(t) PROVE LegacyInv'
  BY <1>2, PlainStep DEF CheckFails, LegacyInv, LegacyTypeOK
<1>3. CASE UNCHANGED legacyVars
  BY <1>3 DEF legacyVars, LegacyInv, LegacyTypeOK, StatesAreHonest, ThreadFits
<1> QED BY <1>1, <1>2, <1>3, CallKeeps, TruncateKeeps, WriteKeeps, ProgramsStart, RunScraperKeeps,
           ImportKeeps, PidFileKeeps, KillKeeps DEF LegacyNext

LegacySpec == LegacyInit /\ [][LegacyNext]_legacyVars

\* The inductive invariant of the file, its programs and its PID file.
THEOREM LegacyInvariant == LegacySpec => []LegacyInv
<1>1. LegacyInit => LegacyInv
  BY LegacyAssumption DEF LegacyInit, LegacyInv, LegacyTypeOK, StatesAreHonest, ThreadFits, Fits, Labels,
     Calls
<1>2. LegacyInv /\ [LegacyNext]_legacyVars => LegacyInv'
  BY LegacyInvStep
<1>3. QED
  BY <1>1, <1>2, PTL DEF LegacySpec

\* Whoever overwrites whom, the file and what is about to overwrite it record no
\* scraper that did not come to its end (mark_tender_scrape_step, _save).
THEOREM NoStepIsInvented == LegacySpec => []RecordedStepsWereRun
<1>1. LegacyInv => RecordedStepsWereRun
  <2> SUFFICES ASSUME LegacyInv, NEW s \in ({file} \cup {saving[t] : t \in Threads}) \cap RunState
               PROVE  s.done \subseteq ran[s.run]
    BY DEF RecordedStepsWereRun
  <2> QED BY LegacyAssumption DEF LegacyInv, StatesAreHonest, Honest
<1>2. QED
  BY <1>1, LegacyInvariant, PTL

\* The gated import loads the files of a run only when each of its scrapers came to
\* its end (assert_ready_for_import, run_gated_import).
THEOREM GateIsKept == LegacySpec => []GatedImportFollowsScrapes
<1>1. LegacyInv => GatedImportFollowsScrapes
  BY DEF LegacyInv, ThreadFits, Fits, GatedImportFollowsScrapes
<1>2. QED
  BY <1>1, LegacyInvariant, PTL

\* A run that the file calls successful was imported (finish_run).
THEOREM SuccessWasImported == LegacySpec => []RecordedSuccessWasImported
<1>1. LegacyInv => RecordedSuccessWasImported
  BY DEF LegacyInv, StatesAreHonest, Honest, RecordedSuccessWasImported
<1>2. QED
  BY <1>1, LegacyInvariant, PTL
===============================================================================
