------------------------- MODULE EnrichmentJobs_proofs ------------------------
(***************************************************************************)
(* What holds of EnrichmentJobs for any number of callers, runs and        *)
(* providers.  The invariants are proved together: a job that is worked on *)
(* or was reported has been inserted, and only runs that are still absent  *)
(* are inserted, so a job never gets a second worker and a report never    *)
(* meets a row that can still change.                                      *)
(***************************************************************************)
EXTENDS EnrichmentJobs, TLAPS

\* A job that has a worker exists; one whose status is read back is terminal.
WorkedOnExists ==
  \A c \in Callers :
    /\ task[c].pc \in {"cascade", "writing", "readback", "raising"} =>
         task[c].run \in RunIds /\ jobs[task[c].run].status # "absent"
    /\ task[c].pc \in {"reclaim", "returned", "raised"} => task[c].run \in RunIds
    /\ task[c].pc = "readback" => jobs[task[c].run].status \in Terminal
    /\ task[c].pc = "writing" => task[c].source \in Providers

Inv == OneRunningJob /\ OneWorkerPerJob /\ ReportIsPersisted /\ WorkedOnExists

Working == {"cascade", "writing", "readback", "raising"}

-------------------------------------------------------------------------------
(***************************************************************************)
(*                                  Types                                  *)
(***************************************************************************)
\* A caller's next task is well typed when its changed fields are.
LEMMA TypeStep ==
  ASSUME TypeOK, WorkedOnExists, [Next]_vars
  PROVE  TypeOK'
<1> USE DEF TypeOK, Job
<1>0. ASSUME NEW c \in Callers, NEW t \in Task, Becomes(c, t)
      PROVE  task' \in [Callers -> Task]
  BY <1>0 DEF Becomes
<1>i. Idle \in Task
  BY DEF Idle, Task, Terminal
<1>g. ASSUME NEW c \in Callers,
             NEW to \in {"idle", "check", "insert", "find", "reclaim", "cascade",
                         "writing", "readback", "raising", "returned", "raised"},
             Goto(c, to)
      PROVE  task' \in [Callers -> Task]
  <2>1. [task[c] EXCEPT !.pc = to] \in Task
    BY DEF Task
  <2> QED BY <2>1, <1>0, <1>g DEF Goto
<1>1. ASSUME NEW c \in Callers, Request(c) PROVE TypeOK'
  <2>1. [Idle EXCEPT !.pc = "check"] \in Task
    BY <1>i DEF Task
  <2> QED BY <2>1, <1>0, <1>1 DEF Request
<1>2. ASSUME NEW c \in Callers, CheckCache(c) PROVE TypeOK'
  <2>1. [Idle EXCEPT !.pc = IF fresh THEN "idle" ELSE "insert"] \in Task
    BY <1>i DEF Task
  <2> QED BY <2>1, <1>0, <1>2 DEF CheckCache
<1>3. ASSUME NEW c \in Callers, InsertJob(c) PROVE TypeOK'
  <2>1. CASE \E r \in RunIds : Started(c, r)
    <3> PICK r \in RunIds : Started(c, r)
      BY <2>1
    <3>1. [Idle EXCEPT !.pc = "cascade", !.run = r, !.left = Providers] \in Task
      BY <1>i DEF Task
    <3>2. task' \in [Callers -> Task]
      BY <3>1, <1>0 DEF Started
    <3>3. jobs' \in [RunIds -> Job]
      BY LeaseAssumption DEF Started
    <3> QED BY <3>2, <3>3, <1>3 DEF InsertJob
  <2>2. CASE Goto(c, "find") /\ UNCHANGED jobs
    BY <2>2, <1>g, <1>3 DEF InsertJob
  <2> QED BY <2>1, <2>2, <1>3 DEF InsertJob
<1>4. ASSUME NEW c \in Callers, FindJob(c) PROVE TypeOK'
  <2>1. CASE Goto(c, "insert")
    BY <2>1, <1>g, <1>4 DEF FindJob
  <2>2. CASE Becomes(c, Idle)
    BY <2>2, <1>0, <1>i, <1>4 DEF FindJob
  <2>3. ASSUME NEW r \in RunIds, Becomes(c, [Idle EXCEPT !.pc = "reclaim", !.run = r])
        PROVE  TypeOK'
    <3>1. [Idle EXCEPT !.pc = "reclaim", !.run = r] \in Task
      BY <1>i DEF Task
    <3> QED BY <3>1, <2>3, <1>0, <1>4 DEF FindJob
  <2> QED BY <2>1, <2>2, <2>3, <1>4 DEF FindJob
<1>5. ASSUME NEW c \in Callers, ReclaimJob(c) PROVE TypeOK'
  <2>1. [Idle EXCEPT !.pc = "insert"] \in Task
    BY <1>i DEF Task
  <2>2. jobs' \in [RunIds -> Job]
    BY <1>5 DEF ReclaimJob, Terminal
  <2> QED BY <2>1, <2>2, <1>0, <1>5 DEF ReclaimJob
<1>6. ASSUME NEW c \in Callers, NEW p \in Providers, CallProvider(c, p) PROVE TypeOK'
  <2> PICK tag \in {"match", "no_match", "error_or_timeout"} :
        Becomes(c, [task[c] EXCEPT
          !.left   = @ \ {p},
          !.facts  = IF tag = "match" THEN @ \cup {p} ELSE @,
          !.clean  = @ \/ tag # "error_or_timeout",
          !.broken = @ \/ tag = "error_or_timeout"])
    BY <1>6 DEF CallProvider
  <2> DEFINE left   == task[c].left \ {p}
             facts  == IF tag = "match" THEN task[c].facts \cup {p} ELSE task[c].facts
             clean  == task[c].clean \/ tag # "error_or_timeout"
             broken == task[c].broken \/ tag = "error_or_timeout"
  <2>1. Becomes(c, [task[c] EXCEPT !.left = left, !.facts = facts,
                                   !.clean = clean, !.broken = broken])
    OBVIOUS
  <2>2. /\ left \in SUBSET Providers /\ facts \in SUBSET Providers
        /\ clean \in BOOLEAN /\ broken \in BOOLEAN
    BY DEF Task
  <2> HIDE DEF left, facts, clean, broken
  <2>3. [task[c] EXCEPT !.left = left, !.facts = facts,
                        !.clean = clean, !.broken = broken] \in Task
    BY <2>2 DEF Task
  <2> QED BY <2>1, <2>3, <1>0, <1>6 DEF CallProvider
<1>7. ASSUME NEW c \in Callers, NEW p \in Providers, BeginWrite(c, p) PROVE TypeOK'
  <2>1. [task[c] EXCEPT !.pc = "writing", !.source = p,
                        !.facts = @ \ {p}, !.sees = current[p]] \in Task
    BY DEF Task
  <2> QED BY <2>1, <1>0, <1>7 DEF BeginWrite
<1>8. ASSUME NEW c \in Callers, CommitWrite(c) PROVE TypeOK'
  <2> DEFINE p == task[c].source
  <2>1. CASE Goto(c, "raising") /\ UNCHANGED <<current, fresh>>
    BY <2>1, <1>g, <1>8 DEF CommitWrite
  <2>2. CASE /\ current' = [current EXCEPT ![p] = task[c].run]
             /\ fresh' = TRUE
             /\ Becomes(c, [task[c] EXCEPT !.pc = "cascade", !.source = NoRun,
                                           !.sees = NoRun])
    <3>1. [task[c] EXCEPT !.pc = "cascade", !.source = NoRun, !.sees = NoRun] \in Task
      BY DEF Task
    <3>2. task[c].run \in RunIds \cup {NoRun}
      BY DEF Task
    <3> QED BY <3>1, <3>2, <2>2, <1>0, <1>8 DEF CommitWrite
  <2> QED BY <2>1, <2>2, <1>8 DEF CommitWrite
<1>9. ASSUME NEW c \in Callers, Fail(c) PROVE TypeOK'
  BY <1>9, <1>g DEF Fail
<1>r. ASSUME NEW c \in Callers, NEW status \in Terminal, Returns(c, status)
      PROVE  task' \in [Callers -> Task]
  <2>1. [Idle EXCEPT !.pc = "returned", !.run = task[c].run, !.report = status] \in Task
    BY <1>i DEF Task
  <2> QED BY <2>1, <1>r, <1>0 DEF Returns
<1>f. ASSUME NEW r, NEW status \in Terminal, Finished(r, status)
      PROVE  jobs' \in [RunIds -> Job]
  BY <1>f DEF Finished
<1>10. ASSUME NEW c \in Callers, Finish(c) PROVE TypeOK'
  <2>1. Status(task[c]) \in Terminal
    BY DEF Status, Terminal
  <2> QED BY <2>1, <1>r, <1>f, <1>g, <1>10 DEF Finish
<1>11. ASSUME NEW c \in Callers, ReadBack(c) PROVE TypeOK'
  <2>1. jobs[task[c].run].status \in Terminal
    BY <1>11 DEF ReadBack, At, WorkedOnExists
  <2> QED BY <2>1, <1>r, <1>11 DEF ReadBack
<1>12. ASSUME NEW c \in Callers, MarkFailed(c) PROVE TypeOK'
  <2>1. [Idle EXCEPT !.pc = "raised", !.run = task[c].run] \in Task
    BY <1>i DEF Task
  <2>2. "failed" \in Terminal
    BY DEF Terminal
  <2> QED BY <2>1, <2>2, <1>0, <1>f, <1>12 DEF MarkFailed
<1>13. ASSUME NEW c \in Callers, Die(c) PROVE TypeOK'
  BY <1>13, <1>0, <1>i DEF Die
<1>14. CASE Tick
  BY <1>14, LeaseAssumption DEF Tick
<1>15. CASE Age
  BY <1>15 DEF Age
<1>16. CASE UNCHANGED vars
  BY <1>16 DEF vars
<1> QED
  BY <1>1, <1>2, <1>3, <1>4, <1>5, <1>6, <1>7, <1>8, <1>9, <1>10, <1>11, <1>12,
     <1>13, <1>14, <1>15, <1>16 DEF Next, StartOrJoin, Cascade

-------------------------------------------------------------------------------
(***************************************************************************)
(*                        What a step does to the jobs                     *)
(***************************************************************************)
\* The status of each job is kept, or the job is inserted while no other is
\* running, or it ends: reclaimed when stale, or ended by its worker.
StatusKept(r) == jobs'[r].status = jobs[r].status

Inserted(r) ==
  /\ jobs[r].status = "absent" /\ jobs'[r].status = "running"
  /\ \A s \in RunIds : ~Running(s)
  /\ \A s \in RunIds \ {r} : StatusKept(s)

Ended(r) ==
  /\ Running(r) /\ jobs'[r].status \in Terminal
  /\ Stale(r) \/ \E c \in Callers : Works(c, r)

\* A step inserts one job while none is running, or ends running jobs and leaves
\* the others as they are: no job is ever revived or ended twice.
LEMMA StatusStep ==
  ASSUME TypeOK, [Next]_vars
  PROVE  \/ \E r \in RunIds : Inserted(r)
         \/ \A r \in RunIds : StatusKept(r) \/ Ended(r)
<1> USE DEF TypeOK, StatusKept
<1>1. ASSUME UNCHANGED jobs PROVE \A r \in RunIds : StatusKept(r)
  BY <1>1
<1>2. ASSUME NEW c \in Callers, InsertJob(c)
      PROVE  \/ \E r \in RunIds : Inserted(r)
             \/ \A r \in RunIds : StatusKept(r)
  <2>1. CASE UNCHANGED jobs
    BY <2>1, <1>1
  <2>2. ASSUME NEW r \in RunIds, Started(c, r), \A s \in RunIds : ~Running(s)
        PROVE  Inserted(r)
    BY <2>2 DEF Started, Inserted
  <2> QED BY <2>1, <2>2, <1>2 DEF InsertJob
<1>3. ASSUME NEW c \in Callers, ReclaimJob(c)
      PROVE  \A r \in RunIds : StatusKept(r) \/ Ended(r)
  BY <1>3 DEF ReclaimJob, Ended, Stale, Terminal
<1>4. ASSUME NEW c \in Callers, NEW status \in Terminal, Finished(task[c].run, status),
             task[c].pc \in {"cascade", "raising"}
      PROVE  \A r \in RunIds : StatusKept(r) \/ Ended(r)
  BY <1>4 DEF Finished, Ended, Works
<1>5. ASSUME NEW c \in Callers, Finish(c)
      PROVE  \A r \in RunIds : StatusKept(r) \/ Ended(r)
  <2>1. Status(task[c]) \in Terminal
    BY DEF Status, Terminal
  <2> QED BY <2>1, <1>4, <1>5 DEF Finish, CascadeOver, At
<1>6. ASSUME NEW c \in Callers, MarkFailed(c)
      PROVE  \A r \in RunIds : StatusKept(r) \/ Ended(r)
  <2>1. "failed" \in Terminal
    BY DEF Terminal
  <2> QED BY <2>1, <1>4, <1>6 DEF MarkFailed, At
<1>7. CASE Tick
  BY <1>7 DEF Tick, Job
<1>8. ASSUME NEW c \in Callers, \/ Request(c) \/ CheckCache(c) \/ FindJob(c)
                                \/ CommitWrite(c) \/ Fail(c) \/ ReadBack(c) \/ Die(c)
      PROVE  UNCHANGED jobs
  BY <1>8 DEF Request, CheckCache, FindJob, CommitWrite, Fail, ReadBack, Die
<1>9. ASSUME NEW c \in Callers, NEW p \in Providers, CallProvider(c, p) \/ BeginWrite(c, p)
      PROVE  UNCHANGED jobs
  BY <1>9 DEF CallProvider, BeginWrite
<1>10. CASE Age \/ UNCHANGED vars
  BY <1>10, <1>1 DEF Age, vars
<1> QED
  BY <1>1, <1>2, <1>3, <1>5, <1>6, <1>7, <1>8, <1>9, <1>10
     DEF Next, StartOrJoin, Cascade

-------------------------------------------------------------------------------
(***************************************************************************)
(*                      What a step does to the callers                    *)
(***************************************************************************)
\* The new task t of caller c: it works on nothing, it has just inserted its
\* job, it works on as before, or it is done with a job that has ended.
NoWork(t) ==
  \/ t.pc \in {"idle", "check", "insert", "find"}
  \/ t.pc = "reclaim" /\ t.run \in RunIds

StartsWork(t) ==
  t.pc = "cascade" /\ t.run \in RunIds /\ Inserted(t.run)

KeepsWork(c, t) ==
  /\ task[c].pc \in Working /\ t.pc \in Working /\ t.run = task[c].run
  /\ t.pc = "readback" => jobs'[t.run].status \in Terminal
  /\ t.pc = "writing" => t.source \in Providers

EndsWork(c, t) ==
  /\ task[c].pc \in Working /\ t.pc \in {"returned", "raised"} /\ t.run = task[c].run
  /\ jobs'[t.run].status \in Terminal
  /\ t.pc = "returned" => t.report = jobs'[t.run].status

NextTask(c, t) == NoWork(t) \/ StartsWork(t) \/ KeepsWork(c, t) \/ EndsWork(c, t)

\* A step changes the task of one caller at most, in one of four ways: it has no
\* work, it takes up the job it just inserted, it goes on with its job, or it ends.
LEMMA TaskStep ==
  ASSUME TypeOK, Inv, [Next]_vars
  PROVE  \/ UNCHANGED task
         \/ \E c \in Callers : \E t : Becomes(c, t) /\ NextTask(c, t)
<1> DEFINE Steps(c) == \E t : Becomes(c, t) /\ NextTask(c, t)
<1> USE DEF NextTask
<1>w. \A c \in Callers : task[c].pc \in Working =>
         task[c].run \in RunIds /\ jobs[task[c].run].status # "absent"
  BY DEF Inv, WorkedOnExists, Working
<1>t. \A c \in Callers : task[c] \in Task
  BY DEF TypeOK
<1>1. ASSUME NEW c \in Callers, Request(c) \/ CheckCache(c) \/ ReclaimJob(c) \/ Die(c)
      PROVE  Steps(c)
  BY <1>1 DEF Request, CheckCache, ReclaimJob, Die, NoWork, Idle
<1>2. ASSUME NEW c \in Callers, InsertJob(c) PROVE Steps(c)
  <2>1. CASE Goto(c, "find")
    BY <2>1, <1>t DEF Goto, NoWork, Task
  <2>2. ASSUME NEW r \in RunIds, Started(c, r), \A s \in RunIds : ~Running(s)
        PROVE  Steps(c)
    <3> DEFINE t == [Idle EXCEPT !.pc = "cascade", !.run = r, !.left = Providers]
    <3>1. t.pc = "cascade" /\ t.run = r
      BY DEF Idle
    <3>2. Inserted(r)
      BY <2>2 DEF Started, Inserted, StatusKept, TypeOK
    <3> QED BY <3>1, <3>2, <2>2 DEF Started, StartsWork
  <2> QED BY <2>1, <2>2, <1>2 DEF InsertJob
<1>3. ASSUME NEW c \in Callers, FindJob(c) PROVE Steps(c)
  <2>1. CASE Goto(c, "insert")
    BY <2>1, <1>t DEF Goto, NoWork, Task
  <2>2. CASE Becomes(c, Idle)
    BY <2>2 DEF NoWork, Idle
  <2>3. ASSUME NEW r \in RunIds, Becomes(c, [Idle EXCEPT !.pc = "reclaim", !.run = r])
        PROVE  Steps(c)
    <3>1. NoWork([Idle EXCEPT !.pc = "reclaim", !.run = r])
      BY DEF NoWork, Idle
    <3> QED BY <3>1, <2>3
  <2> QED BY <2>1, <2>2, <2>3, <1>3 DEF FindJob
<1>4. ASSUME NEW c \in Callers, NEW p \in Providers, CallProvider(c, p) PROVE Steps(c)
  <2> PICK tag \in {"match", "no_match", "error_or_timeout"} :
        Becomes(c, [task[c] EXCEPT
          !.left   = @ \ {p},
          !.facts  = IF tag = "match" THEN @ \cup {p} ELSE @,
          !.clean  = @ \/ tag # "error_or_timeout",
          !.broken = @ \/ tag = "error_or_timeout"])
    BY <1>4 DEF CallProvider
  <2> DEFINE t == [task[c] EXCEPT
          !.left   = @ \ {p},
          !.facts  = IF tag = "match" THEN @ \cup {p} ELSE @,
          !.clean  = @ \/ tag # "error_or_timeout",
          !.broken = @ \/ tag = "error_or_timeout"]
  <2>1. t.pc = "cascade" /\ task[c].pc = "cascade" /\ t.run = task[c].run
    BY <1>t, <1>4 DEF Task, CallProvider, At
  <2>2. KeepsWork(c, t)
    BY <2>1 DEF KeepsWork, Working
  <2> HIDE DEF t
  <2>3. Becomes(c, t)
    BY DEF t
  <2> QED BY <2>2, <2>3
<1>5. ASSUME NEW c \in Callers, NEW p \in Providers, BeginWrite(c, p) PROVE Steps(c)
  <2> DEFINE t == [task[c] EXCEPT !.pc = "writing", !.source = p,
                                  !.facts = @ \ {p}, !.sees = current[p]]
  <2>1. t.pc = "writing" /\ t.source = p /\ task[c].pc = "cascade" /\ t.run = task[c].run
    BY <1>t, <1>5 DEF Task, BeginWrite, At
  <2>2. KeepsWork(c, t)
    BY <2>1 DEF KeepsWork, Working
  <2> QED BY <2>2, <1>5 DEF BeginWrite
<1>g. ASSUME NEW c \in Callers, Goto(c, "raising"), task[c].pc \in Working
      PROVE  Steps(c)
  <2> DEFINE t == [task[c] EXCEPT !.pc = "raising"]
  <2>1. t.pc = "raising" /\ t.run = task[c].run
    BY <1>t DEF Task
  <2>2. KeepsWork(c, t)
    BY <2>1, <1>g DEF KeepsWork, Working
  <2> QED BY <2>2, <1>g DEF Goto
<1>6. ASSUME NEW c \in Callers, CommitWrite(c) PROVE Steps(c)
  <2> DEFINE t == [task[c] EXCEPT !.pc = "cascade", !.source = NoRun, !.sees = NoRun]
  <2>1. CASE Becomes(c, t)
    <3>1. t.pc = "cascade" /\ t.run = task[c].run /\ task[c].pc = "writing"
      BY <1>t, <1>6 DEF Task, CommitWrite, At
    <3>2. KeepsWork(c, t)
      BY <3>1 DEF KeepsWork, Working
    <3> QED BY <3>2, <2>1
  <2>2. CASE Goto(c, "raising")
    BY <2>2, <1>6, <1>g DEF CommitWrite, At, Working
  <2> QED BY <2>1, <2>2, <1>6 DEF CommitWrite
<1>7. ASSUME NEW c \in Callers, Fail(c) PROVE Steps(c)
  BY <1>7, <1>g DEF Fail, Working
<1>f. ASSUME NEW r \in RunIds, jobs[r].status # "absent", NEW status \in Terminal,
             Finished(r, status)
      PROVE  /\ jobs'[r].status \in Terminal
             /\ Running(r) => jobs'[r].status = status
  BY <1>f DEF Finished, Running, TypeOK, Job
<1>r. ASSUME NEW c \in Callers, task[c].pc \in Working, NEW status \in Terminal,
             Returns(c, status), jobs'[task[c].run].status = status
      PROVE  Steps(c)
  <2> DEFINE t == [Idle EXCEPT !.pc = "returned", !.run = task[c].run, !.report = status]
  <2>1. t.pc = "returned" /\ t.run = task[c].run /\ t.report = status
    BY DEF Idle
  <2>2. EndsWork(c, t)
    BY <2>1, <1>r DEF EndsWork
  <2> QED BY <2>2, <1>r DEF Returns
<1>8. ASSUME NEW c \in Callers, Finish(c) PROVE Steps(c)
  <2>1. Status(task[c]) \in Terminal
    BY DEF Status, Terminal
  <2>2. task[c].pc \in Working /\ Finished(task[c].run, Status(task[c]))
    BY <1>8 DEF Finish, CascadeOver, At, Working
  <2>3. /\ jobs'[task[c].run].status \in Terminal
        /\ Running(task[c].run) => jobs'[task[c].run].status = Status(task[c])
    BY <2>1, <2>2, <1>w, <1>f
  <2>4. CASE Running(task[c].run)
    BY <2>4, <2>1, <2>2, <2>3, <1>r, <1>8 DEF Finish
  <2>5. CASE ~Running(task[c].run)
    <3> DEFINE t == [task[c] EXCEPT !.pc = "readback"]
    <3>1. t.pc = "readback" /\ t.run = task[c].run
      BY <1>t DEF Task
    <3>2. KeepsWork(c, t)
      BY <3>1, <2>2, <2>3 DEF KeepsWork, Working
    <3> QED BY <3>2, <2>5, <1>8 DEF Finish, Goto
  <2> QED BY <2>4, <2>5
<1>9. ASSUME NEW c \in Callers, ReadBack(c) PROVE Steps(c)
  <2>1. task[c].pc \in Working /\ jobs[task[c].run].status \in Terminal
    BY <1>9 DEF ReadBack, At, Working, Inv, WorkedOnExists
  <2> QED BY <2>1, <1>r, <1>9 DEF ReadBack
<1>10. ASSUME NEW c \in Callers, MarkFailed(c) PROVE Steps(c)
  <2> DEFINE t == [Idle EXCEPT !.pc = "raised", !.run = task[c].run]
  <2>1. t.pc = "raised" /\ t.run = task[c].run
    BY DEF Idle
  <2>2. task[c].pc \in Working /\ "failed" \in Terminal
    BY <1>10 DEF MarkFailed, At, Working, Terminal
  <2>3. jobs'[task[c].run].status \in Terminal
    BY <2>2, <1>w, <1>f, <1>10 DEF MarkFailed
  <2>4. EndsWork(c, t)
    BY <2>1, <2>2, <2>3 DEF EndsWork
  <2> QED BY <2>4, <1>10 DEF MarkFailed
<1>11. CASE Tick \/ Age \/ UNCHANGED vars
  BY <1>11 DEF Tick, Age, vars
<1> QED
  BY <1>1, <1>2, <1>3, <1>4, <1>5, <1>6, <1>7, <1>8, <1>9, <1>10, <1>11
     DEF Next, StartOrJoin, Cascade

-------------------------------------------------------------------------------
(***************************************************************************)
(*                              The invariants                             *)
(***************************************************************************)
\* A job that has a row keeps it, and a terminal status is never changed.
LEMMA JobsOnlyEnd ==
  ASSUME TypeOK, [Next]_vars, NEW r \in RunIds
  PROVE  /\ jobs[r].status # "absent" => jobs'[r].status # "absent"
         /\ jobs[r].status \in Terminal => StatusKept(r)
  BY StatusStep DEF Inserted, Ended, StatusKept, Running, Terminal

\* With no job, no fields and no request, the invariant holds.
LEMMA InvInit == Init => TypeOK /\ Inv
<1> SUFFICES ASSUME Init PROVE TypeOK /\ Inv
  OBVIOUS
<1>1. /\ \A r \in RunIds : jobs[r].status = "absent"
      /\ \A c \in Callers : task[c].pc = "idle"
  BY DEF Init, Idle
<1>2. TypeOK
  <2>1. Idle \in Task
    BY DEF Idle, Task, Terminal
  <2>2. [status |-> "absent", lease |-> 0] \in Job
    BY LeaseAssumption DEF Job
  <2> QED BY <2>1, <2>2 DEF Init, TypeOK
<1>3. Inv
  BY <1>1 DEF Inv, OneRunningJob, OneWorkerPerJob, ReportIsPersisted,
              WorkedOnExists, Works, Running, At
<1> QED BY <1>2, <1>3

\* Every step preserves the invariant, conjunct by conjunct.
LEMMA InvStep ==
  ASSUME TypeOK, Inv, [Next]_vars
  PROVE  Inv'
<1>t. TypeOK'
  BY TypeStep DEF Inv
<1>1. OneRunningJob'
  <2>1. CASE \E r \in RunIds : Inserted(r)
    BY <2>1 DEF Inserted, StatusKept, OneRunningJob, Running
  <2>2. CASE \A r \in RunIds : StatusKept(r) \/ Ended(r)
    <3>1. \A r \in RunIds : Running(r)' => Running(r)
      BY <2>2 DEF StatusKept, Ended, Running, Terminal
    <3> QED BY <3>1 DEF OneRunningJob, Inv
  <2> QED BY <2>1, <2>2, StatusStep
<1>2. CASE UNCHANGED task
  <2>1. \A c \in Callers : task[c] \in Task
    BY DEF TypeOK
  <2>2. \A c \in Callers :
          task[c].pc \in {"returned", "raised"} => task[c].run \in RunIds
    BY DEF Inv, WorkedOnExists
  <2>3. OneWorkerPerJob'
    BY <1>2 DEF Inv, OneWorkerPerJob, Works
  <2>4. ReportIsPersisted'
    BY <1>2, <2>2, JobsOnlyEnd DEF Inv, ReportIsPersisted, At, StatusKept
  <2>5. WorkedOnExists'
    BY <1>2, JobsOnlyEnd DEF Inv, WorkedOnExists, StatusKept
  <2> QED BY <1>1, <2>3, <2>4, <2>5 DEF Inv
<1>3. ASSUME NEW c \in Callers, NEW t, Becomes(c, t), NextTask(c, t)
      PROVE  Inv'
  <2>1. task'[c] = t /\ \A d \in Callers \ {c} : task'[d] = task[d]
    BY <1>3 DEF Becomes, TypeOK
  <2>2. ASSUME NEW d \in Callers \ {c}, NEW r \in RunIds, Works(c, r)'
        PROVE  ~Works(d, r)
    <3>1. t.pc \in Working /\ t.run = r
      BY <2>1, <2>2 DEF Works, Working
    <3>2. CASE StartsWork(t)
      BY <3>1, <3>2 DEF StartsWork, Inserted, Inv, WorkedOnExists, Works
    <3>3. CASE KeepsWork(c, t)
      BY <3>1, <3>3 DEF KeepsWork, Inv, OneWorkerPerJob, Works, Working
    <3> QED BY <3>1, <3>2, <3>3, <1>3 DEF NextTask, NoWork, EndsWork, Working
  <2>3. OneWorkerPerJob'
    <3>1. \A d \in Callers \ {c} : \A r \in RunIds : Works(d, r)' => Works(d, r)
      BY <2>1 DEF Works
    <3> QED BY <2>2, <3>1 DEF Inv, OneWorkerPerJob
  <2>4. ReportIsPersisted'
    <3>1. ASSUME NEW d \in Callers \ {c}, task[d].pc \in {"returned", "raised"}
          PROVE  jobs'[task[d].run].status = jobs[task[d].run].status
      BY <3>1, JobsOnlyEnd DEF Inv, WorkedOnExists, ReportIsPersisted, StatusKept
    <3>2. /\ t.pc = "returned" => t.report = jobs'[t.run].status
          /\ t.pc \in {"returned", "raised"} => jobs'[t.run].status \in Terminal
      BY <1>3 DEF NextTask, NoWork, StartsWork, KeepsWork, EndsWork, Working
    <3> QED BY <2>1, <3>1, <3>2 DEF Inv, ReportIsPersisted, At
  <2>5. WorkedOnExists'
    <3>1. ASSUME NEW d \in Callers \ {c}
          PROVE  /\ task[d].pc \in {"cascade", "writing", "readback", "raising"} =>
                      task[d].run \in RunIds /\ jobs'[task[d].run].status # "absent"
                 /\ task[d].pc \in {"reclaim", "returned", "raised"} =>
                      task[d].run \in RunIds
                 /\ task[d].pc = "readback" => jobs'[task[d].run].status \in Terminal
                 /\ task[d].pc = "writing" => task[d].source \in Providers
      BY JobsOnlyEnd DEF Inv, WorkedOnExists, StatusKept
    <3>2. CASE NoWork(t) \/ StartsWork(t)
      <4>1. /\ t.pc \in {"cascade", "writing", "readback", "raising"} =>
                 t.run \in RunIds /\ jobs'[t.run].status # "absent"
            /\ t.pc \in {"reclaim", "returned", "raised"} => t.run \in RunIds
            /\ t.pc = "readback" => jobs'[t.run].status \in Terminal
            /\ t.pc = "writing" => t.source \in Providers
        BY <3>2 DEF NoWork, StartsWork, Inserted
      <4> QED BY <2>1, <3>1, <4>1 DEF WorkedOnExists
    <3>3. CASE KeepsWork(c, t) \/ EndsWork(c, t)
      <4>1. t.run \in RunIds /\ jobs[t.run].status # "absent"
        BY <3>3 DEF KeepsWork, EndsWork, Inv, WorkedOnExists, Working
      <4>2. jobs'[t.run].status # "absent"
        BY <4>1, JobsOnlyEnd
      <4> QED BY <2>1, <3>1, <3>3, <4>1, <4>2
              DEF WorkedOnExists, KeepsWork, EndsWork, Working
    <3> QED BY <3>2, <3>3, <1>3 DEF NextTask
  <2> QED BY <1>1, <2>3, <2>4, <2>5 DEF Inv
<1> QED BY <1>2, <1>3, TaskStep

\* The inductive invariant of the enrichment jobs.
THEOREM Invariance == Spec => [](TypeOK /\ Inv)
<1>1. TypeOK /\ Inv /\ [Next]_vars => (TypeOK /\ Inv)'
  BY TypeStep, InvStep DEF Inv
<1> QED BY <1>1, InvInit, PTL DEF Spec

\* Every variable keeps its type.
THEOREM TypeCorrect == Spec => []TypeOK
  BY Invariance, PTL

\* At most one job of the company is running, however many callers race.
THEOREM OneRunning == Spec => []OneRunningJob
<1>1. Inv => OneRunningJob
  BY DEF Inv
<1> QED BY <1>1, Invariance, PTL

\* Two background tasks never work on the same job.
THEOREM OneWorker == Spec => []OneWorkerPerJob
<1>1. Inv => OneWorkerPerJob
  BY DEF Inv
<1> QED BY <1>1, Invariance, PTL

\* What run_cascade_for_job returns is what the row says, for good.
THEOREM ReportHolds == Spec => []ReportIsPersisted
<1>1. Inv => ReportIsPersisted
  BY DEF Inv
<1> QED BY <1>1, Invariance, PTL

\* The first terminal status of a job is its last.
THEOREM FirstOutcomeStays == Spec => OutcomeIsFinal
<1>1. TypeOK /\ [Next]_vars =>
        [\A r \in RunIds : jobs[r].status \in Terminal =>
           jobs'[r].status = jobs[r].status]_vars
  BY JobsOnlyEnd DEF StatusKept
<1> QED BY <1>1, TypeCorrect, PTL DEF Spec, OutcomeIsFinal

\* A job with a live lease is ended by its own worker only.
THEOREM LiveJobIsSafe == Spec => LiveJobIsLeftAlone
<1>1. TypeOK /\ [Next]_vars =>
        [\A r \in RunIds : Live(r) /\ jobs'[r].status # "running" =>
           \E c \in Callers : Works(c, r)]_vars
  BY StatusStep DEF Inserted, Ended, StatusKept, Live, Stale, Running, TypeOK, Job
<1> QED BY <1>1, TypeCorrect, PTL DEF Spec, LiveJobIsLeftAlone
===============================================================================
