------------------------- MODULE TenderPipeline_proofs -------------------------
(***************************************************************************)
(* The safety of the programs over the coordinator, for any run_ids,       *)
(* workers, steps, lease and number of attempts.  A program remembers      *)
(* nothing of the row of its run, so the proof is about what the row       *)
(* cannot lose once a call has succeeded, whatever other workers do.       *)
(***************************************************************************)
EXTENDS TenderPipeline, RunCoordinator_proofs

(***************************************************************************)
(*                    What a step of the coordinator keeps                 *)
(***************************************************************************)
\* Any step but a finish_run(True).
QuietNext ==
  \/ \E w \in Workers :
       \/ Begin(w)
       \/ Crash(w)
       \/ \E r \in RunIds : MutateRun(w, r) \/ finish_run(w, r, "false")
       \/ reap_stale_run(w)
  \/ Tick

\* What no step takes from a run: that it was begun, is ready for import, has
\* begun and ended its import; and that it is dead once it was begun.
Lasting ==
  \A r \in RunIds :
    /\ ReadyForImport(r) => ReadyForImport(r)'
    /\ runs[r].importing => runs'[r].importing
    /\ runs[r].imported => runs'[r].imported
    /\ runs[r].status # "absent" => runs'[r].status # "absent"
    /\ runs[r].status # "absent" /\ ~Live(r) => ~Live(r)'

\* A step that is not a finish_run(True) makes no success and undoes no stamp.
LEMMA QuietRows ==
  ASSUME TypeOK, Inv, [QuietNext]_vars, NEW r \in RunIds
  PROVE  /\ runs'[r].success = "true" => runs[r].success = "true"
         /\ runs[r].imported => runs'[r].imported
<1> DEFINE Kept(s) == /\ runs'[s].success = "true" => runs[s].success = "true"
                      /\ runs[s].imported => runs'[s].imported
<1> SUFFICES Kept(r)
  OBVIOUS
<1>0. \A s \in RunIds : runs[s] \in Row
  BY DEF TypeOK
<1>1. ASSUME UNCHANGED runs PROVE Kept(r)
  BY <1>1
<1>2. ASSUME NEW s \in RunIds, NEW row \in Row, runs' = [runs EXCEPT ![s] = row],
             row.success \in {runs[s].success, "false"},
             row.imported = runs[s].imported \/ row.imported
      PROVE  Kept(r)
  <2>1. CASE r = s
    BY <1>2, <2>1 DEF TypeOK
  <2>2. CASE r # s
    BY <1>2, <2>2 DEF TypeOK
  <2> QED BY <2>1, <2>2
<1>3. ASSUME NEW w \in Workers, NEW s \in RunIds, NEW row \in Row, Mutate(w, s, row),
             row.success = runs[s].success,
             row.imported = runs[s].imported \/ row.imported
      PROVE  Kept(r)
  <2>1. /\ Renewed(row) \in Row /\ Renewed(row).success = row.success
        /\ Renewed(row).imported = row.imported
    BY <1>3, RowTypes DEF Renewed, Row
  <2>2. runs' = [runs EXCEPT ![s] = Renewed(row)]
    BY <1>3 DEF Mutate
  <2> QED BY <1>2, <1>3, <2>1, <2>2
<1>4. ASSUME NEW s \in RunIds, runs' = [runs EXCEPT ![s] = Reclaim(@)] PROVE Kept(r)
  <2>1. /\ Reclaim(runs[s]) \in Row /\ Reclaim(runs[s]).success = "false"
        /\ Reclaim(runs[s]).imported = runs[s].imported
    BY <1>0, RowTypes DEF Reclaim, Row
  <2>2. runs' = [runs EXCEPT ![s] = Reclaim(runs[s])]
    BY <1>4
  <2> QED BY <1>2, <2>1, <2>2
<1>5. ASSUME NEW w \in Workers, Begin(w) PROVE Kept(r)
  <2>1. ASSUME NEW q \in RunIds \cup {NoRun}, BeginResume(w, q) PROVE Kept(r)
    <3>1. PICK s \in RunIds : runs' = [runs EXCEPT ![s] = Renewed(@)]
      BY <2>1 DEF BeginResume
    <3>2. /\ Renewed(runs[s]) \in Row /\ Renewed(runs[s]).success = runs[s].success
          /\ Renewed(runs[s]).imported = runs[s].imported
      BY <1>0, RowTypes DEF Renewed, Row
    <3>3. runs' = [runs EXCEPT ![s] = Renewed(runs[s])]
      BY <3>1
    <3> QED BY <1>2, <3>2, <3>3
  <2>2. CASE BeginInsert(w)
    <3>1. PICK n \in Chosen(w) :
            /\ ~UniqueViolation(w, n)
            /\ runs' = [s \in RunIds |->
                          IF s = n THEN NewRow
                          ELSE IF s = txn[w].held THEN Reclaim(runs[s])
                          ELSE runs[s]]
      BY <2>2 DEF BeginInsert
    <3>2. NewRow.success = "unset" /\ ~NewRow.imported
      BY DEF NewRow, NoRow
    <3>3. runs[n].status = "absent"
      BY <3>1 DEF UniqueViolation
    <3>4. r = n => ~runs[r].imported
      BY <3>3 DEF Inv, AbsentIsBlank, NoRow
    <3>5. Reclaim(runs[r]).success = "false" /\ Reclaim(runs[r]).imported = runs[r].imported
      BY <1>0 DEF Reclaim, Row
    <3> QED BY <3>1, <3>2, <3>4, <3>5
  <2>3. CASE \E q \in RunIds \cup {NoRun} :
               BeginConflict(w, q) \/ BeginScan(w, q) \/ BeginWaits(w, q)
    BY <1>1, <2>3 DEF BeginConflict, BeginScan, BeginWaits
  <2>4. CASE BeginMissed(w) \/ BeginReused(w) \/ BeginUnused(w) \/ BeginCollides(w)
    BY <1>1, <2>4 DEF BeginMissed, BeginReused, BeginUnused, BeginCollides
  <2> QED BY <1>5, <2>1, <2>2, <2>3, <2>4 DEF Begin
<1>6. ASSUME NEW w \in Workers, NEW s \in RunIds, MutateRun(w, s) PROVE Kept(r)
  <2> DEFINE row == runs[s]
  <2>1. row \in Row
    BY <1>0
  <2>2. CASE RefuseRetired(w, s) \/ RefuseEarly(w, s, completed[s] = Steps)
             \/ RefuseEarly(w, s, ReadyForImport(s))
    BY <1>1, <2>2 DEF RefuseRetired, RefuseEarly
  <2>3. CASE ReclaimOnCallback(w, s)
    BY <1>4, <2>3 DEF ReclaimOnCallback
  <2>4. CASE begin_tender_scrape(w, s)
    <3> DEFINE new == [row EXCEPT !.phase = "tender_scrape"]
    <3>1. new \in Row /\ new.success = row.success /\ new.imported = row.imported
      BY <2>1 DEF Row, Phases
    <3> QED BY <1>3, <2>4, <3>1 DEF begin_tender_scrape
  <2>5. ASSUME NEW step \in Steps, mark_tender_scrape_step(w, s, step) PROVE Kept(r)
    <3> DEFINE ends == completed[s] \cup {step} = Steps /\ ~row.scraped
               new == [row EXCEPT
                         !.scraped = @ \/ ends,
                         !.phase = IF ends THEN "tender_scrape_complete" ELSE @]
    <3>1. new \in Row /\ new.success = row.success /\ new.imported = row.imported
      BY <2>1 DEF Row, Phases
    <3>2. Mutate(w, s, new)
      BY <2>5 DEF mark_tender_scrape_step
    <3> QED BY <1>3, <3>1, <3>2
  <2>6. CASE complete_tender_scrape(w, s)
    <3> DEFINE new == [row EXCEPT !.scraped = TRUE, !.phase = "tender_scrape_complete"]
    <3>1. new \in Row /\ new.success = row.success /\ new.imported = row.imported
      BY <2>1 DEF Row, Phases
    <3> QED BY <1>3, <2>6, <3>1 DEF complete_tender_scrape
  <2>7. CASE begin_full_scrape(w, s)
    <3> DEFINE new == [row EXCEPT !.phase = "full_scrape"]
    <3>1. new \in Row /\ new.success = row.success /\ new.imported = row.imported
      BY <2>1 DEF Row, Phases
    <3> QED BY <1>3, <2>7, <3>1 DEF begin_full_scrape
  <2>8. CASE complete_full_scrape(w, s)
    <3> DEFINE new == [row EXCEPT !.phase = IF @ = "tender_scrape_complete" THEN @
                                            ELSE "scrape_complete"]
    <3>1. new \in Row /\ new.success = row.success /\ new.imported = row.imported
      BY <2>1 DEF Row, Phases
    <3> QED BY <1>3, <2>8, <3>1 DEF complete_full_scrape
  <2>9. CASE begin_import(w, s)
    <3> DEFINE new == [row EXCEPT !.phase = "import", !.importing = TRUE]
    <3>1. new \in Row /\ new.success = row.success /\ new.imported = row.imported
      BY <2>1 DEF Row, Phases
    <3> QED BY <1>3, <2>9, <3>1 DEF begin_import
  <2>10. CASE complete_import(w, s)
    <3> DEFINE new == [row EXCEPT !.phase = "import_complete", !.imported = TRUE]
    <3>1. new \in Row /\ new.success = row.success /\ new.imported
      BY <2>1 DEF Row, Phases
    <3> QED BY <1>3, <2>10, <3>1 DEF complete_import
  <2> QED BY <1>6, <2>2, <2>3, <2>4, <2>5, <2>6, <2>7, <2>8, <2>9, <2>10 DEF MutateRun
<1>7. ASSUME NEW w \in Workers, NEW s \in RunIds, finish_run(w, s, "false") PROVE Kept(r)
  <2> DEFINE new == [runs[s] EXCEPT !.status = "finished", !.phase = "finished",
                                    !.success = "false"]
  <2>1. new \in Row /\ new.success = "false" /\ new.imported = runs[s].imported
    BY <1>0 DEF Row, Phases, Statuses
  <2>2. runs' = [runs EXCEPT ![s] = new]
    BY <1>7 DEF finish_run
  <2> QED BY <1>2, <2>1, <2>2
<1>8. ASSUME NEW w \in Workers, reap_stale_run(w) PROVE Kept(r)
  BY <1>4, <1>8 DEF reap_stale_run
<1>9. CASE Tick
  <2>1. runs'[r] = [runs[r] EXCEPT !.lease = IF @ > 0 THEN @ - 1 ELSE 0]
    BY <1>9 DEF Tick
  <2> QED BY <1>0, <2>1 DEF Row
<1>10. CASE UNCHANGED vars
  BY <1>1, <1>10 DEF vars
<1>11. ASSUME NEW w \in Workers, Crash(w) PROVE Kept(r)
  BY <1>1, <1>11 DEF Crash
<1> QED BY <1>5, <1>6, <1>7, <1>8, <1>9, <1>10, <1>11 DEF QuietNext

\* finish_run(True) of run f: no other run has its success changed, and no
\* stamp is touched.
LEMMA FinishRows ==
  ASSUME TypeOK, NEW w \in Workers, NEW f \in RunIds, finish_run(w, f, "true"),
         NEW r \in RunIds
  PROVE  /\ r # f => runs'[r] = runs[r]
         /\ runs'[r].imported = runs[r].imported
         /\ runs'[f].status = "finished"
<1>1. runs[f] \in Row
  BY DEF TypeOK
<1>2. /\ runs'[f] = [runs[f] EXCEPT !.status = "finished", !.phase = "finished",
                                    !.success = "true"]
      /\ r # f => runs'[r] = runs[r]
  BY DEF finish_run, TypeOK
<1> QED BY <1>1, <1>2 DEF Row

\* What lasts, lasts over every step.
LEMMA WhatLasts ==
  ASSUME TypeOK, TypeOK', Inv, Inv', [Next]_vars,
         \A r \in RunIds : runs[r].imported => runs'[r].imported
  PROVE  Lasting
<1>1. Scraped \subseteq Scraped' /\ Imported \subseteq Imported'
  <2>1. [Promise!Next]_(Promise!vars)
    BY StepMaps
  <2>2. CASE UNCHANGED Promise!vars
    BY <2>2 DEF Promise!vars, Scraped, Imported
  <2>3. CASE \E r \in RunIds : Promise!Claim(r)
    BY <2>3 DEF Promise!Claim, Scraped, Imported
  <2>4. CASE Promise!Lapse \/ Promise!Release \/ Promise!Scrape \/ Promise!Import
    BY <2>4 DEF Promise!Lapse, Promise!Release, Promise!Scrape, Promise!Import,
                Scraped, Imported
  <2> QED BY <2>1, <2>2, <2>3, <2>4 DEF Promise!Next
<1>2. ASSUME NEW r \in RunIds
      PROVE  /\ ReadyForImport(r) => ReadyForImport(r)'
             /\ runs[r].importing => runs'[r].importing
  BY <1>1 DEF Scraped, Imported
<1>3. ASSUME NEW r \in RunIds, runs[r].status # "absent"
      PROVE  runs'[r].status # "absent" /\ (~Live(r) => ~Live(r)')
  <2>1. CASE UNCHANGED vars
    BY <1>3, <2>1 DEF vars, Live, Active
  <2>2. CASE Next
    <3>1. Effect(r) /\ ~Starts(r)
      BY <1>3, <2>2, StepEffect DEF Starts
    <3>2. runs[r] \in Row
      BY DEF TypeOK
    <3>3. CASE Renews(r)
      BY <3>3 DEF Renews
    <3>4. CASE Retires(r)
      BY <3>2, <3>4 DEF Retires, Row, Live, Active
    <3>5. CASE Reclaims(r)
      BY <3>2, <3>5 DEF Reclaims, Reclaim, Row, Live, Active
    <3>6. CASE Ages(r)
      <4>1. runs'[r].status = runs[r].status
        BY <3>2, <3>6 DEF Ages, Row
      <4>2. runs'[r].lease = IF runs[r].lease > 0 THEN runs[r].lease - 1 ELSE 0
        BY <3>2, <3>6 DEF Ages, Row
      <4>3. ~(runs[r].lease > 0) => ~(runs'[r].lease > 0)
        BY <4>2
      <4> QED BY <1>3, <4>1, <4>3 DEF Live, Active
    <3>7. CASE Keeps(r)
      BY <1>3, <3>7 DEF Keeps, Live, Active
    <3> QED BY <3>1, <3>3, <3>4, <3>5, <3>6, <3>7 DEF Effect
  <2> QED BY <2>1, <2>2
<1> QED BY <1>2, <1>3 DEF Lasting

(***************************************************************************)
(*                          What a program may rely on                     *)
(***************************************************************************)
\* Where a pipeline has begun its run.
Begun == {"full", "scrape", "steps", "aux", "import", "importing", "imported",
          "cleanup", "returned", "raised", "unhandled"}

\* A position pc of worker w, its run q and its transaction agree with the rows.
Fits(p, q, t) ==
  /\ p \notin {"ended", "resolve"} => q \in RunIds
  /\ p \in Begun => runs[q].status # "absent"
  /\ p \in {"importing", "loading"} => ReadyForImport(q)
  /\ p \in {"importing", "imported"} => runs[q].importing
  /\ p = "imported" => runs[q].imported /\ ReadyForImport(q)
  /\ p \in {"returned", "raised"} => ~Live(q)
  /\ t # Idle => p \in {"begin", "create"} /\ t.pc # "idle" /\ t.run = q

WorkersFit == \A w \in Workers : Fits(pc[w], run(w), txn[w])

\* The invariant: ImportsOnlyScrapedRuns and EndedPipelineFreesTheScope are
\* parts of WorkersFit.
PipelineInv == PipelineTypeOK /\ Inv /\ WorkersFit /\ SuccessMeansImported

\* A worker that does not move keeps fitting.
LEMMA StandsStill ==
  ASSUME PipelineTypeOK, WorkersFit, Lasting, NEW v \in Workers,
         pc'[v] = pc[v], job'[v] = job[v], txn'[v] = txn[v]
  PROVE  Fits(pc[v], run(v), txn[v])'
<1>1. Fits(pc[v], run(v), txn[v]) /\ run(v)' = run(v)
  BY DEF WorkersFit, run
<1>2. CASE pc[v] \in {"ended", "resolve"}
  BY <1>1, <1>2 DEF Fits, Begun
<1>3. CASE pc[v] \notin {"ended", "resolve"}
  <2>1. run(v) \in RunIds
    BY <1>1, <1>3 DEF Fits
  <2>2. /\ ReadyForImport(run(v)) => ReadyForImport(run(v))'
        /\ pc[v] \in {"returned", "raised"} => ~Live(run(v))'
    BY <1>1, <2>1 DEF Lasting, Fits, Begun
  <2> QED BY <1>1, <2>1, <2>2 DEF Lasting, Fits, Begun
<1> QED BY <1>2, <1>3

\* If a step keeps types and rows, what is left to show is that the workers
\* fit where they arrive.
LEMMA TheyMove ==
  ASSUME PipelineInv, PipelineTypeOK', [QuietNext]_vars, Lasting => WorkersFit'
  PROVE  PipelineInv'
<1>1. TypeOK /\ TypeOK' /\ Inv
  BY DEF PipelineInv, PipelineTypeOK
<1>2. [Next]_vars
  BY DEF QuietNext, Next
<1>3. Inv'
  BY <1>1, <1>2, InvStep
<1>4. \A r \in RunIds : runs'[r].success = "true" => runs[r].success = "true"
  BY <1>1, QuietRows
<1>5. Lasting
  <2>1. \A r \in RunIds : runs[r].imported => runs'[r].imported
    BY <1>1, QuietRows
  <2> QED BY <1>1, <1>2, <1>3, <2>1, WhatLasts
<1>6. SuccessMeansImported'
  BY <1>4, <1>5 DEF PipelineInv, SuccessMeansImported, Lasting, ReadyForImport
<1> QED BY <1>3, <1>5, <1>6 DEF PipelineInv

\* When only worker w moves, w alone has to be looked at.
LEMMA OneMoves ==
  ASSUME PipelineInv, PipelineTypeOK', [QuietNext]_vars, NEW w \in Workers,
         \A v \in Workers : v # w =>
           pc'[v] = pc[v] /\ job'[v] = job[v] /\ txn'[v] = txn[v],
         Lasting => Fits(pc[w], run(w), txn[w])'
  PROVE  PipelineInv'
<1>1. ASSUME Lasting PROVE WorkersFit'
  BY <1>1, StandsStill DEF WorkersFit, PipelineInv
<1> QED BY <1>1, TheyMove

\* To go to a label keeps the types.
LEMMA GotoTypes ==
  ASSUME PipelineTypeOK, NEW w \in Workers, NEW to \in Labels, Goto(w, to)
  PROVE  /\ pc' \in [Workers -> Labels] /\ job' \in [Workers -> Job]
         /\ pc'[w] = to
         /\ to # "ended" => job' = job
         /\ \A v \in Workers : v # w => pc'[v] = pc[v] /\ job'[v] = job[v]
<1>1. NoJob \in Job
  BY DEF NoJob, Job
<1> QED BY <1>1 DEF Goto, PipelineTypeOK

\* A worker outside begin_run goes to a label by a call that opens no
\* transaction: what is to be shown of the row of its run, q.
LEMMA Calls ==
  ASSUME PipelineInv, NEW w \in Workers, NEW to \in Labels \ {"resolve"},
         pc[w] \notin {"ended", "resolve", "begin", "create"},
         NEW q, q = run(w),
         UNCHANGED vars \/ MutateRun(w, q) \/ finish_run(w, q, "false"),
         Goto(w, to), UNCHANGED latest,
         to \in Begun => pc[w] \in Begun,
         to \in {"importing", "loading"} => ReadyForImport(q)',
         to \in {"importing", "imported"} => runs'[q].importing,
         to = "imported" => runs'[q].imported /\ ReadyForImport(q)',
         to \in {"returned", "raised"} => ~Live(q)'
  PROVE  PipelineInv'
<1>1. Fits(pc[w], q, txn[w]) /\ PipelineTypeOK
  BY DEF PipelineInv, WorkersFit
<1>2. q \in RunIds /\ txn[w] = Idle
  BY <1>1 DEF Fits
<1>3. UNCHANGED txn
  BY DEF vars, MutateRun, finish_run, RefuseRetired, ReclaimOnCallback, RefuseEarly,
         begin_tender_scrape, mark_tender_scrape_step, complete_tender_scrape,
         begin_full_scrape, complete_full_scrape, begin_import, complete_import, Mutate
<1>4. [QuietNext]_vars
  BY <1>2 DEF QuietNext
<1>5. /\ pc' \in [Workers -> Labels] /\ job' \in [Workers -> Job] /\ pc'[w] = to
      /\ to # "ended" => job' = job
      /\ \A v \in Workers : v # w => pc'[v] = pc[v] /\ job'[v] = job[v]
  BY <1>1, GotoTypes
<1>6. PipelineTypeOK'
  <2>1. TypeOK'
    BY <1>1, <1>4, TypeStep DEF PipelineTypeOK, QuietNext, Next
  <2> QED BY <1>1, <1>5, <2>1 DEF PipelineTypeOK
<1>7. ASSUME Lasting PROVE Fits(pc[w], run(w), txn[w])'
  <2>1. CASE to = "ended"
    BY <1>2, <1>3, <1>5, <2>1 DEF Fits, Begun
  <2>2. CASE to # "ended"
    <3>1. run(w)' = q /\ txn'[w] = Idle
      BY <1>2, <1>3, <1>5, <2>2 DEF run
    <3>2. to \in Begun => runs'[q].status # "absent"
      BY <1>1, <1>2, <1>7 DEF Fits, Lasting
    <3> QED BY <1>2, <1>5, <3>1, <3>2 DEF Fits, ReadyForImport, Live, Active
  <2> QED BY <2>1, <2>2
<1> QED BY <1>3, <1>4, <1>5, <1>6, <1>7, OneMoves

(***************************************************************************)
(*                           Programs begin and end                        *)
(***************************************************************************)
\* A request is served: its worker holds no transaction.
LEMMA StartStep ==
  ASSUME PipelineInv, NEW w \in Workers, Request(w) PROVE PipelineInv'
<1>1. PICK q \in RunIds \cup {NoRun}, todo \in SUBSET Steps,
           to \in {"begin", "ensure", "resolve"} :
        Started(w, q, todo, to) /\ (to = "resolve" \/ q \in RunIds)
  BY DEF Request, StartPipeline, StartScrapeStep, StartImportStep
<1>2. PipelineTypeOK /\ Fits(pc[w], run(w), txn[w])
  BY DEF PipelineInv, WorkersFit
<1>3. txn[w] = Idle
  BY <1>1, <1>2 DEF Fits, Started, Ends
<1>4. [run |-> q, todo |-> todo, failed |-> {}] \in Job
  BY DEF Job
<1>5. PipelineTypeOK'
  BY <1>1, <1>2, <1>4 DEF Started, PipelineTypeOK, Labels, TypeOK, vars
<1>6. pc'[w] = to /\ run(w)' = q /\ txn'[w] = Idle
  BY <1>1, <1>2, <1>3 DEF Started, PipelineTypeOK, run, vars
<1>7. Fits(pc[w], run(w), txn[w])'
  BY <1>1, <1>6 DEF Fits, Begun
<1>8. \A v \in Workers : v # w =>
        pc'[v] = pc[v] /\ job'[v] = job[v] /\ txn'[v] = txn[v]
  BY <1>1, <1>2 DEF Started, PipelineTypeOK, vars
<1>9. UNCHANGED vars
  BY <1>1 DEF Started
<1> QED BY <1>5, <1>7, <1>8, <1>9, OneMoves

\* A worker is killed: the server rolls its transaction back.
LEMMA DieStep ==
  ASSUME PipelineInv, NEW w \in Workers, Die(w) PROVE PipelineInv'
<1>1. PipelineTypeOK /\ Fits(pc[w], run(w), txn[w])
  BY DEF PipelineInv, WorkersFit
<1>2. [QuietNext]_vars
  <2>1. CASE txn[w] = Idle
    <3>1. txn' = txn
      BY <1>1, <2>1 DEF Die, PipelineTypeOK, TypeOK
    <3> QED BY <3>1 DEF Die, vars
  <2>2. CASE txn[w] # Idle
    <3>1. Crash(w)
      BY <1>1, <2>2 DEF Die, Crash, Return, Fits
    <3> QED BY <3>1 DEF QuietNext
  <2> QED BY <2>1, <2>2
<1>3. /\ pc' \in [Workers -> Labels] /\ job' \in [Workers -> Job] /\ pc'[w] = "ended"
      /\ \A v \in Workers : v # w => pc'[v] = pc[v] /\ job'[v] = job[v]
  BY <1>1, GotoTypes DEF Die, Labels, Ends
<1>4. Idle \in Txn
  BY AttemptsAssumption DEF Idle, Txn
<1>5. PipelineTypeOK'
  BY <1>1, <1>3, <1>4 DEF Die, PipelineTypeOK, TypeOK
<1>6. txn'[w] = Idle /\ \A v \in Workers : v # w => txn'[v] = txn[v]
  BY <1>1 DEF Die, PipelineTypeOK, TypeOK
<1>7. Fits(pc[w], run(w), txn[w])'
  BY <1>3, <1>6 DEF Fits, Begun
<1> QED BY <1>2, <1>3, <1>5, <1>6, <1>7, OneMoves

\* Time passes, or the reaper runs: no program moves.
LEMMA OutsideStep ==
  ASSUME PipelineInv, UNCHANGED progVars,
         Tick \/ \E w \in Workers : reap_stale_run(w)
  PROVE  PipelineInv'
<1>1. PipelineTypeOK /\ UNCHANGED txn
  BY DEF PipelineInv, Tick, reap_stale_run
<1>2. [QuietNext]_vars
  BY DEF QuietNext
<1>3. TypeOK'
  BY <1>1, <1>2, TypeStep DEF PipelineTypeOK, QuietNext, Next
<1>4. PipelineTypeOK'
  BY <1>1, <1>3 DEF PipelineTypeOK, progVars
<1>5. ASSUME Lasting PROVE WorkersFit'
  <2>1. \A v \in Workers : Fits(pc[v], run(v), txn[v])'
    BY <1>1, <1>5, StandsStill DEF PipelineInv, progVars
  <2> QED BY <2>1 DEF WorkersFit
<1> QED BY <1>2, <1>4, <1>5, TheyMove

(***************************************************************************)
(*                                 begin_run                               *)
(***************************************************************************)
\* The statements of begin_run: the transaction keeps the run_id of its worker,
\* and when it succeeds the run has a row.
LEMMA BeginStep ==
  ASSUME PipelineInv, NEW w \in Workers, NEW from, NEW next,
         <<from, next>> \in {<<"begin", "full">>, <<"create", "created">>},
         BeginRun(w, from, next, "ended")
  PROVE  PipelineInv'
<1> DEFINE q == run(w)
           t == txn[w]
<1>1. /\ PipelineTypeOK /\ Fits(pc[w], q, t) /\ pc[w] = from
      /\ from \in {"begin", "create"} /\ next \in {"full", "created"}
  BY DEF PipelineInv, WorkersFit, BeginRun
<1>2. q \in RunIds /\ (t # Idle => t.pc # "idle" /\ t.run = q) /\ t \in Txn
  BY <1>1 DEF Fits, PipelineTypeOK, TypeOK
<1>3. Begin(w)
  BY <1>2 DEF BeginRun, Begin
<1>4. [QuietNext]_vars
  BY <1>3 DEF QuietNext
<1>5. TypeOK'
  BY <1>1, <1>4, TypeStep DEF PipelineTypeOK, QuietNext, Next
<1>6. latest' \in RunIds \cup {NoRun}
  <2>1. CASE \E r \in RunIds : runs[r].status = "absent" /\ runs'[r].status # "absent"
    BY <2>1 DEF BeginRun, Latest
  <2>2. CASE ~\E r \in RunIds : runs[r].status = "absent" /\ runs'[r].status # "absent"
    BY <1>1, <2>2 DEF BeginRun, Latest, PipelineTypeOK
  <2> QED BY <2>1, <2>2
<1>7. ASSUME NEW to \in {next, from, "ended"}, Goto(w, to),
             \E u : txn' = [txn EXCEPT ![w] = u],
             \/ txn'[w] = Idle /\ (to = "full" => runs'[q].status # "absent")
             \/ to = from /\ txn'[w].pc # "idle" /\ txn'[w].run = q
      PROVE  PipelineInv'
  <2>1. to \in Labels
    BY <1>1, <1>7 DEF Labels, Ends
  <2>2. /\ pc' \in [Workers -> Labels] /\ job' \in [Workers -> Job] /\ pc'[w] = to
        /\ to # "ended" => job' = job
        /\ \A v \in Workers : v # w => pc'[v] = pc[v] /\ job'[v] = job[v]
    BY <1>1, <1>7, <2>1, GotoTypes
  <2>3. PipelineTypeOK'
    BY <1>5, <1>6, <2>2 DEF PipelineTypeOK
  <2>4. \A v \in Workers : v # w => txn'[v] = txn[v]
    BY <1>1, <1>7 DEF PipelineTypeOK, TypeOK
  <2>5. Fits(pc[w], run(w), txn[w])'
    <3>1. CASE to = "ended"
      BY <1>1, <1>7, <2>2, <3>1 DEF Fits, Begun
    <3>2. CASE to # "ended"
      <4>1. run(w)' = q
        BY <2>2, <3>2 DEF run
      <4> QED BY <1>1, <1>2, <1>7, <2>2, <3>2, <4>1 DEF Fits, Begun
    <3> QED BY <3>1, <3>2
  <2> QED BY <1>4, <2>2, <2>3, <2>4, <2>5, OneMoves
<1>8. txn \in [Workers -> Txn] /\ Idle.pc = "idle"
  BY <1>1 DEF PipelineTypeOK, TypeOK, Idle
<1>9. CASE BeginResume(w, q) /\ Goto(w, next)
  <2>1. runs'[q].status # "absent"
    <3>1. PICK r \in RunIds : /\ q \in {r, NoRun} /\ Live(r)
                             /\ runs' = [runs EXCEPT ![r] = Renewed(@)]
      BY <1>9 DEF BeginResume
    <3>2. r = q
      BY <1>2, <3>1, NoRunAssumption
    <3>3. runs[q] \in Row /\ runs'[q] = Renewed(runs[q])
      BY <1>1, <1>2, <3>1, <3>2 DEF PipelineTypeOK, TypeOK
    <3> QED BY <3>1, <3>2, <3>3 DEF Renewed, Row, Live, Active
  <2>2. txn' = [txn EXCEPT ![w] = Idle]
    BY <1>9 DEF BeginResume, Return
  <2> QED BY <1>7, <1>8, <1>9, <2>1, <2>2
<1>10. CASE BeginInsert(w) /\ Goto(w, next)
  <2>1. runs'[q].status # "absent"
    <3>1. t.run = q /\ Chosen(w) = {q}
      BY <1>2, <1>8, <1>10, NoRunAssumption DEF BeginInsert, Chosen
    <3>2. runs'[q] = NewRow
      BY <1>2, <1>10, <3>1 DEF BeginInsert
    <3> QED BY <3>2 DEF NewRow, NoRow
  <2>2. txn' = [txn EXCEPT ![w] = Idle]
    BY <1>10 DEF BeginInsert, Return
  <2> QED BY <1>7, <1>8, <1>10, <2>1, <2>2
<1>11. CASE (BeginConflict(w, q) \/ BeginReused(w)) /\ Goto(w, "ended")
  <2>1. txn' = [txn EXCEPT ![w] = Idle]
    BY <1>11 DEF BeginConflict, BeginReused, Return
  <2> QED BY <1>7, <1>8, <1>11, <2>1
<1>12. CASE BeginCollides(w) /\ Goto(w, IF txn'[w] = Idle THEN "ended" ELSE from)
  <2>1. CASE txn' = [txn EXCEPT ![w] = Idle]
    <3>1. txn'[w] = Idle
      BY <1>8, <2>1
    <3> QED BY <1>7, <1>12, <2>1, <3>1
  <2>2. CASE txn' = [txn EXCEPT ![w] = Retried(@)]
    <3>1. txn'[w] = Retried(t)
      BY <1>8, <2>2
    <3>2. Retried(t).pc = "scan" /\ Retried(t).run = q
      BY <1>2, <1>8, <1>12 DEF Retried, BeginCollides, Txn
    <3>3. Goto(w, from)
      BY <1>8, <1>12, <3>1, <3>2
    <3>4. txn' = [txn EXCEPT ![w] = Retried(t)]
      BY <2>2
    <3> QED BY <1>7, <3>1, <3>2, <3>3, <3>4
  <2> QED BY <1>12, <2>1, <2>2 DEF BeginCollides, Return
<1>13. CASE Goto(w, from) /\ BeginScan(w, q)
  <2>1. PICK h \in RunIds \cup {NoRun} : txn' = [txn EXCEPT ![w] = Scanned(@, q, h)]
    BY <1>13 DEF BeginScan
  <2>2. Scanned(t, q, h).pc = "check" /\ Scanned(t, q, h).run = q
    BY <1>2, NoRunAssumption DEF Scanned, Txn
  <2>3. txn' = [txn EXCEPT ![w] = Scanned(t, q, h)] /\ txn'[w] = Scanned(t, q, h)
    BY <1>8, <2>1
  <2> QED BY <1>7, <1>13, <2>2, <2>3
<1>14. CASE Goto(w, from) /\ BeginWaits(w, q)
  <2>1. PICK r \in RunIds :
          txn' = [txn EXCEPT ![w] = [@ EXCEPT !.pc = "wait", !.run = q, !.awaits = r]]
    BY <1>14 DEF BeginWaits
  <2> DEFINE u == [t EXCEPT !.pc = "wait", !.run = q, !.awaits = r]
  <2>2. u.pc = "wait" /\ u.run = q
    BY <1>2 DEF Txn
  <2>3. txn' = [txn EXCEPT ![w] = u] /\ txn'[w] = u
    BY <1>8, <2>1
  <2> QED BY <1>7, <1>14, <2>2, <2>3
<1>15. CASE Goto(w, from) /\ BeginMissed(w)
  <2> DEFINE u == Scanned(t, t.run, NoRun)
  <2>1. txn' = [txn EXCEPT ![w] = u] /\ txn'[w] = u
    BY <1>8, <1>15 DEF BeginMissed
  <2>2. t.run = q
    BY <1>2, <1>8, <1>15 DEF BeginMissed
  <2>3. u.pc = "check" /\ u.run = q
    BY <1>2, <2>2, NoRunAssumption DEF Scanned, Txn
  <2> HIDE DEF u
  <2> QED BY <1>7, <1>15, <2>1, <2>3
<1>16. CASE Goto(w, from) /\ BeginUnused(w)
  <2> DEFINE u == [t EXCEPT !.pc = "insert"]
  <2>1. txn' = [txn EXCEPT ![w] = u] /\ txn'[w] = u
    BY <1>8, <1>16 DEF BeginUnused
  <2>2. u.pc = "insert" /\ u.run = q
    BY <1>2, <1>8, <1>16 DEF BeginUnused, Txn
  <2> QED BY <1>7, <1>16, <2>1, <2>2
<1> QED BY <1>9, <1>10, <1>11, <1>12, <1>13, <1>14, <1>15, <1>16 DEF BeginRun

(***************************************************************************)
(*                       Calls between begin_run and the end               *)
(***************************************************************************)
\* A refused call changes nothing or reclaims the run; a run that is refused
\* for no other reason is dead.
LEMMA RefusedCall ==
  ASSUME PipelineInv, NEW w \in Workers, NEW q \in RunIds, q = run(w),
         NEW Ready \in BOOLEAN, Refused(w, Ready)
  PROVE  /\ UNCHANGED vars \/ MutateRun(w, q)
         /\ Ready => ~Live(q)'
<1>1. runs \in [RunIds -> Row]
  BY DEF PipelineInv, PipelineTypeOK, TypeOK
<1>2. CASE RefuseRetired(w, q)
  BY <1>2 DEF RefuseRetired, vars, Live, Active
<1>3. CASE ReclaimOnCallback(w, q)
  <2>1. runs'[q] = Reclaim(runs[q]) /\ runs[q] \in Row
    BY <1>1, <1>3 DEF ReclaimOnCallback
  <2>2. runs'[q].status = "finished"
    BY <2>1 DEF Reclaim, Row
  <2> QED BY <1>3, <2>2 DEF MutateRun, Live, Active
<1>4. CASE RefuseEarly(w, q, Ready)
  BY <1>4 DEF RefuseEarly, vars
<1> QED BY <1>2, <1>3, <1>4 DEF Refused

\* Where a worker is outside begin_run, its run and its row are what they
\* should be.
LEMMA AtWork ==
  ASSUME PipelineInv, NEW w \in Workers,
         pc[w] \notin {"ended", "resolve", "begin", "create"}
  PROVE  /\ PipelineTypeOK /\ Fits(pc[w], run(w), txn[w])
         /\ run(w) \in RunIds /\ txn[w] = Idle
         /\ runs[run(w)] \in Row
<1>1. PipelineTypeOK /\ Fits(pc[w], run(w), txn[w])
  BY DEF PipelineInv, WorkersFit
<1> QED BY <1>1 DEF Fits, PipelineTypeOK, TypeOK

\* The row after a call that goes through.
LEMMA MutatedRow ==
  ASSUME TypeOK, NEW w \in Workers, NEW q \in RunIds, NEW row \in Row,
         Mutate(w, q, row)
  PROVE  /\ runs'[q].scraped = row.scraped /\ runs'[q].importing = row.importing
         /\ runs'[q].imported = row.imported
<1>1. runs'[q] = Renewed(row)
  BY DEF Mutate, TypeOK
<1> QED BY <1>1 DEF Renewed, Row

\* A call of the program that may be refused, after which the worker goes to
\* a place where nothing is expected of the row but that the run was begun.
LEMMA PlainCall ==
  ASSUME PipelineInv, NEW w \in Workers, NEW q \in RunIds, q = run(w),
         pc[w] \notin {"ended", "resolve", "begin", "create"},
         NEW to \in {"scrape", "steps", "aux", "import", "cleanup", "unhandled",
                     "ended", "ready", "create", "marking"},
         to \in Begun => pc[w] \in Begun,
         Goto(w, to), UNCHANGED latest,
         \/ UNCHANGED vars \/ MutateRun(w, q)
         \/ \E Ready \in BOOLEAN : Refused(w, Ready)
  PROVE  PipelineInv'
<1>1. UNCHANGED vars \/ MutateRun(w, q)
  BY RefusedCall
<1>2. to \in Labels \ {"resolve"}
  BY DEF Labels, Ends
<1> QED BY <1>1, <1>2, Calls DEF Begun

\* begin_full_scrape: refused, it is because the run is dead; failed by the
\* database, nothing is expected of the row.
LEMMA BeginFullStep ==
  ASSUME PipelineInv, NEW w \in Workers, NEW q \in RunIds, q = run(w),
         BeginFullScrape(w)
  PROVE  PipelineInv'
<1>1. CASE begin_full_scrape(w, q) /\ Goto(w, "scrape")
  BY <1>1, PlainCall DEF MutateRun, BeginFullScrape, Begun
<1>2. CASE Refused(w, TRUE) /\ Goto(w, "raised")
  <2>1. (UNCHANGED vars \/ MutateRun(w, q)) /\ ~Live(q)'
    BY <1>2, RefusedCall
  <2>2. "raised" \in Labels \ {"resolve"}
    BY DEF Labels, Ends
  <2> QED BY <1>2, <2>1, <2>2, Calls DEF BeginFullScrape, Begun
<1>3. CASE UNCHANGED vars /\ Goto(w, "unhandled")
  BY <1>3, PlainCall DEF BeginFullScrape, Begun
<1> QED BY <1>1, <1>2, <1>3 DEF BeginFullScrape

\* begin_tender_scrape, in the pipeline and in a scrape step.
LEMMA BeginScrapeStep ==
  ASSUME PipelineInv, NEW w \in Workers, NEW q \in RunIds, q = run(w),
         \/ BeginTenderScrape(w) \/ StepBegins(w, "created", "ready")
         \/ StepBegins(w, "ready", "marking")
  PROVE  PipelineInv'
<1>1. CASE BeginTenderScrape(w)
  BY <1>1, PlainCall DEF MutateRun, BeginTenderScrape, Raises, Begun
<1>2. CASE StepBegins(w, "created", "ready") \/ StepBegins(w, "ready", "marking")
  BY <1>2, PlainCall DEF MutateRun, StepBegins, Begun
<1> QED BY <1>1, <1>2

\* One scraper of the pipeline: the worker stays where it is, with one less to do.
LEMMA ScraperStep ==
  ASSUME PipelineInv, NEW w \in Workers, NEW q \in RunIds, q = run(w), RunScraper(w)
  PROVE  PipelineInv'
<1>1. /\ PipelineTypeOK /\ Fits(pc[w], q, txn[w]) /\ txn[w] = Idle
      /\ pc[w] = "steps" /\ UNCHANGED <<pc, latest>>
  BY AtWork DEF RunScraper
<1>2. PICK step \in job[w].todo :
        \/ /\ mark_tender_scrape_step(w, q, step)
           /\ job' = [job EXCEPT ![w].todo = @ \ {step}]
        \/ /\ Raises(w, TRUE)
           /\ job' = [job EXCEPT ![w].todo = @ \ {step},
                                 ![w].failed = @ \cup {step}]
  BY DEF RunScraper
<1>3. job[w] \in Job /\ step \in Steps
  BY <1>1 DEF PipelineTypeOK, Job
<1>4. UNCHANGED vars \/ MutateRun(w, q)
  BY <1>2, <1>3, RefusedCall DEF MutateRun, Raises
<1>5. PICK new \in Job : job' = [job EXCEPT ![w] = new] /\ new.run = q
  <2>1. CASE job' = [job EXCEPT ![w].todo = @ \ {step}]
    <3> DEFINE new == [job[w] EXCEPT !.todo = @ \ {step}]
    <3>1. new \in Job /\ new.run = q
      BY <1>3 DEF Job, run
    <3>2. job' = [job EXCEPT ![w] = new]
      BY <2>1
    <3> QED BY <3>1, <3>2
  <2>2. CASE job' = [job EXCEPT ![w].todo = @ \ {step}, ![w].failed = @ \cup {step}]
    <3> DEFINE new == [job[w] EXCEPT !.todo = @ \ {step}, !.failed = @ \cup {step}]
    <3>1. new \in Job /\ new.run = q
      BY <1>3 DEF Job, run
    <3>2. job' = [job EXCEPT ![w] = new]
      BY <1>1, <2>2 DEF PipelineTypeOK
    <3> QED BY <3>1, <3>2
  <2> QED BY <1>2, <2>1, <2>2
<1>6. /\ job' \in [Workers -> Job] /\ run(w)' = q
       /\ \A v \in Workers : v # w => job'[v] = job[v]
  BY <1>1, <1>5 DEF PipelineTypeOK, run
<1>7. UNCHANGED txn
  BY <1>4 DEF vars, MutateRun, RefuseRetired, ReclaimOnCallback, RefuseEarly,
              begin_tender_scrape, mark_tender_scrape_step, complete_tender_scrape,
              begin_full_scrape, complete_full_scrape, begin_import,
              complete_import, Mutate
<1>8. [QuietNext]_vars
  BY <1>4 DEF QuietNext
<1>9. PipelineTypeOK'
  <2>1. TypeOK'
    BY <1>1, <1>8, TypeStep DEF PipelineTypeOK, QuietNext, Next
  <2> QED BY <1>1, <1>6, <2>1 DEF PipelineTypeOK
<1>10. ASSUME Lasting PROVE Fits(pc[w], run(w), txn[w])'
  <2>1. pc'[w] = "steps" /\ txn'[w] = Idle /\ runs'[q].status # "absent"
    BY <1>1, <1>7, <1>10 DEF Fits, Begun, Lasting
  <2> QED BY <1>6, <2>1 DEF Fits
<1> QED BY <1>1, <1>6, <1>7, <1>8, <1>9, <1>10, OneMoves

\* The end of the scrapers.
LEMMA ScrapersDoneStep ==
  ASSUME PipelineInv, NEW w \in Workers, NEW q \in RunIds, q = run(w), ScrapersDone(w)
  PROVE  PipelineInv'
<1>1. CASE complete_tender_scrape(w, q) /\ Goto(w, "aux")
  BY <1>1, PlainCall DEF MutateRun, ScrapersDone, Begun
<1>2. CASE Raises(w, completed[q] = Steps) /\ Goto(w, "cleanup")
  BY <1>2, PlainCall DEF ScrapersDone, Raises, Begun
<1>3. CASE UNCHANGED vars /\ (Goto(w, "cleanup") \/ Goto(w, "aux"))
  BY <1>3, PlainCall DEF ScrapersDone, Begun
<1> QED BY <1>1, <1>2, <1>3 DEF ScrapersDone

\* complete_full_scrape.
LEMMA CompleteFullStep ==
  ASSUME PipelineInv, NEW w \in Workers, NEW q \in RunIds, q = run(w),
         CompleteFullScrape(w)
  PROVE  PipelineInv'
BY PlainCall DEF MutateRun, CompleteFullScrape, Raises, Begun

\* begin_import makes a row what "importing" and "loading" expect.
LEMMA ImportBegun ==
  ASSUME PipelineInv, NEW w \in Workers, NEW q \in RunIds, begin_import(w, q)
  PROVE  runs'[q].importing /\ ReadyForImport(q)'
<1> DEFINE row == [runs[q] EXCEPT !.phase = "import", !.importing = TRUE]
<1>1. TypeOK /\ runs[q] \in Row
  BY DEF PipelineInv, PipelineTypeOK, TypeOK
<1>2. row \in Row /\ row.importing /\ row.scraped = runs[q].scraped
  BY <1>1 DEF Row, Phases
<1>3. runs'[q].importing = row.importing /\ runs'[q].scraped = row.scraped
  BY <1>1, <1>2, MutatedRow DEF begin_import
<1> QED BY <1>2, <1>3 DEF begin_import, ReadyForImport

\* begin_import, in the pipeline and in the gated import.
LEMMA BeginImportStep ==
  ASSUME PipelineInv, NEW w \in Workers, NEW q \in RunIds, q = run(w),
         BeginImport(w) \/ GatedBeginImport(w)
  PROVE  PipelineInv'
<1>1. CASE BeginImport(w) /\ begin_import(w, q) /\ Goto(w, "importing")
  BY <1>1, ImportBegun, Calls DEF BeginImport, Begun, MutateRun, Labels, Ends
<1>2. CASE GatedBeginImport(w) /\ begin_import(w, q) /\ Goto(w, "loading")
  BY <1>2, ImportBegun, Calls DEF GatedBeginImport, Begun, MutateRun, Labels, Ends
<1>3. CASE BeginImport(w) /\ Goto(w, "cleanup") /\ Raises(w, ReadyForImport(q))
  BY <1>3, PlainCall DEF BeginImport, ReadyForImport, Raises, Begun
<1>4. CASE GatedBeginImport(w) /\ Refused(w, ReadyForImport(q)) /\ Goto(w, "ended")
  BY <1>4, PlainCall DEF GatedBeginImport, ReadyForImport, Begun
<1> QED BY <1>1, <1>2, <1>3, <1>4 DEF BeginImport, GatedBeginImport

\* complete_import, in the pipeline and in the gated import.
LEMMA CompleteImportStep ==
  ASSUME PipelineInv, NEW w \in Workers, NEW q \in RunIds, q = run(w),
         CompleteImport(w) \/ GatedCompleteImport(w)
  PROVE  PipelineInv'
<1>1. CASE CompleteImport(w) /\ complete_import(w, q) /\ Goto(w, "imported")
  <2> DEFINE row == [runs[q] EXCEPT !.phase = "import_complete", !.imported = TRUE]
  <2>1. /\ TypeOK /\ runs[q] \in Row
        /\ runs[q].importing /\ ReadyForImport(q)
    BY <1>1, AtWork DEF PipelineTypeOK, Fits, CompleteImport
  <2>2. /\ row \in Row /\ row.imported
        /\ row.importing = runs[q].importing /\ row.scraped = runs[q].scraped
    BY <2>1 DEF Row, Phases
  <2>3. /\ runs'[q].importing = row.importing /\ runs'[q].scraped = row.scraped
        /\ runs'[q].imported = row.imported
    BY <1>1, <2>1, <2>2, MutatedRow DEF complete_import
  <2>4. runs'[q].importing /\ runs'[q].imported /\ ReadyForImport(q)'
    BY <1>1, <2>1, <2>2, <2>3 DEF ReadyForImport, complete_import
  <2> QED BY <1>1, <2>4, Calls DEF CompleteImport, Begun, MutateRun, Labels, Ends
<1>2. CASE CompleteImport(w) /\ Goto(w, "cleanup") /\ Raises(w, TRUE)
  BY <1>2, PlainCall DEF CompleteImport, Raises, Begun
<1>3. CASE GatedCompleteImport(w)
  BY <1>3, PlainCall DEF GatedCompleteImport, MutateRun, Begun
<1> QED BY <1>1, <1>2, <1>3 DEF CompleteImport

\* finish_run(False), in the except clause; the database may fail it.
LEMMA FailureStep ==
  ASSUME PipelineInv, NEW w \in Workers, NEW q \in RunIds, q = run(w), FinishFailure(w)
  PROVE  PipelineInv'
<1>1. CASE finish_run(w, q, "false") /\ Goto(w, "raised")
  <2>1. pc[w] = "cleanup" /\ UNCHANGED latest /\ runs[q] \in Row
    BY AtWork DEF FinishFailure
  <2>2. runs'[q].status = "finished"
    BY <1>1, <2>1 DEF finish_run, Row, PipelineInv, PipelineTypeOK, TypeOK
  <2>3. ~Live(q)'
    BY <2>2 DEF Live, Active
  <2> QED BY <1>1, <2>1, <2>3, Calls DEF Begun, Labels, Ends
<1>2. CASE UNCHANGED vars /\ Goto(w, "unhandled")
  BY <1>2, PlainCall DEF FinishFailure, Begun
<1> QED BY <1>1, <1>2 DEF FinishFailure

\* The database is checked; finish_run(True) is what no other step may do, and
\* the run it is done for has been imported.
LEMMA SuccessStep ==
  ASSUME PipelineInv, NEW w \in Workers, NEW q \in RunIds, q = run(w), FinishSuccess(w)
  PROVE  PipelineInv'
<1>1. CASE UNCHANGED vars /\ Goto(w, "cleanup")
  BY <1>1, PlainCall DEF FinishSuccess, Begun
<1>2. CASE finish_run(w, q, "true") /\ Goto(w, "returned")
  <2>1. /\ PipelineTypeOK /\ Fits(pc[w], q, txn[w]) /\ pc[w] = "imported"
        /\ txn[w] = Idle
    BY AtWork DEF FinishSuccess
  <2>2. TypeOK /\ TypeOK' /\ Inv /\ Inv'
    <3>1. [Next]_vars
      BY <1>2 DEF Next
    <3> QED BY <2>1, <3>1, TypeStep, InvStep DEF PipelineInv, PipelineTypeOK
  <2>3. Lasting
    <3>1. [Next]_vars
      BY <1>2 DEF Next
    <3>2. \A r \in RunIds : runs[r].imported => runs'[r].imported
      BY <1>2, <2>2, FinishRows
    <3> QED BY <2>2, <3>1, <3>2, WhatLasts
  <2>4. /\ pc' \in [Workers -> Labels] /\ pc'[w] = "returned" /\ job' = job
        /\ \A v \in Workers : v # w => pc'[v] = pc[v]
    BY <1>2, <2>1, GotoTypes DEF Labels, Ends
  <2>5. PipelineTypeOK' /\ UNCHANGED txn
    BY <1>2, <2>1, <2>2, <2>4 DEF PipelineTypeOK, FinishSuccess, finish_run
  <2>6. WorkersFit'
    <3>1. Fits(pc[w], run(w), txn[w])'
      <4>1. run(w)' = q /\ txn'[w] = Idle
        BY <2>1, <2>4, <2>5 DEF run
      <4>2. runs'[q].status = "finished"
        BY <1>2, <2>2, FinishRows
      <4> QED BY <2>4, <4>1, <4>2 DEF Fits, Live, Active
    <3>2. \A v \in Workers : v # w => Fits(pc[v], run(v), txn[v])'
      BY <2>1, <2>3, <2>4, <2>5, StandsStill DEF PipelineInv
    <3> QED BY <3>1, <3>2 DEF WorkersFit
  <2>7. SuccessMeansImported'
    <3>1. runs[q].importing /\ runs[q].imported /\ ReadyForImport(q)
      BY <2>1 DEF Fits
    <3>2. runs'[q].importing /\ runs'[q].imported /\ ReadyForImport(q)'
      BY <2>3, <3>1 DEF Lasting
    <3>3. ASSUME NEW r \in RunIds, r # q, runs'[r].success = "true"
          PROVE  runs'[r].importing /\ runs'[r].imported /\ ReadyForImport(r)'
      <4>1. runs[r].success = "true"
        BY <1>2, <2>2, <3>3, FinishRows
      <4> QED BY <2>3, <3>3, <4>1 DEF PipelineInv, SuccessMeansImported, Lasting
    <3> QED BY <3>2, <3>3 DEF SuccessMeansImported
  <2> QED BY <2>2, <2>5, <2>6, <2>7 DEF PipelineInv
<1> QED BY <1>1, <1>2 DEF FinishSuccess

(***************************************************************************)
(*                          The steps without a call                       *)
(***************************************************************************)
\* ensure_run_started looks at the latest run; marking ends a scrape step.
LEMMA ScrapeStepStep ==
  ASSUME PipelineInv, NEW w \in Workers, NEW q \in RunIds, q = run(w),
         EnsureRunStarted(w) \/ StepMarks(w)
  PROVE  PipelineInv'
<1>1. CASE EnsureRunStarted(w)
  BY <1>1, PlainCall DEF EnsureRunStarted, Begun
<1>2. CASE StepMarks(w)
  <2>1. job[w].todo \subseteq Steps
    BY DEF PipelineInv, PipelineTypeOK, Job
  <2> QED BY <1>2, <2>1, PlainCall DEF StepMarks, MutateRun, Raises, Begun
<1> QED BY <1>1, <1>2

\* The gated import finds out what run to import.
LEMMA ResolveStep ==
  ASSUME PipelineInv, NEW w \in Workers, ResolveImportRun(w) PROVE PipelineInv'
<1>1. /\ PipelineTypeOK /\ Fits(pc[w], run(w), txn[w]) /\ pc[w] = "resolve"
      /\ UNCHANGED vars /\ UNCHANGED latest
  BY DEF PipelineInv, WorkersFit, ResolveImportRun, run
<1>2. txn'[w] = Idle /\ TypeOK'
  BY <1>1 DEF Fits, vars, PipelineTypeOK, TypeOK
<1>3. CASE Goto(w, "ended")
  <2>1. /\ pc' \in [Workers -> Labels] /\ job' \in [Workers -> Job] /\ pc'[w] = "ended"
        /\ \A v \in Workers : v # w => pc'[v] = pc[v] /\ job'[v] = job[v]
    BY <1>1, <1>3, GotoTypes DEF Labels, Ends
  <2>2. PipelineTypeOK'
    BY <1>1, <1>2, <2>1 DEF PipelineTypeOK
  <2>3. Fits(pc[w], run(w), txn[w])'
    BY <1>2, <2>1 DEF Fits, Begun
  <2> QED BY <1>1, <2>1, <2>2, <2>3, OneMoves DEF vars
<1>4. CASE \E r \in RunIds : pc' = [pc EXCEPT ![w] = "gate"] /\ job' = [job EXCEPT ![w].run = r]
  <2>1. PICK r \in RunIds : pc' = [pc EXCEPT ![w] = "gate"] /\ job' = [job EXCEPT ![w].run = r]
    BY <1>4
  <2>2. /\ pc' \in [Workers -> Labels] /\ job' \in [Workers -> Job]
        /\ pc'[w] = "gate" /\ run(w)' = r
        /\ \A v \in Workers : v # w => pc'[v] = pc[v] /\ job'[v] = job[v]
    BY <1>1, <2>1 DEF PipelineTypeOK, Labels, Job, run
  <2>3. PipelineTypeOK'
    BY <1>1, <1>2, <2>2 DEF PipelineTypeOK
  <2>4. Fits(pc[w], run(w), txn[w])'
    BY <1>2, <2>2 DEF Fits, Begun
  <2> QED BY <1>1, <2>2, <2>3, <2>4, OneMoves DEF vars
<1>5. run(w) \in RunIds \cup {NoRun} /\ latest \in RunIds \cup {NoRun}
  BY <1>1 DEF PipelineTypeOK, Job, run
<1> QED BY <1>1, <1>3, <1>4, <1>5 DEF ResolveImportRun

(***************************************************************************)
(*                                  Theorems                               *)
(***************************************************************************)
\* A step of a program keeps the invariant.
LEMMA ProgramStep ==
  ASSUME PipelineInv, NEW w \in Workers, Step(w) PROVE PipelineInv'
<1>1. CASE \/ BeginRun(w, "begin", "full", "ended")
           \/ BeginRun(w, "create", "created", "ended")
  BY <1>1, BeginStep
<1>2. CASE ResolveImportRun(w)
  BY <1>2, ResolveStep
<1>3. CASE \/ BeginFullScrape(w) \/ BeginTenderScrape(w) \/ RunScraper(w)
           \/ ScrapersDone(w) \/ CompleteFullScrape(w) \/ BeginImport(w)
           \/ CompleteImport(w) \/ FinishSuccess(w) \/ FinishFailure(w)
           \/ EnsureRunStarted(w) \/ StepBegins(w, "created", "ready")
           \/ StepBegins(w, "ready", "marking") \/ StepMarks(w)
           \/ GatedBeginImport(w) \/ GatedCompleteImport(w)
  <2>1. pc[w] \in Labels \ {"ended", "resolve", "begin", "create"}
               \/ pc[w] = "ensure"
    BY <1>3 DEF Labels, Ends, BeginFullScrape, BeginTenderScrape, RunScraper,
       ScrapersDone, CompleteFullScrape, BeginImport, CompleteImport, FinishSuccess,
       FinishFailure, EnsureRunStarted, StepBegins, StepMarks, GatedBeginImport,
       GatedCompleteImport
  <2>2. PICK q \in RunIds : q = run(w)
    BY <2>1, AtWork DEF Labels, Ends
  <2> QED BY <1>3, <2>2, BeginFullStep, BeginScrapeStep, ScraperStep,
             ScrapersDoneStep, CompleteFullStep, BeginImportStep,
             CompleteImportStep, SuccessStep, FailureStep, ScrapeStepStep
<1> QED BY <1>1, <1>2, <1>3 DEF Step, PipelineStep, N8nStep

\* Nothing changes.
LEMMA PipelineStutter == PipelineInv /\ UNCHANGED allVars => PipelineInv'
<1> SUFFICES ASSUME PipelineInv, UNCHANGED allVars PROVE PipelineInv'
  OBVIOUS
<1>1. UNCHANGED vars /\ UNCHANGED progVars
  BY DEF allVars
<1>2. PipelineTypeOK'
  BY <1>1 DEF PipelineInv, PipelineTypeOK, TypeOK, vars, progVars
<1>3. ASSUME Lasting PROVE WorkersFit'
  <2>1. \A v \in Workers : Fits(pc[v], run(v), txn[v])'
    BY <1>1, <1>3, StandsStill DEF PipelineInv, vars, progVars
  <2> QED BY <2>1 DEF WorkersFit
<1> QED BY <1>1, <1>2, <1>3, TheyMove

\* Every step keeps the invariant.
LEMMA PipelineInvStep ==
  ASSUME PipelineInv, [PipelineNext]_allVars PROVE PipelineInv'
<1>1. CASE UNCHANGED allVars
  BY <1>1, PipelineStutter
<1>2. ASSUME NEW w \in Workers, Request(w) PROVE PipelineInv'
  BY <1>2, StartStep
<1>3. ASSUME NEW w \in Workers, Step(w) PROVE PipelineInv'
  BY <1>3, ProgramStep
<1>4. ASSUME NEW w \in Workers, Die(w) PROVE PipelineInv'
  BY <1>4, DieStep
<1>5. CASE Tick /\ UNCHANGED progVars
  BY <1>5, OutsideStep
<1>6. ASSUME NEW w \in Workers, reap_stale_run(w) /\ UNCHANGED progVars
      PROVE  PipelineInv'
  BY <1>6, OutsideStep
<1> QED BY <1>1, <1>2, <1>3, <1>4, <1>5, <1>6 DEF PipelineNext

\* With nothing served and empty tables, the invariant holds.
LEMMA PipelineInvInit == PipelineInit => PipelineInv
<1> SUFFICES ASSUME PipelineInit PROVE PipelineInv
  OBVIOUS
<1>1. Inv
  BY InvInit DEF PipelineInit
<1>2. NoRow \in Row /\ Idle \in Txn /\ NoJob \in Job /\ NoRow.success = "unset"
  BY LeaseAssumption, AttemptsAssumption
  DEF NoRow, Row, Statuses, Phases, Idle, Txn, NoJob, Job
<1>3. PipelineTypeOK
  BY <1>2 DEF PipelineInit, Init, PipelineTypeOK, TypeOK, Labels, Ends
<1>4. WorkersFit
  BY DEF PipelineInit, Init, WorkersFit, Fits, Begun
<1>5. SuccessMeansImported
  BY <1>2 DEF PipelineInit, Init, SuccessMeansImported
<1> QED BY <1>1, <1>3, <1>4, <1>5 DEF PipelineInv

\* The programs, the coordinator's tables and its transactions fit together in
\* every reachable state.
THEOREM PipelineInvariance == PipelineSpec => []PipelineInv
BY PipelineInvInit, PipelineInvStep, PTL DEF PipelineSpec

\* The types, of the programs' variables and the coordinator's.
THEOREM PipelineTypes == PipelineSpec => []PipelineTypeOK
BY PipelineInvariance, PTL DEF PipelineInv

\* Whoever is importing, however late its checks have become, imports a run
\* whose scrapers have all finished.
THEOREM ImportsFollowScrapes == PipelineSpec => []ImportsOnlyScrapedRuns
<1>1. PipelineInv => ImportsOnlyScrapedRuns
  BY DEF PipelineInv, WorkersFit, Fits, ImportsOnlyScrapedRuns
<1> QED BY <1>1, PipelineInvariance, PTL

\* A pipeline that returned or raised has left no live run behind, unless the
\* database failed where nothing handles it.
THEOREM EndFreesTheScope == PipelineSpec => []EndedPipelineFreesTheScope
<1>1. PipelineInv => EndedPipelineFreesTheScope
  BY DEF PipelineInv, WorkersFit, Fits, EndedPipelineFreesTheScope
<1> QED BY <1>1, PipelineInvariance, PTL

\* A recorded success has been imported, after its scrapes.
THEOREM SuccessIsImported == PipelineSpec => []SuccessMeansImported
BY PipelineInvariance, PTL DEF PipelineInv
=============================================================================
