------------------------ MODULE RunCoordinator_proofs -------------------------
(***************************************************************************)
(* Theorems about RunCoordinator, for any run_ids, workers, steps, lease   *)
(* and number of attempts: types, one owner at a time, leases, the         *)
(* import's gate; and that the coordinator implements ExclusiveRun.        *)
(***************************************************************************)
EXTENDS RunCoordinator, TLAPS

(***************************************************************************)
(*                                  Types                                  *)
(***************************************************************************)

\* What the coordinator does to a row gives a row.
LEMMA RowTypes ==
  ASSUME NEW row \in Row
  PROVE  /\ NoRow \in Row /\ NewRow \in Row
         /\ Reclaim(row) \in Row /\ Renewed(row) \in Row
<1>1. LeaseTTL \in 0 .. LeaseTTL /\ 0 \in 0 .. LeaseTTL
  BY LeaseAssumption
<1> QED BY <1>1 DEF Row, NoRow, NewRow, Reclaim, Renewed, Statuses, Phases

\* What the statements of _begin_or_resume make of a transaction record is one;
\* an attempt is counted up only while there are attempts left.
LEMMA TxnTypes ==
  ASSUME NEW t \in Txn, NEW q \in RunIds \cup {NoRun}, NEW h \in RunIds \cup {NoRun}
  PROVE  /\ Idle \in Txn /\ Scanned(t, q, h) \in Txn
         /\ [t EXCEPT !.pc = "wait", !.run = q, !.awaits = h] \in Txn
         /\ [t EXCEPT !.pc = "insert"] \in Txn
         /\ t.attempt + 1 # MaxAttempts =>
              Retried(t) \in Txn
<1>1. 0 \in 0 .. MaxAttempts - 1
  BY AttemptsAssumption
<1>2. t.attempt + 1 # MaxAttempts => t.attempt + 1 \in 0 .. MaxAttempts - 1
  BY AttemptsAssumption DEF Txn
<1> QED BY <1>1, <1>2 DEF Txn, Idle, Scanned, Retried

\* Every step keeps the types.
LEMMA TypeStep ==
  ASSUME TypeOK, [Next]_vars PROVE TypeOK'
<1> USE DEF TypeOK
<1>1. CASE UNCHANGED vars
  BY <1>1 DEF vars
<1>2. ASSUME NEW w \in Workers, Begin(w) PROVE TypeOK'
  <2>1. ASSUME NEW q \in RunIds \cup {NoRun}, BeginConflict(w, q) PROVE TypeOK'
    BY <2>1, TxnTypes DEF BeginConflict, Return
  <2>2. ASSUME NEW q \in RunIds \cup {NoRun}, BeginResume(w, q) PROVE TypeOK'
    BY <2>2, TxnTypes, RowTypes DEF BeginResume, Return
  <2>3. ASSUME NEW q \in RunIds \cup {NoRun}, BeginScan(w, q) PROVE TypeOK'
    <3>1. PICK h \in RunIds \cup {NoRun} :
            txn' = [txn EXCEPT ![w] = Scanned(@, q, h)]
      BY <2>3 DEF BeginScan
    <3>2. Scanned(txn[w], q, h) \in Txn
      BY TxnTypes
    <3> QED BY <2>3, <3>1, <3>2 DEF BeginScan
  <2>4. ASSUME NEW q \in RunIds \cup {NoRun}, BeginWaits(w, q) PROVE TypeOK'
    <3>1. PICK r \in RunIds :
            txn' = [txn EXCEPT ![w] =
                     [@ EXCEPT !.pc = "wait", !.run = q, !.awaits = r]]
      BY <2>4 DEF BeginWaits
    <3>2. [txn[w] EXCEPT !.pc = "wait", !.run = q, !.awaits = r] \in Txn
      BY TxnTypes
    <3> QED BY <2>4, <3>1, <3>2 DEF BeginWaits
  <2>5. CASE BeginMissed(w)
    <3>1. txn[w].run \in RunIds \cup {NoRun}
      BY DEF Txn
    <3> QED BY <2>5, <3>1, TxnTypes DEF BeginMissed
  <2>6. CASE BeginReused(w)
    BY <2>6, TxnTypes DEF BeginReused, Return
  <2>7. CASE BeginUnused(w)
    BY <2>7, TxnTypes DEF BeginUnused
  <2>8. CASE BeginInsert(w)
    <3>1. runs' \in [RunIds -> Row]
      BY <2>8, RowTypes DEF BeginInsert
    <3> QED BY <2>8, <3>1, TxnTypes DEF BeginInsert, Return
  <2>9. CASE BeginCollides(w)
    <3>1. txn[w].attempt + 1 # MaxAttempts =>
            Retried(txn[w]) \in Txn
      BY TxnTypes
    <3>2. Idle \in Txn
      BY TxnTypes
    <3>3. CASE txn[w].attempt + 1 = MaxAttempts
      BY <2>9, <3>2, <3>3 DEF BeginCollides, Return
    <3>4. CASE txn[w].attempt + 1 # MaxAttempts
      BY <2>9, <3>1, <3>4 DEF BeginCollides
    <3> QED BY <3>3, <3>4
  <2> QED BY <1>2, <2>1, <2>2, <2>3, <2>4, <2>5, <2>6, <2>7, <2>8, <2>9 DEF Begin
<1>3. ASSUME NEW w \in Workers, Crash(w) PROVE TypeOK'
  BY <1>3, TxnTypes DEF Crash, Return
<1>4. ASSUME NEW w \in Workers, NEW r \in RunIds, MutateRun(w, r) PROVE TypeOK'
  <2>0. ASSUME NEW row \in Row, Mutate(w, r, row) PROVE runs' \in [RunIds -> Row] /\ UNCHANGED txn
    BY <2>0, RowTypes DEF Mutate
  <2> DEFINE row == runs[r]
  <2>1. row \in Row
    OBVIOUS
  <2>2. CASE RefuseRetired(w, r) \/ RefuseEarly(w, r, completed[r] = Steps)
             \/ RefuseEarly(w, r, ReadyForImport(r))
    BY <2>2 DEF RefuseRetired, RefuseEarly
  <2>3. CASE ReclaimOnCallback(w, r)
    BY <2>3, RowTypes DEF ReclaimOnCallback
  <2>4. CASE begin_tender_scrape(w, r)
    <3>1. [row EXCEPT !.phase = "tender_scrape"] \in Row
      BY <2>1 DEF Row, Phases
    <3> QED BY <2>4, <2>0, <3>1 DEF begin_tender_scrape
  <2>5. ASSUME NEW step \in Steps, mark_tender_scrape_step(w, r, step) PROVE TypeOK'
    <3>1. \A ends \in BOOLEAN :
            [row EXCEPT !.scraped = @ \/ ends,
                        !.phase = IF ends THEN "tender_scrape_complete" ELSE @] \in Row
      BY <2>1 DEF Row, Phases
    <3>2. completed' \in [RunIds -> SUBSET Steps]
      BY <2>5 DEF mark_tender_scrape_step
    <3> QED BY <2>5, <2>0, <3>1, <3>2 DEF mark_tender_scrape_step
  <2>6. CASE complete_tender_scrape(w, r)
    <3>1. [row EXCEPT !.scraped = TRUE, !.phase = "tender_scrape_complete"] \in Row
      BY <2>1 DEF Row, Phases
    <3> QED BY <2>6, <2>0, <3>1 DEF complete_tender_scrape
  <2>7. CASE begin_full_scrape(w, r)
    <3>1. [row EXCEPT !.phase = "full_scrape"] \in Row
      BY <2>1 DEF Row, Phases
    <3> QED BY <2>7, <2>0, <3>1 DEF begin_full_scrape
  <2>8. CASE complete_full_scrape(w, r)
    <3>1. [row EXCEPT !.phase = IF @ = "tender_scrape_complete" THEN @
                                ELSE "scrape_complete"] \in Row
      BY <2>1 DEF Row, Phases
    <3> QED BY <2>8, <2>0, <3>1 DEF complete_full_scrape
  <2>9. CASE begin_import(w, r)
    <3>1. [row EXCEPT !.phase = "import", !.importing = TRUE] \in Row
      BY <2>1 DEF Row, Phases
    <3> QED BY <2>9, <2>0, <3>1 DEF begin_import
  <2>10. CASE complete_import(w, r)
    <3>1. [row EXCEPT !.phase = "import_complete", !.imported = TRUE] \in Row
      BY <2>1 DEF Row, Phases
    <3> QED BY <2>10, <2>0, <3>1 DEF complete_import
  <2> QED BY <1>4, <2>2, <2>3, <2>4, <2>5, <2>6, <2>7, <2>8, <2>9, <2>10 DEF MutateRun
<1>5. ASSUME NEW w \in Workers, NEW r \in RunIds, NEW s \in {"true", "false"},
             finish_run(w, r, s)
      PROVE  TypeOK'
  <2>1. [runs[r] EXCEPT !.status = "finished", !.phase = "finished",
                        !.success = s] \in Row
    BY DEF Row, Phases, Statuses
  <2> QED BY <1>5, <2>1 DEF finish_run
<1>6. ASSUME NEW w \in Workers, reap_stale_run(w) PROVE TypeOK'
  BY <1>6, RowTypes DEF reap_stale_run
<1>7. CASE Tick
  <2>1. ASSUME NEW r \in RunIds
        PROVE  [runs[r] EXCEPT !.lease = IF @ > 0 THEN @ - 1 ELSE 0] \in Row
    BY LeaseAssumption DEF Row
  <2> QED BY <1>7, <2>1 DEF Tick
<1> QED BY <1>1, <1>2, <1>3, <1>4, <1>5, <1>6, <1>7 DEF Next

\* Every variable of the coordinator keeps its type.
THEOREM TypeCorrect == Spec => []TypeOK
<1>1. Init => TypeOK
  <2>1. NoRow \in Row /\ Idle \in Txn
    BY LeaseAssumption, AttemptsAssumption
    DEF NoRow, Row, Statuses, Phases, Idle, Txn
  <2> QED BY <2>1 DEF Init, TypeOK
<1> QED BY <1>1, TypeStep, PTL DEF Spec

(***************************************************************************)
(*                         The inductive invariant                         *)
(***************************************************************************)

\* A run_id that was never begun has nothing recorded in its row.
AbsentIsBlank == \A r \in RunIds : runs[r].status = "absent" => runs[r] = NoRow

\* OneActiveRun alone is not inductive: the insert of BeginInsert is safe only
\* because the row it reclaims is still active and is this transaction's.
Inv == OneActiveRun /\ ImportAfterScrape /\ ReclaimIsExclusive /\ AbsentIsBlank

\* A transaction on one row that nobody else holds: it may retire the run,
\* never revive it, and records an import only after the scrapes.
LEMMA UpdateStep ==
  ASSUME TypeOK, Inv,
         NEW r \in RunIds, NEW row \in Row, ~Locked(r),
         runs' = [runs EXCEPT ![r] = row], UNCHANGED txn,
         row.status # "absent", row.status = "active" => Active(r),
         row.importing => row.scraped /\ completed'[r] = Steps,
         \A s \in RunIds \ {r} : completed'[s] = completed[s]
  PROVE  Inv'
<1>1. /\ runs'[r] = row
      /\ \A s \in RunIds : s # r => runs'[s] = runs[s]
  BY DEF TypeOK
<1>2. OneActiveRun'
  BY <1>1 DEF Inv, OneActiveRun, Active
<1>3. ImportAfterScrape'
  BY <1>1 DEF Inv, ImportAfterScrape, ReadyForImport
<1>4. ReclaimIsExclusive'
  <2>1. \A w \in Workers : txn[w].held # r
    BY DEF Locked
  <2>2. \A w \in Workers : txn[w].held \in RunIds \cup {NoRun}
    BY DEF TypeOK, Txn
  <2> QED BY <1>1, <2>1, <2>2 DEF Inv, ReclaimIsExclusive, Stale, Active
<1>5. AbsentIsBlank'
  BY <1>1 DEF Inv, AbsentIsBlank
<1> QED BY <1>2, <1>3, <1>4, <1>5 DEF Inv

\* A statement of one _begin_or_resume that writes no row: it keeps the lock
\* it has, gives it up, or takes the free lock of a stale row.
LEMMA TxnStep ==
  ASSUME TypeOK, Inv, NEW w \in Workers, NEW t,
         txn' = [txn EXCEPT ![w] = t], UNCHANGED <<runs, completed>>,
         \/ t.held \in {NoRun, txn[w].held}
         \/ t.held \in RunIds /\ Stale(t.held) /\ ~Locked(t.held)
  PROVE  Inv'
<1>1. /\ txn'[w] = t
      /\ \A v \in Workers : v # w => txn'[v] = txn[v]
  BY DEF TypeOK
<1>2. ReclaimIsExclusive'
  BY <1>1 DEF Inv, ReclaimIsExclusive, Stale, Active, Locked
<1>3. (OneActiveRun /\ ImportAfterScrape /\ AbsentIsBlank)'
  BY DEF Inv, OneActiveRun, ImportAfterScrape, ReadyForImport, AbsentIsBlank, Active
<1> QED BY <1>2, <1>3 DEF Inv

\* The insert: the unique index has seen no active row but the one reclaimed.
LEMMA InsertStep ==
  ASSUME TypeOK, Inv, NEW w \in Workers, BeginInsert(w)
  PROVE  Inv'
<1>1. PICK r \in Chosen(w) :
        /\ ~UniqueViolation(w, r)
        /\ runs' = [s \in RunIds |->
                      IF s = r THEN NewRow
                      ELSE IF s = txn[w].held THEN Reclaim(runs[s])
                      ELSE runs[s]]
  BY DEF BeginInsert
<1> DEFINE h == txn[w].held
<1>3. /\ runs[r].status = "absent"
      /\ \A s \in RunIds : Active(s) => s = h
  BY <1>1 DEF UniqueViolation
<1>4. \A s \in RunIds :
        /\ s = r => runs'[s] = NewRow
        /\ s # r /\ s = h => runs'[s] = Reclaim(runs[s])
        /\ s # r /\ s # h => runs'[s] = runs[s]
  BY <1>1
<1>5. /\ txn'[w].held = NoRun
      /\ \A v \in Workers : v # w => txn'[v] = txn[v]
  BY DEF BeginInsert, Return, Idle, TypeOK
<1>6. UNCHANGED completed
  BY DEF BeginInsert
<1>7. \A s \in RunIds : runs[s] \in Row
  BY DEF TypeOK
<1>8. \A s \in RunIds : Reclaim(runs[s]).status = "finished"
                     /\ Reclaim(runs[s]).importing = runs[s].importing
                     /\ Reclaim(runs[s]).scraped = runs[s].scraped
  BY <1>7 DEF Row, Reclaim
<1>9. NewRow.status = "active" /\ ~NewRow.importing
  BY DEF NewRow, NoRow
<1>10. OneActiveRun'
  BY <1>3, <1>4, <1>8, <1>9 DEF OneActiveRun, Active
<1>11. ImportAfterScrape'
  BY <1>4, <1>6, <1>8, <1>9 DEF Inv, ImportAfterScrape, ReadyForImport
<1>12. ReclaimIsExclusive'
  <2>1. ASSUME NEW v \in Workers, v # w PROVE txn[v].held = NoRun
    <3>1. txn[v].held # NoRun => Active(txn[v].held) /\ txn[v].held # h
      BY <2>1 DEF Inv, ReclaimIsExclusive, Stale
    <3>2. txn[v].held \in RunIds \cup {NoRun}
      BY DEF TypeOK, Txn
    <3> QED BY <3>1, <3>2, <1>3
  <2> QED BY <1>5, <2>1 DEF ReclaimIsExclusive
<1>13. AbsentIsBlank'
  BY <1>4, <1>8, <1>9 DEF Inv, AbsentIsBlank
<1> QED BY <1>10, <1>11, <1>12, <1>13 DEF Inv

\* A mutating call that goes through, for any build_values that keeps the
\* status and records an import only of a scraped run.
LEMMA MutateStep ==
  ASSUME TypeOK, TypeOK', Inv, NEW w \in Workers, NEW r \in RunIds, NEW row,
         Mutate(w, r, row), row \in Row, row.status = runs[r].status,
         row.importing => row.scraped /\ completed'[r] = Steps,
         \A s \in RunIds \ {r} : completed'[s] = completed[s]
  PROVE  Inv'
<1>1. /\ ~Locked(r) /\ Active(r) /\ UNCHANGED txn
      /\ runs' = [runs EXCEPT ![r] = Renewed(row)]
  BY DEF Mutate, Locks, Live
<1>2. /\ Renewed(row) \in Row
      /\ Renewed(row).status = row.status /\ Renewed(row).scraped = row.scraped
      /\ Renewed(row).importing = row.importing
  BY RowTypes DEF Renewed, Row
<1> QED BY <1>1, <1>2, UpdateStep DEF Active

\* Retiring a run, with whatever verdict, keeps the invariant.
LEMMA RetireStep ==
  ASSUME TypeOK, Inv, NEW r \in RunIds, NEW row \in Row, ~Locked(r),
         runs' = [runs EXCEPT ![r] = row], UNCHANGED <<completed, txn>>,
         row.status = "finished",
         row.importing = runs[r].importing, row.scraped = runs[r].scraped
  PROVE  Inv'
<1>1. row.importing => row.scraped /\ completed'[r] = Steps
  BY DEF Inv, ImportAfterScrape, ReadyForImport
<1> QED BY <1>1, UpdateStep

\* Every step keeps the invariant.
LEMMA InvStep ==
  ASSUME TypeOK, TypeOK', Inv, [Next]_vars PROVE Inv'
<1>0. \A r \in RunIds : runs[r] \in Row /\ Reclaim(runs[r]) \in Row
  BY RowTypes DEF TypeOK
<1>00. \A r \in RunIds : /\ Reclaim(runs[r]).status = "finished"
                        /\ Reclaim(runs[r]).importing = runs[r].importing
                        /\ Reclaim(runs[r]).scraped = runs[r].scraped
  BY <1>0 DEF Row, Reclaim
<1>1. CASE UNCHANGED vars
  BY <1>1 DEF vars, Inv, OneActiveRun, ImportAfterScrape, ReclaimIsExclusive,
              AbsentIsBlank, Active, Stale, ReadyForImport
<1>2. ASSUME NEW w \in Workers, Begin(w) PROVE Inv'
  <2>0. Idle.held = NoRun
    BY DEF Idle
  <2>1. ASSUME NEW q \in RunIds \cup {NoRun}, BeginConflict(w, q) PROVE Inv'
    BY <2>0, <2>1, TxnStep DEF BeginConflict, Return
  <2>2. ASSUME NEW q \in RunIds \cup {NoRun}, BeginResume(w, q) PROVE Inv'
    <3>1. PICK r \in RunIds : /\ Live(r) /\ ~Locked(r)
                             /\ runs' = [runs EXCEPT ![r] = Renewed(@)]
      BY <2>2 DEF BeginResume
    <3>2. /\ Renewed(runs[r]).status = runs[r].status
          /\ Renewed(runs[r]).scraped = runs[r].scraped
          /\ Renewed(runs[r]).importing = runs[r].importing
      BY <1>0 DEF Renewed, Row
    <3>3. txn' = [txn EXCEPT ![w] = Idle] /\ UNCHANGED completed
      BY <2>2 DEF BeginResume, Return
    <3>4. /\ runs'[r] = Renewed(runs[r])
          /\ \A s \in RunIds : s # r => runs'[s] = runs[s]
      BY <3>1 DEF TypeOK
    <3>5. (OneActiveRun /\ ImportAfterScrape)'
      BY <3>1, <3>2, <3>3, <3>4
      DEF Inv, OneActiveRun, ImportAfterScrape, ReadyForImport, Active, Live
    <3>6. ReclaimIsExclusive'
      <4>1. \A v \in Workers : txn[v].held # r /\ txn[v].held \in RunIds \cup {NoRun}
        BY <3>1 DEF Locked, TypeOK, Txn
      <4>2. /\ txn'[w].held = NoRun
            /\ \A v \in Workers : v # w => txn'[v] = txn[v]
        BY <3>3, <2>0 DEF TypeOK
      <4> QED BY <3>4, <4>1, <4>2 DEF Inv, ReclaimIsExclusive, Stale, Active
    <3>7. AbsentIsBlank'
      BY <3>1, <3>2, <3>4 DEF Inv, AbsentIsBlank, Live, Active
    <3> QED BY <3>5, <3>6, <3>7 DEF Inv
  <2>3. ASSUME NEW q \in RunIds \cup {NoRun}, BeginScan(w, q) PROVE Inv'
    <3>1. PICK h \in RunIds \cup {NoRun} :
            /\ IF h = NoRun THEN \A r \in RunIds : ~Active(r)
                            ELSE Stale(h) /\ ~Locked(h)
            /\ txn' = [txn EXCEPT ![w] = Scanned(@, q, h)]
      BY <2>3 DEF BeginScan
    <3>2. Scanned(txn[w], q, h).held = h
      BY DEF Scanned, TypeOK, Txn
    <3> QED BY <2>3, <3>1, <3>2, TxnStep DEF BeginScan
  <2>4. ASSUME NEW q \in RunIds \cup {NoRun}, BeginWaits(w, q) PROVE Inv'
    <3>1. PICK r \in RunIds :
            txn' = [txn EXCEPT ![w] =
                     [@ EXCEPT !.pc = "wait", !.run = q, !.awaits = r]]
      BY <2>4 DEF BeginWaits
    <3>2. [txn[w] EXCEPT !.pc = "wait", !.run = q, !.awaits = r].held = txn[w].held
      BY DEF TypeOK, Txn
    <3> QED BY <2>4, <3>1, <3>2, TxnStep DEF BeginWaits
  <2>5. CASE BeginMissed(w)
    <3>1. Scanned(txn[w], txn[w].run, NoRun).held = NoRun
      BY DEF Scanned, TypeOK, Txn
    <3> QED BY <2>5, <3>1, TxnStep DEF BeginMissed
  <2>6. CASE BeginReused(w)
    BY <2>0, <2>6, TxnStep DEF BeginReused, Return
  <2>7. CASE BeginUnused(w)
    <3>1. [txn[w] EXCEPT !.pc = "insert"].held = txn[w].held
      BY DEF TypeOK, Txn
    <3>2. txn' = [txn EXCEPT ![w] = [txn[w] EXCEPT !.pc = "insert"]]
      BY <2>7 DEF BeginUnused
    <3> QED BY <2>7, <3>1, <3>2, TxnStep DEF BeginUnused
  <2>8. CASE BeginInsert(w)
    BY <2>8, InsertStep
  <2>9. CASE BeginCollides(w)
    <3>1. Retried(txn[w]).held = NoRun
      BY DEF Retried, TypeOK, Txn
    <3>2. \E t \in {Idle, Retried(txn[w])} : txn' = [txn EXCEPT ![w] = t]
      BY <2>9 DEF BeginCollides, Return
    <3> QED BY <2>0, <2>9, <3>1, <3>2, TxnStep DEF BeginCollides
  <2> QED BY <1>2, <2>1, <2>2, <2>3, <2>4, <2>5, <2>6, <2>7, <2>8, <2>9 DEF Begin
<1>3. ASSUME NEW w \in Workers, Crash(w) PROVE Inv'
  <2>0. Idle.held = NoRun
    BY DEF Idle
  <2> QED BY <1>3, <2>0, TxnStep DEF Crash, Return
<1>4. ASSUME NEW w \in Workers, NEW r \in RunIds, MutateRun(w, r) PROVE Inv'
  <2> DEFINE row == runs[r]
  <2>0. /\ row \in Row
        /\ row.importing => row.scraped /\ completed[r] = Steps
    BY <1>0 DEF Inv, ImportAfterScrape, ReadyForImport
  <2>2. CASE RefuseRetired(w, r) \/ RefuseEarly(w, r, completed[r] = Steps)
             \/ RefuseEarly(w, r, ReadyForImport(r))
    BY <2>2, <1>1 DEF RefuseRetired, RefuseEarly, vars
  <2>3. CASE ReclaimOnCallback(w, r)
    BY <2>3, <1>0, <1>00, RetireStep DEF ReclaimOnCallback, Locks
  <2>4. CASE begin_tender_scrape(w, r)
    <3> DEFINE new == [row EXCEPT !.phase = "tender_scrape"]
    <3>1. /\ new \in Row /\ new.status = row.status
          /\ new.importing = row.importing /\ new.scraped = row.scraped
      BY <2>0 DEF Row, Phases
    <3>2. Mutate(w, r, new) /\ UNCHANGED completed
      BY <2>4 DEF begin_tender_scrape
    <3> QED BY <2>0, <3>1, <3>2, MutateStep
  <2>5. ASSUME NEW step \in Steps, mark_tender_scrape_step(w, r, step) PROVE Inv'
    <3> DEFINE ends == completed[r] \cup {step} = Steps /\ ~row.scraped
               new == [row EXCEPT
                         !.scraped = @ \/ ends,
                         !.phase = IF ends THEN "tender_scrape_complete" ELSE @]
    <3>1. /\ new \in Row /\ new.status = row.status
          /\ new.importing = row.importing /\ (row.scraped => new.scraped)
      BY <2>0 DEF Row, Phases
    <3>2. /\ Mutate(w, r, new)
          /\ completed' = [completed EXCEPT ![r] = completed[r] \cup {step}]
      BY <2>5 DEF mark_tender_scrape_step
    <3>3. /\ completed'[r] = completed[r] \cup {step}
          /\ \A s \in RunIds \ {r} : completed'[s] = completed[s]
      BY <3>2 DEF TypeOK
    <3>4. new.importing => new.scraped /\ completed'[r] = Steps
      BY <2>0, <3>1, <3>3
    <3> QED BY <3>1, <3>2, <3>3, <3>4, MutateStep
  <2>6. CASE complete_tender_scrape(w, r)
    <3> DEFINE new == [row EXCEPT !.scraped = TRUE, !.phase = "tender_scrape_complete"]
    <3>1. /\ new \in Row /\ new.status = row.status
          /\ new.importing = row.importing /\ new.scraped
      BY <2>0 DEF Row, Phases
    <3>2. Mutate(w, r, new) /\ UNCHANGED completed
      BY <2>6 DEF complete_tender_scrape
    <3> QED BY <2>0, <3>1, <3>2, MutateStep
  <2>7. CASE begin_full_scrape(w, r)
    <3> DEFINE new == [row EXCEPT !.phase = "full_scrape"]
    <3>1. /\ new \in Row /\ new.status = row.status
          /\ new.importing = row.importing /\ new.scraped = row.scraped
      BY <2>0 DEF Row, Phases
    <3>2. Mutate(w, r, new) /\ UNCHANGED completed
      BY <2>7 DEF begin_full_scrape
    <3> QED BY <2>0, <3>1, <3>2, MutateStep
  <2>8. CASE complete_full_scrape(w, r)
    <3> DEFINE new == [row EXCEPT !.phase = IF @ = "tender_scrape_complete" THEN @
                                            ELSE "scrape_complete"]
    <3>1. /\ new \in Row /\ new.status = row.status
          /\ new.importing = row.importing /\ new.scraped = row.scraped
      BY <2>0 DEF Row, Phases
    <3>2. Mutate(w, r, new) /\ UNCHANGED completed
      BY <2>8 DEF complete_full_scrape
    <3> QED BY <2>0, <3>1, <3>2, MutateStep
  <2>9. CASE begin_import(w, r)
    <3> DEFINE new == [row EXCEPT !.phase = "import", !.importing = TRUE]
    <3>1. new \in Row /\ new.status = row.status /\ new.scraped = row.scraped
      BY <2>0 DEF Row, Phases
    <3>2. Mutate(w, r, new) /\ UNCHANGED completed /\ ReadyForImport(r)
      BY <2>9 DEF begin_import
    <3> QED BY <3>1, <3>2, MutateStep DEF ReadyForImport
  <2>10. CASE complete_import(w, r)
    <3> DEFINE new == [row EXCEPT !.phase = "import_complete", !.imported = TRUE]
    <3>1. /\ new \in Row /\ new.status = row.status
          /\ new.importing = row.importing /\ new.scraped = row.scraped
      BY <2>0 DEF Row, Phases
    <3>2. Mutate(w, r, new) /\ UNCHANGED completed
      BY <2>10 DEF complete_import
    <3> QED BY <2>0, <3>1, <3>2, MutateStep
  <2> QED BY <1>4, <2>2, <2>3, <2>4, <2>5, <2>6, <2>7, <2>8, <2>9, <2>10 DEF MutateRun
<1>5. ASSUME NEW w \in Workers, NEW r \in RunIds, NEW s \in {"true", "false"},
             finish_run(w, r, s)
      PROVE  Inv'
  <2> DEFINE new == [runs[r] EXCEPT !.status = "finished", !.phase = "finished",
                                    !.success = s]
  <2>1. /\ new \in Row /\ new.status = "finished"
        /\ new.importing = runs[r].importing /\ new.scraped = runs[r].scraped
    BY <1>0 DEF Row, Phases, Statuses
  <2> QED BY <1>5, <2>1, RetireStep DEF finish_run, Locks
<1>6. ASSUME NEW w \in Workers, reap_stale_run(w) PROVE Inv'
  BY <1>6, <1>0, <1>00, RetireStep DEF reap_stale_run
<1>7. CASE Tick
  <2>1. \A r \in RunIds :
          runs'[r] = [runs[r] EXCEPT !.lease = IF @ > 0 THEN @ - 1 ELSE 0]
    BY <1>7 DEF Tick
  <2>2. \A r \in RunIds : /\ runs'[r].status = runs[r].status
                         /\ runs'[r].importing = runs[r].importing
                         /\ runs'[r].scraped = runs[r].scraped
    BY <2>1, <1>0 DEF Row
  <2>3. \A r \in RunIds : runs[r].lease = 0 => runs'[r].lease = 0
    BY <2>1, <1>0 DEF Row
  <2>4. OneActiveRun'
    BY <2>2 DEF Inv, OneActiveRun, Active
  <2>7. ImportAfterScrape'
    BY <1>7, <2>2 DEF Inv, ImportAfterScrape, ReadyForImport, Tick
  <2>5. ReclaimIsExclusive'
    <3>1. \A v \in Workers : txn[v].held \in RunIds \cup {NoRun}
      BY DEF TypeOK, Txn
    <3> QED BY <1>7, <2>2, <2>3, <3>1 DEF Inv, ReclaimIsExclusive, Stale, Active, Tick
  <2>6. AbsentIsBlank'
    <3>1. NoRow.lease = 0 /\ [NoRow EXCEPT !.lease = 0] = NoRow
      BY DEF NoRow
    <3> QED BY <2>1, <2>2, <3>1 DEF Inv, AbsentIsBlank
  <2> QED BY <2>4, <2>5, <2>6, <2>7 DEF Inv
<1> QED BY <1>1, <1>2, <1>3, <1>4, <1>5, <1>6, <1>7 DEF Next

\* With empty tables and no transaction open, the invariant holds.
LEMMA InvInit == Init => Inv
<1>1. NoRow.status = "absent" /\ ~NoRow.importing /\ Idle.held = NoRun
  BY DEF NoRow, Idle
<1> QED BY <1>1 DEF Init, Inv, OneActiveRun, ImportAfterScrape, ReclaimIsExclusive,
                    AbsentIsBlank, Active

\* The inductive invariant holds of every reachable state.
THEOREM Invariance == Spec => [](TypeOK /\ Inv)
<1>1. Init => TypeOK
  <2>1. NoRow \in Row /\ Idle \in Txn
    BY LeaseAssumption, AttemptsAssumption
    DEF NoRow, Row, Statuses, Phases, Idle, Txn
  <2> QED BY <2>1 DEF Init, TypeOK
<1> QED BY <1>1, InvInit, TypeStep, InvStep, PTL DEF Spec

\* At most one run of the scope is active, however many calls race.
THEOREM OneActive == Spec => []OneActiveRun
BY Invariance, PTL DEF Inv

\* No import begins before every tender scraper is marked done.
THEOREM ImportGate == Spec => []ImportAfterScrape
BY Invariance, PTL DEF Inv

\* A run being reclaimed by a begin_run cannot be touched by anyone else.
THEOREM ReclaimExclusive == Spec => []ReclaimIsExclusive
BY Invariance, PTL DEF Inv

(***************************************************************************)
(*                      What one step does to one run                      *)
(***************************************************************************)
Renews(r) ==       \* a mutating call or a resume: only a live run's
  /\ Live(r)
  /\ runs'[r].status = "active" /\ runs'[r].lease = LeaseTTL
  /\ runs'[r].reclaimed = runs[r].reclaimed

Retires(r) ==      \* finish_run, on any run that was begun
  /\ runs[r].status # "absent" /\ completed'[r] = completed[r]
  /\ \E s \in {"true", "false"} :
       runs'[r] = [runs[r] EXCEPT !.status = "finished", !.phase = "finished",
                                  !.success = s]

Reclaims(r) == Stale(r) /\ runs'[r] = Reclaim(runs[r]) /\ completed'[r] = completed[r]

Starts(r) ==
  runs[r].status = "absent" /\ runs'[r] = NewRow /\ completed'[r] = completed[r]

Ages(r) ==
  /\ runs'[r] = [runs[r] EXCEPT !.lease = IF @ > 0 THEN @ - 1 ELSE 0]
  /\ completed'[r] = completed[r]

Keeps(r) == runs'[r] = runs[r] /\ completed'[r] = completed[r]

Effect(r) == Renews(r) \/ Retires(r) \/ Reclaims(r) \/ Starts(r) \/ Ages(r) \/ Keeps(r)

\* A mutating call that goes through renews its run and leaves the others.
LEMMA MutateEffect ==
  ASSUME TypeOK, NEW w \in Workers, NEW r \in RunIds, NEW row \in Row,
         Mutate(w, r, row), row.status = runs[r].status,
         row.reclaimed = runs[r].reclaimed,
         \A s \in RunIds \ {r} : completed'[s] = completed[s]
  PROVE  \A s \in RunIds : Effect(s)
<1>1. runs'[r] = Renewed(row) /\ \A s \in RunIds : s # r => runs'[s] = runs[s]
  BY DEF Mutate, TypeOK
<1>2. Renewed(row).status = "active" /\ Renewed(row).lease = LeaseTTL
      /\ Renewed(row).reclaimed = runs[r].reclaimed
  BY DEF Mutate, Live, Active, Renewed, Row
<1>3. Renews(r)
  BY <1>1, <1>2 DEF Renews, Mutate
<1> QED BY <1>1, <1>3 DEF Effect, Keeps

\* The effects above are the only ones a step has on a run.
LEMMA StepEffect ==
  ASSUME TypeOK, Inv, Next PROVE \A r \in RunIds : Effect(r)
<1>0. \A r \in RunIds : runs[r] \in Row
  BY DEF TypeOK
<1>1. ASSUME UNCHANGED <<runs, completed>> PROVE \A r \in RunIds : Effect(r)
  BY <1>1 DEF Effect, Keeps
<1>2. ASSUME NEW w \in Workers, Begin(w) PROVE \A r \in RunIds : Effect(r)
  <2>1. ASSUME NEW q \in RunIds \cup {NoRun}, BeginResume(w, q)
        PROVE  \A r \in RunIds : Effect(r)
    <3>1. PICK r \in RunIds : Live(r) /\ runs' = [runs EXCEPT ![r] = Renewed(@)]
      BY <2>1 DEF BeginResume
    <3>2. runs'[r] = Renewed(runs[r]) /\ \A s \in RunIds : s # r => runs'[s] = runs[s]
      BY <3>1 DEF TypeOK
    <3>3. Renews(r)
      BY <1>0, <3>1, <3>2 DEF Renews, Live, Active, Renewed, Row
    <3>4. UNCHANGED completed
      BY <2>1 DEF BeginResume
    <3> QED BY <3>2, <3>3, <3>4 DEF Effect, Keeps
  <2>2. CASE BeginInsert(w)
    <3>1. PICK n \in Chosen(w) :
            /\ ~UniqueViolation(w, n)
            /\ runs' = [s \in RunIds |->
                          IF s = n THEN NewRow
                          ELSE IF s = txn[w].held THEN Reclaim(runs[s])
                          ELSE runs[s]]
      BY <2>2 DEF BeginInsert
    <3>2. runs[n].status = "absent" /\ UNCHANGED completed
      BY <2>2, <3>1 DEF UniqueViolation, BeginInsert
    <3>3. \A s \in RunIds : s = txn[w].held => Stale(s)
      BY NoRunAssumption DEF Inv, ReclaimIsExclusive
    <3> QED BY <3>1, <3>2, <3>3 DEF Effect, Starts, Reclaims, Keeps
  <2>3. CASE \E q \in RunIds \cup {NoRun} :
               BeginConflict(w, q) \/ BeginScan(w, q) \/ BeginWaits(w, q)
    BY <1>1, <2>3 DEF BeginConflict, BeginScan, BeginWaits
  <2>4. CASE BeginMissed(w) \/ BeginReused(w) \/ BeginUnused(w) \/ BeginCollides(w)
    BY <1>1, <2>4 DEF BeginMissed, BeginReused, BeginUnused, BeginCollides
  <2> QED BY <1>2, <2>1, <2>2, <2>3, <2>4 DEF Begin
<1>3. ASSUME NEW w \in Workers, Crash(w) PROVE \A r \in RunIds : Effect(r)
  BY <1>1, <1>3 DEF Crash
<1>4. ASSUME NEW w \in Workers, NEW r \in RunIds, MutateRun(w, r)
      PROVE  \A s \in RunIds : Effect(s)
  <2> DEFINE row == runs[r]
  <2>1. row \in Row
    BY <1>0
  <2>2. CASE RefuseRetired(w, r) \/ RefuseEarly(w, r, completed[r] = Steps)
             \/ RefuseEarly(w, r, ReadyForImport(r))
    BY <1>1, <2>2 DEF RefuseRetired, RefuseEarly
  <2>3. CASE ReclaimOnCallback(w, r)
    BY <2>3 DEF ReclaimOnCallback, Effect, Reclaims, Keeps, TypeOK
  <2>4. CASE begin_tender_scrape(w, r)
    <3> DEFINE new == [row EXCEPT !.phase = "tender_scrape"]
    <3>1. new \in Row /\ new.status = row.status /\ new.reclaimed = row.reclaimed
      BY <2>1 DEF Row, Phases
    <3> QED BY <2>4, <3>1, MutateEffect DEF begin_tender_scrape
  <2>5. ASSUME NEW step \in Steps, mark_tender_scrape_step(w, r, step)
        PROVE  \A s \in RunIds : Effect(s)
    <3> DEFINE ends == completed[r] \cup {step} = Steps /\ ~row.scraped
               new == [row EXCEPT
                         !.scraped = @ \/ ends,
                         !.phase = IF ends THEN "tender_scrape_complete" ELSE @]
    <3>1. new \in Row /\ new.status = row.status /\ new.reclaimed = row.reclaimed
      BY <2>1 DEF Row, Phases
    <3>2. /\ Mutate(w, r, new)
          /\ \A s \in RunIds \ {r} : completed'[s] = completed[s]
      BY <2>5 DEF mark_tender_scrape_step, TypeOK
    <3> QED BY <3>1, <3>2, MutateEffect
  <2>6. CASE complete_tender_scrape(w, r)
    <3> DEFINE new == [row EXCEPT !.scraped = TRUE, !.phase = "tender_scrape_complete"]
    <3>1. new \in Row /\ new.status = row.status /\ new.reclaimed = row.reclaimed
      BY <2>1 DEF Row, Phases
    <3> QED BY <2>6, <3>1, MutateEffect DEF complete_tender_scrape
  <2>7. CASE begin_full_scrape(w, r)
    <3> DEFINE new == [row EXCEPT !.phase = "full_scrape"]
    <3>1. new \in Row /\ new.status = row.status /\ new.reclaimed = row.reclaimed
      BY <2>1 DEF Row, Phases
    <3> QED BY <2>7, <3>1, MutateEffect DEF begin_full_scrape
  <2>8. CASE complete_full_scrape(w, r)
    <3> DEFINE new == [row EXCEPT !.phase = IF @ = "tender_scrape_complete" THEN @
                                            ELSE "scrape_complete"]
    <3>1. new \in Row /\ new.status = row.status /\ new.reclaimed = row.reclaimed
      BY <2>1 DEF Row, Phases
    <3> QED BY <2>8, <3>1, MutateEffect DEF complete_full_scrape
  <2>9. CASE begin_import(w, r)
    <3> DEFINE new == [row EXCEPT !.phase = "import", !.importing = TRUE]
    <3>1. new \in Row /\ new.status = row.status /\ new.reclaimed = row.reclaimed
      BY <2>1 DEF Row, Phases
    <3> QED BY <2>9, <3>1, MutateEffect DEF begin_import
  <2>10. CASE complete_import(w, r)
    <3> DEFINE new == [row EXCEPT !.phase = "import_complete", !.imported = TRUE]
    <3>1. new \in Row /\ new.status = row.status /\ new.reclaimed = row.reclaimed
      BY <2>1 DEF Row, Phases
    <3> QED BY <2>10, <3>1, MutateEffect DEF complete_import
  <2> QED BY <1>4, <2>2, <2>3, <2>4, <2>5, <2>6, <2>7, <2>8, <2>9, <2>10 DEF MutateRun
<1>5. ASSUME NEW w \in Workers, NEW r \in RunIds, NEW s \in {"true", "false"},
             finish_run(w, r, s)
      PROVE  \A u \in RunIds : Effect(u)
  BY <1>5 DEF finish_run, Effect, Retires, Keeps, TypeOK
<1>6. ASSUME NEW w \in Workers, reap_stale_run(w) PROVE \A r \in RunIds : Effect(r)
  BY <1>6 DEF reap_stale_run, Effect, Reclaims, Keeps, TypeOK
<1>7. CASE Tick
  BY <1>7 DEF Tick, Effect, Ages
<1> QED BY <1>2, <1>3, <1>4, <1>5, <1>6, <1>7 DEF Next

\* A live run is never reclaimed as stale.
THEOREM LiveIsSafe == Spec => LiveRunNeverReclaimed
<1>1. ASSUME TypeOK, Inv, [Next]_vars, NEW r \in RunIds, Live(r)
      PROVE  runs'[r].reclaimed = runs[r].reclaimed
  <2>1. CASE UNCHANGED vars
    BY <2>1 DEF vars
  <2>2. CASE Next
    <3>1. Effect(r)
      BY <1>1, <2>2, StepEffect
    <3>2. runs[r] \in Row
      BY <1>1 DEF TypeOK
    <3>3. ~Reclaims(r) /\ ~Starts(r)
      BY <1>1, <3>2 DEF Reclaims, Stale, Starts, Live, Active, Row
    <3>4. CASE Renews(r) \/ Keeps(r)
      BY <3>4 DEF Renews, Keeps
    <3>5. CASE Retires(r)
      BY <3>2, <3>5 DEF Retires, Row
    <3>6. CASE Ages(r)
      BY <3>2, <3>6 DEF Ages, Row
    <3> QED BY <3>1, <3>3, <3>4, <3>5, <3>6 DEF Effect
  <2> QED BY <1>1, <2>1, <2>2
<1>2. TypeOK /\ Inv /\ [Next]_vars
        => [\A r \in RunIds : Live(r) => runs'[r].reclaimed = runs[r].reclaimed]_vars
  BY <1>1
<1> QED BY <1>2, Invariance, PTL DEF Spec, LiveRunNeverReclaimed

\* An expired lease is never renewed.
THEOREM ExpiredIsExpired == Spec => ExpiredLeaseStaysExpired
<1>1. ASSUME TypeOK, Inv, [Next]_vars, NEW r \in RunIds, Stale(r)
      PROVE  runs'[r].lease = 0
  <2>1. CASE UNCHANGED vars
    BY <1>1, <2>1 DEF vars, Stale
  <2>2. CASE Next
    <3>1. Effect(r)
      BY <1>1, <2>2, StepEffect
    <3>2. runs[r] \in Row
      BY <1>1 DEF TypeOK
    <3>3. runs[r].lease = 0 /\ Active(r) /\ ~Renews(r) /\ ~Starts(r)
      BY <1>1 DEF Stale, Active, Renews, Live, Starts
    <3>4. CASE Retires(r) \/ Keeps(r)
      BY <3>2, <3>3, <3>4 DEF Retires, Keeps, Row
    <3>5. CASE Reclaims(r)
      BY <3>2, <3>3, <3>5 DEF Reclaims, Reclaim, Row
    <3>6. CASE Ages(r)
      BY <3>2, <3>3, <3>6 DEF Ages, Row
    <3> QED BY <3>1, <3>3, <3>4, <3>5, <3>6 DEF Effect
  <2> QED BY <1>1, <2>1, <2>2
<1>2. TypeOK /\ Inv /\ [Next]_vars
        => [\A r \in RunIds : Stale(r) => runs'[r].lease = 0]_vars
  BY <1>1
<1> QED BY <1>2, Invariance, PTL DEF Spec, ExpiredLeaseStaysExpired

\* No late call changes the progress of a finished or reclaimed run.
THEOREM RetiredIsFrozen == Spec => RetiredRunKeepsProgress
<1> DEFINE Frozen(r) ==
      runs[r].status = "finished" =>
       /\ completed'[r] = completed[r]
       /\ \A f \in {"status", "scraped", "importing", "imported", "reclaimed"} :
            runs'[r][f] = runs[r][f]
<1>1. ASSUME TypeOK, Inv, [Next]_vars, NEW r \in RunIds
      PROVE  Frozen(r)
  <2>1. CASE UNCHANGED vars
    BY <2>1 DEF vars
  <2>2. CASE Next
    <3>1. Effect(r)
      BY <1>1, <2>2, StepEffect
    <3>2. runs[r] \in Row
      BY <1>1 DEF TypeOK
    <3>3. CASE runs[r].status = "finished"
      <4>1. ~Renews(r) /\ ~Starts(r) /\ ~Reclaims(r)
        BY <3>3 DEF Renews, Live, Active, Starts, Reclaims, Stale
      <4>2. CASE Retires(r)
        BY <3>2, <3>3, <4>2 DEF Retires, Row
      <4>3. CASE Ages(r)
        BY <3>2, <3>3, <4>3 DEF Ages, Row
      <4>4. CASE Keeps(r)
        BY <4>4 DEF Keeps
      <4> QED BY <3>1, <4>1, <4>2, <4>3, <4>4 DEF Effect
    <3> QED BY <3>3
  <2> QED BY <1>1, <2>1, <2>2
<1>2. TypeOK /\ Inv /\ [Next]_vars => [\A r \in RunIds : Frozen(r)]_vars
  BY <1>1
<1> QED BY <1>2, Invariance, PTL DEF Spec, RetiredRunKeepsProgress

(***************************************************************************)
(*                  The coordinator implements ExclusiveRun                  *)
(***************************************************************************)
(***************************************************************************)
(*                         The parts of the mapping                        *)
(***************************************************************************)
AnyLive  == \E r \in RunIds : Live(r)
Used     == {r \in RunIds : runs[r].status # "absent"}
Scraped  == {r \in RunIds : ReadyForImport(r)}
Imported == {r \in RunIds : runs[r].importing}

\* The run that owns the scope is the one that is active.
LEMMA OwnerIs ==
  ASSUME OneActiveRun
  PROVE  /\ \A r \in RunIds : Active(r) => Owner = r
         /\ (\A r \in RunIds : ~Active(r)) => Owner = NoRun
<1>1. CASE \E r \in RunIds : Active(r)
  <2>1. Owner = CHOOSE r \in RunIds : Active(r)
    BY <1>1 DEF Owner
  <2>2. Owner \in RunIds /\ Active(Owner)
    BY <1>1, <2>1
  <2> QED BY <1>1, <2>2 DEF OneActiveRun
<1>2. CASE ~\E r \in RunIds : Active(r)
  BY <1>2 DEF Owner
<1> QED BY <1>1, <1>2

\* The same in the next state.
LEMMA NextOwnerIs ==
  ASSUME OneActiveRun'
  PROVE  /\ \A r \in RunIds : Active(r)' => Owner' = r
         /\ (\A r \in RunIds : ~Active(r)') => Owner' = NoRun
<1>1. CASE \E r \in RunIds : Active(r)'
  <2>1. Owner' = CHOOSE r \in RunIds : Active(r)'
    BY <1>1 DEF Owner
  <2>2. Owner' \in RunIds /\ \A r \in RunIds : r = Owner' => Active(r)'
    BY <1>1, <2>1
  <2> QED BY <1>1, <2>2 DEF OneActiveRun
<1>2. CASE ~\E r \in RunIds : Active(r)'
  BY <1>2 DEF Owner
<1> QED BY <1>1, <1>2

\* A step that keeps every status and import stamp keeps the owner, the used
\* run_ids and the imports.
LEMMA StatusKept ==
  ASSUME OneActiveRun, OneActiveRun',
         \A r \in RunIds : runs'[r].status = runs[r].status
  PROVE  Owner' = Owner /\ Used' = Used
<1>1. \A r \in RunIds : Active(r)' <=> Active(r)
  BY DEF Active
<1>2. Owner' = Owner
  BY <1>1, OwnerIs, NextOwnerIs
<1>3. Used' = Used
  BY DEF Used
<1> QED BY <1>2, <1>3

(***************************************************************************)
(*                     What each kind of step maps to                      *)
(***************************************************************************)
\* A step after which every run has its status, readiness and import stamp,
\* and no lease has come to life, is a lapse of the owner or a stutter.
LEMMA LapseOrStutter ==
  ASSUME OneActiveRun, OneActiveRun',
         \A r \in RunIds : runs'[r].status = runs[r].status,
         Scraped' = Scraped, Imported' = Imported, AnyLive' => AnyLive
  PROVE  [Promise!Next]_(Promise!vars)
<1>1. Owner' = Owner /\ Used' = Used
  BY StatusKept
<1>2. CASE AnyLive' <=> AnyLive
  <2>1. AnyLive' = AnyLive
    BY <1>2 DEF AnyLive
  <2> QED BY <1>1, <2>1 DEF Promise!vars, AnyLive, Used, Scraped, Imported
<1>3. CASE AnyLive /\ ~AnyLive'
  <2>1. AnyLive' = FALSE
    BY <1>3 DEF AnyLive
  <2>2. Promise!Lapse
    BY <1>1, <1>3, <2>1 DEF Promise!Lapse, AnyLive, Used, Scraped, Imported
  <2> QED BY <2>2 DEF Promise!Next
<1> QED BY <1>2, <1>3

\* A step that finishes the active run r, and touches no other, releases the
\* scope.
LEMMA ReleaseStep ==
  ASSUME OneActiveRun, OneActiveRun', NEW r \in RunIds, Active(r),
         runs'[r].status = "finished",
         \A s \in RunIds : s # r => runs'[s] = runs[s],
         Scraped' = Scraped, Imported' = Imported
  PROVE  Promise!Release
<1>1. Owner = r /\ \A s \in RunIds : Active(s) => s = r
  BY OwnerIs DEF OneActiveRun
<1>2. \A s \in RunIds : ~Active(s)'
  BY <1>1 DEF Active
<1>3. Owner' = NoRun
  BY <1>2, NextOwnerIs
<1>4. AnyLive' = FALSE
  BY <1>2 DEF AnyLive, Live
<1>5. Used' = Used
  <2>1. runs[r].status # "absent" /\ runs'[r].status # "absent"
    BY DEF Active
  <2> QED BY <2>1 DEF Used
<1>6. Owner # NoRun
  BY <1>1, NoRunAssumption
<1> QED BY <1>3, <1>4, <1>5, <1>6 DEF Promise!Release, AnyLive, Used, Scraped, Imported

\* A call that finishes a run, active or not, by finish_run or as stale.
LEMMA RetireMaps ==
  ASSUME TypeOK, Inv, Inv', NEW r \in RunIds, NEW row \in Row,
         runs[r].status # "absent", row.status = "finished",
         row.scraped = runs[r].scraped, row.importing = runs[r].importing,
         runs' = [runs EXCEPT ![r] = row], UNCHANGED completed
  PROVE  [Promise!Next]_(Promise!vars)
<1>1. runs'[r] = row /\ \A s \in RunIds : s # r => runs'[s] = runs[s]
  BY DEF TypeOK
<1>2. Scraped' = Scraped
  <2>1. \A s \in RunIds : ReadyForImport(s)' <=> ReadyForImport(s)
    BY <1>1 DEF ReadyForImport
  <2> QED BY <2>1 DEF Scraped
<1>3. Imported' = Imported
  BY <1>1 DEF Imported
<1>4. OneActiveRun /\ OneActiveRun'
  BY DEF Inv
<1>5. CASE Active(r)
  <2>1. Promise!Release
    BY <1>1, <1>2, <1>3, <1>4, <1>5, ReleaseStep
  <2> QED BY <2>1 DEF Promise!Next
<1>6. CASE ~Active(r)
  <2>1. runs[r].status = "finished"
    BY <1>6 DEF TypeOK, Row, Statuses, Active
  <2>2. \A s \in RunIds : runs'[s].status = runs[s].status
    BY <1>1, <2>1
  <2>3. AnyLive' => AnyLive
    BY <1>1 DEF AnyLive, Live, Active
  <2> QED BY <1>2, <1>3, <1>4, <2>2, <2>3, LapseOrStutter
<1> QED BY <1>5, <1>6

\* A call on the live run r that renews it, stamps no import and unmarks no
\* scrape is a scrape or a stutter; one that stamps the import of a scraped
\* run is an import.
LEMMA MutateMaps ==
  ASSUME TypeOK, Inv, Inv', NEW w \in Workers, NEW r \in RunIds, NEW row \in Row,
         Mutate(w, r, row), row.status = runs[r].status,
         \A s \in RunIds \ {r} : completed'[s] = completed[s],
         ReadyForImport(r) => row.scraped /\ completed'[r] = Steps,
         \/ row.importing = runs[r].importing
         \/ row.importing /\ ReadyForImport(r)
  PROVE  [Promise!Next]_(Promise!vars)
<1>1. Live(r) /\ Active(r)
  BY DEF Mutate, Live
<1>2. /\ runs'[r] = Renewed(row)
      /\ \A s \in RunIds : s # r => runs'[s] = runs[s]
  BY DEF Mutate, TypeOK
<1>3. /\ runs'[r].status = runs[r].status /\ runs'[r].lease = LeaseTTL
      /\ runs'[r].scraped = row.scraped /\ runs'[r].importing = row.importing
  BY <1>2 DEF Renewed, Row
<1>4. OneActiveRun /\ OneActiveRun'
  BY DEF Inv
<1>5. Owner' = Owner /\ Used' = Used /\ Owner = r
  BY <1>1, <1>2, <1>3, <1>4, StatusKept, OwnerIs
<1>6. Live(r)'
  BY <1>1, <1>3, LeaseAssumption DEF Live, Active
<1>7. AnyLive /\ AnyLive' = AnyLive
  BY <1>1, <1>6 DEF AnyLive
<1>8. \A s \in RunIds : s # r => (ReadyForImport(s)' <=> ReadyForImport(s))
  BY <1>2 DEF ReadyForImport
<1>9. ReadyForImport(r) => ReadyForImport(r)'
  BY <1>3 DEF ReadyForImport
<1>10. Scraped' \in {Scraped, Scraped \cup {r}}
  BY <1>8, <1>9 DEF Scraped
<1>11. CASE row.importing = runs[r].importing
  <2>1. Imported' = Imported
    BY <1>2, <1>3, <1>11 DEF Imported
  <2>2. CASE Scraped' = Scraped
    BY <1>5, <1>7, <2>1, <2>2 DEF Promise!vars, AnyLive, Used, Scraped, Imported
  <2>3. CASE Scraped' = Scraped \cup {r}
    <3>1. Promise!Scrape
      BY <1>5, <1>7, <2>1, <2>3
      DEF Promise!Scrape, AnyLive, Used, Scraped, Imported
    <3> QED BY <3>1 DEF Promise!Next
  <2> QED BY <1>10, <2>2, <2>3
<1>12. CASE row.importing /\ ReadyForImport(r)
  <2>1. r \in Scraped /\ Scraped' = Scraped
    BY <1>10, <1>12 DEF Scraped
  <2>2. Imported' = Imported \cup {r}
    BY <1>2, <1>3, <1>12 DEF Imported
  <2>3. Promise!Import
    BY <1>5, <1>7, <2>1, <2>2
    DEF Promise!Import, AnyLive, Used, Scraped, Imported
  <2> QED BY <2>3 DEF Promise!Next
<1> QED BY <1>11, <1>12

\* The insert of a begin_run, with the reclaim it commits, is one claim.
LEMMA InsertMaps ==
  ASSUME TypeOK, Inv, Inv', NEW w \in Workers, BeginInsert(w)
  PROVE  \E r \in RunIds : Promise!Claim(r)
<1>1. PICK r \in Chosen(w) :
        /\ ~UniqueViolation(w, r)
        /\ runs' = [s \in RunIds |->
                      IF s = r THEN NewRow
                      ELSE IF s = txn[w].held THEN Reclaim(runs[s])
                      ELSE runs[s]]
  BY DEF BeginInsert
<1> DEFINE h == txn[w].held
<1>2. r \in RunIds
  <2>1. txn[w].run = NoRun \/ Chosen(w) = {txn[w].run}
    BY DEF Chosen
  <2>2. txn[w].run \in RunIds \cup {NoRun}
    BY DEF TypeOK, Txn
  <2> QED BY <1>1, <2>1, <2>2 DEF Chosen
<1>3. /\ runs[r].status = "absent"
      /\ \A s \in RunIds : Active(s) => s = h
  BY <1>1 DEF UniqueViolation
<1>4. h \in RunIds => Stale(h)
  BY NoRunAssumption DEF Inv, ReclaimIsExclusive
<1>5. ~AnyLive
  BY <1>3, <1>4 DEF AnyLive, Live, Stale
<1>6. /\ NewRow.status = "active" /\ NewRow.lease = LeaseTTL
      /\ ~NewRow.importing /\ ~NewRow.scraped
  BY DEF NewRow, NoRow
<1>7. /\ runs'[r] = NewRow
      /\ \A s \in RunIds : s # r /\ s = h => runs'[s] = Reclaim(runs[s])
      /\ \A s \in RunIds : s # r /\ s # h => runs'[s] = runs[s]
  BY <1>1, <1>2
<1>8. \A s \in RunIds : /\ Reclaim(runs[s]).status = "finished"
                     /\ Reclaim(runs[s]).importing = runs[s].importing
                     /\ Reclaim(runs[s]).scraped = runs[s].scraped
  BY DEF TypeOK, Row, Reclaim
<1>9. Owner' = r
  BY <1>2, <1>6, <1>7, NextOwnerIs DEF Inv, Active
<1>10. AnyLive' = TRUE
  <2>1. Live(r)'
    BY <1>6, <1>7, LeaseAssumption DEF Live, Active
  <2> QED BY <1>2, <2>1 DEF AnyLive
<1>11. Used' = Used \cup {r} /\ r \notin Used
  <2>1. h \in RunIds => runs[h].status # "absent"
    BY <1>4 DEF Stale, Active
  <2> QED BY <1>2, <1>3, <1>6, <1>7, <1>8, <2>1 DEF Used
<1>12. ~runs[r].importing /\ ~runs[r].scraped
  BY <1>2, <1>3 DEF Inv, AbsentIsBlank, NoRow
<1>13. UNCHANGED completed
  BY DEF BeginInsert
<1>14. Scraped' = Scraped
  <2>1. \A s \in RunIds : ReadyForImport(s)' <=> ReadyForImport(s)
    BY <1>2, <1>6, <1>7, <1>8, <1>12, <1>13 DEF ReadyForImport
  <2> QED BY <2>1 DEF Scraped
<1>15. Imported' = Imported
  <2>1. \A s \in RunIds : runs'[s].importing <=> runs[s].importing
    BY <1>2, <1>6, <1>7, <1>8, <1>12
  <2> QED BY <2>1 DEF Imported
<1>16. Promise!Claim(r)
  BY <1>5, <1>9, <1>10, <1>11, <1>14, <1>15
  DEF Promise!Claim, AnyLive, Used, Scraped, Imported
<1> QED BY <1>2, <1>16

\* Every step of the coordinator is a step of ExclusiveRun or a stutter.
LEMMA StepMaps ==
  ASSUME TypeOK, TypeOK', Inv, Inv', [Next]_vars
  PROVE  [Promise!Next]_(Promise!vars)
<1>0. \A r \in RunIds : runs[r] \in Row /\ Reclaim(runs[r]) \in Row
  BY RowTypes DEF TypeOK
<1>00. \A r \in RunIds : /\ Reclaim(runs[r]).status = "finished"
                        /\ Reclaim(runs[r]).scraped = runs[r].scraped
                        /\ Reclaim(runs[r]).importing = runs[r].importing
  BY <1>0 DEF Row, Reclaim
<1>1. ASSUME UNCHANGED <<runs, completed>> PROVE [Promise!Next]_(Promise!vars)
  <2>1. UNCHANGED Promise!vars
    BY <1>1 DEF Promise!vars, Owner, Live, Active, ReadyForImport
  <2> QED BY <2>1
<1>2. ASSUME NEW w \in Workers, Begin(w) PROVE [Promise!Next]_(Promise!vars)
  <2>1. ASSUME NEW q \in RunIds \cup {NoRun}, BeginResume(w, q)
        PROVE  [Promise!Next]_(Promise!vars)
    <3>1. PICK r \in RunIds : Live(r) /\ runs' = [runs EXCEPT ![r] = Renewed(@)]
      BY <2>1 DEF BeginResume
    <3>2. /\ runs'[r] = Renewed(runs[r])
          /\ \A s \in RunIds : s # r => runs'[s] = runs[s]
      BY <3>1 DEF TypeOK
    <3>3. /\ runs'[r].status = runs[r].status
          /\ runs'[r].scraped = runs[r].scraped
          /\ runs'[r].importing = runs[r].importing
      BY <1>0, <3>2 DEF Renewed, Row
    <3>4. Scraped' = Scraped
      <4>1. UNCHANGED completed
        BY <2>1 DEF BeginResume
      <4>2. \A s \in RunIds : ReadyForImport(s)' <=> ReadyForImport(s)
        BY <3>2, <3>3, <4>1 DEF ReadyForImport
      <4> QED BY <4>2 DEF Scraped
    <3>5. Imported' = Imported
      BY <3>2, <3>3 DEF Imported
    <3>6. AnyLive
      BY <3>1 DEF AnyLive
    <3> QED BY <3>2, <3>3, <3>4, <3>5, <3>6, LapseOrStutter DEF Inv
  <2>2. CASE BeginInsert(w)
    BY <2>2, InsertMaps DEF Promise!Next
  <2>3. CASE \E q \in RunIds \cup {NoRun} :
               BeginConflict(w, q) \/ BeginScan(w, q) \/ BeginWaits(w, q)
    BY <1>1, <2>3 DEF BeginConflict, BeginScan, BeginWaits
  <2>4. CASE BeginMissed(w) \/ BeginReused(w) \/ BeginUnused(w) \/ BeginCollides(w)
    BY <1>1, <2>4 DEF BeginMissed, BeginReused, BeginUnused, BeginCollides
  <2> QED BY <1>2, <2>1, <2>2, <2>3, <2>4 DEF Begin
<1>3. ASSUME NEW w \in Workers, Crash(w) PROVE [Promise!Next]_(Promise!vars)
  BY <1>1, <1>3 DEF Crash
<1>4. ASSUME NEW w \in Workers, NEW r \in RunIds, MutateRun(w, r)
      PROVE  [Promise!Next]_(Promise!vars)
  <2> DEFINE row == runs[r]
  <2>1. row \in Row
    BY <1>0
  <2>2. CASE RefuseRetired(w, r) \/ RefuseEarly(w, r, completed[r] = Steps)
             \/ RefuseEarly(w, r, ReadyForImport(r))
    BY <1>1, <2>2 DEF RefuseRetired, RefuseEarly
  <2>3. CASE ReclaimOnCallback(w, r)
    <3>1. UNCHANGED completed /\ row.status # "absent"
      BY <2>3 DEF ReclaimOnCallback, Stale, Active
    <3>2. runs' = [runs EXCEPT ![r] = Reclaim(row)]
      BY <2>3 DEF ReclaimOnCallback
    <3> QED BY <1>0, <1>00, <3>1, <3>2, RetireMaps
  <2>4. CASE begin_tender_scrape(w, r)
    <3> DEFINE new == [row EXCEPT !.phase = "tender_scrape"]
    <3>1. /\ new \in Row /\ new.status = row.status
          /\ row.scraped => new.scraped
          /\ new.importing = row.importing
      BY <2>1 DEF Row, Phases
    <3>2. Mutate(w, r, new) /\ UNCHANGED completed
      BY <2>4 DEF begin_tender_scrape
    <3>3. ReadyForImport(r) => new.scraped /\ completed'[r] = Steps
      BY <3>1, <3>2 DEF ReadyForImport
    <3> QED BY <3>1, <3>2, <3>3, MutateMaps
  <2>5. CASE complete_tender_scrape(w, r)
    <3> DEFINE new == [row EXCEPT !.scraped = TRUE, !.phase = "tender_scrape_complete"]
    <3>1. /\ new \in Row /\ new.status = row.status
          /\ row.scraped => new.scraped
          /\ new.importing = row.importing
      BY <2>1 DEF Row, Phases
    <3>2. Mutate(w, r, new) /\ UNCHANGED completed
      BY <2>5 DEF complete_tender_scrape
    <3>3. ReadyForImport(r) => new.scraped /\ completed'[r] = Steps
      BY <3>1, <3>2 DEF ReadyForImport
    <3> QED BY <3>1, <3>2, <3>3, MutateMaps
  <2>6. CASE begin_full_scrape(w, r)
    <3> DEFINE new == [row EXCEPT !.phase = "full_scrape"]
    <3>1. /\ new \in Row /\ new.status = row.status
          /\ row.scraped => new.scraped
          /\ new.importing = row.importing
      BY <2>1 DEF Row, Phases
    <3>2. Mutate(w, r, new) /\ UNCHANGED completed
      BY <2>6 DEF begin_full_scrape
    <3>3. ReadyForImport(r) => new.scraped /\ completed'[r] = Steps
      BY <3>1, <3>2 DEF ReadyForImport
    <3> QED BY <3>1, <3>2, <3>3, MutateMaps
  <2>7. CASE complete_full_scrape(w, r)
    <3> DEFINE new == [row EXCEPT !.phase = IF @ = "tender_scrape_complete" THEN @
                                            ELSE "scrape_complete"]
    <3>1. /\ new \in Row /\ new.status = row.status
          /\ row.scraped => new.scraped
          /\ new.importing = row.importing
      BY <2>1 DEF Row, Phases
    <3>2. Mutate(w, r, new) /\ UNCHANGED completed
      BY <2>7 DEF complete_full_scrape
    <3>3. ReadyForImport(r) => new.scraped /\ completed'[r] = Steps
      BY <3>1, <3>2 DEF ReadyForImport
    <3> QED BY <3>1, <3>2, <3>3, MutateMaps
  <2>8. CASE begin_import(w, r)
    <3> DEFINE new == [row EXCEPT !.phase = "import", !.importing = TRUE]
    <3>1. /\ new \in Row /\ new.status = row.status
          /\ row.scraped => new.scraped
          /\ new.importing
      BY <2>1 DEF Row, Phases
    <3>2. Mutate(w, r, new) /\ UNCHANGED completed /\ ReadyForImport(r)
      BY <2>8 DEF begin_import
    <3>3. ReadyForImport(r) => new.scraped /\ completed'[r] = Steps
      BY <3>1, <3>2 DEF ReadyForImport
    <3> QED BY <3>1, <3>2, <3>3, MutateMaps
  <2>9. CASE complete_import(w, r)
    <3> DEFINE new == [row EXCEPT !.phase = "import_complete", !.imported = TRUE]
    <3>1. /\ new \in Row /\ new.status = row.status
          /\ row.scraped => new.scraped
          /\ new.importing = row.importing
      BY <2>1 DEF Row, Phases
    <3>2. Mutate(w, r, new) /\ UNCHANGED completed
      BY <2>9 DEF complete_import
    <3>3. ReadyForImport(r) => new.scraped /\ completed'[r] = Steps
      BY <3>1, <3>2 DEF ReadyForImport
    <3> QED BY <3>1, <3>2, <3>3, MutateMaps
  <2>10. ASSUME NEW step \in Steps, mark_tender_scrape_step(w, r, step)
         PROVE  [Promise!Next]_(Promise!vars)
    <3> DEFINE ends == completed[r] \cup {step} = Steps /\ ~row.scraped
               new == [row EXCEPT
                         !.scraped = @ \/ ends,
                         !.phase = IF ends THEN "tender_scrape_complete" ELSE @]
    <3>1. /\ new \in Row /\ new.status = row.status
          /\ row.scraped => new.scraped
          /\ new.importing = row.importing
      BY <2>1 DEF Row, Phases
    <3>2. /\ Mutate(w, r, new)
          /\ completed'[r] = completed[r] \cup {step}
          /\ \A s \in RunIds \ {r} : completed'[s] = completed[s]
      BY <2>10 DEF mark_tender_scrape_step, TypeOK
    <3>3. ReadyForImport(r) => new.scraped /\ completed'[r] = Steps
      BY <3>1, <3>2 DEF ReadyForImport
    <3> HIDE DEF ends, new
    <3> QED BY <3>1, <3>2, <3>3, MutateMaps
  <2> QED BY <1>4, <2>2, <2>3, <2>4, <2>5, <2>6, <2>7, <2>8, <2>9, <2>10 DEF MutateRun
<1>5. ASSUME NEW w \in Workers, NEW r \in RunIds, NEW s \in {"true", "false"},
             finish_run(w, r, s)
      PROVE  [Promise!Next]_(Promise!vars)
  <2> DEFINE new == [runs[r] EXCEPT !.status = "finished", !.phase = "finished",
                                    !.success = s]
  <2>1. /\ new \in Row /\ new.status = "finished"
        /\ new.scraped = runs[r].scraped /\ new.importing = runs[r].importing
    BY <1>0 DEF Row, Phases, Statuses
  <2>2. /\ runs[r].status # "absent" /\ runs' = [runs EXCEPT ![r] = new]
        /\ UNCHANGED completed
    BY <1>5 DEF finish_run
  <2> QED BY <2>1, <2>2, RetireMaps
<1>6. ASSUME NEW w \in Workers, reap_stale_run(w) PROVE [Promise!Next]_(Promise!vars)
  <2>1. PICK r \in RunIds : Stale(r) /\ runs' = [runs EXCEPT ![r] = Reclaim(@)]
    BY <1>6 DEF reap_stale_run
  <2>2. UNCHANGED completed /\ runs[r].status # "absent"
    BY <1>6, <2>1 DEF reap_stale_run, Stale, Active
  <2> QED BY <1>0, <1>00, <2>1, <2>2, RetireMaps
<1>7. CASE Tick
  <2>1. \A r \in RunIds :
          runs'[r] = [runs[r] EXCEPT !.lease = IF @ > 0 THEN @ - 1 ELSE 0]
    BY <1>7 DEF Tick
  <2>2. \A r \in RunIds : /\ runs'[r].status = runs[r].status
                         /\ runs'[r].scraped = runs[r].scraped
                         /\ runs'[r].importing = runs[r].importing
    BY <1>0, <2>1 DEF Row
  <2>3. ASSUME NEW r \in RunIds, runs'[r].lease > 0 PROVE runs[r].lease > 0
    <3>1. runs[r].lease \in 0 .. LeaseTTL
      BY <1>0 DEF Row
    <3>2. runs'[r].lease = IF runs[r].lease > 0 THEN runs[r].lease - 1 ELSE 0
      BY <1>0, <2>1 DEF Row
    <3> QED BY <2>3, <3>1, <3>2, LeaseAssumption
  <2>4. Scraped' = Scraped
    <3>1. UNCHANGED completed
      BY <1>7 DEF Tick
    <3>2. \A s \in RunIds : ReadyForImport(s)' <=> ReadyForImport(s)
      BY <2>2, <3>1 DEF ReadyForImport
    <3> QED BY <3>2 DEF Scraped
  <2>5. Imported' = Imported
    BY <2>2 DEF Imported
  <2>6. AnyLive' => AnyLive
    BY <2>2, <2>3 DEF AnyLive, Live, Active
  <2> QED BY <2>2, <2>4, <2>5, <2>6, LapseOrStutter DEF Inv
<1>8. CASE UNCHANGED vars
  BY <1>1, <1>8 DEF vars
<1> QED BY <1>2, <1>3, <1>4, <1>5, <1>6, <1>7, <1>8 DEF Next

\* The empty tables are ExclusiveRun with the scope free.
LEMMA InitMaps == Init => Promise!Init
<1> SUFFICES ASSUME Init PROVE Promise!Init
  OBVIOUS
<1>1. NoRow.status = "absent" /\ ~NoRow.importing /\ ~NoRow.scraped
  BY DEF NoRow
<1>2. \A r \in RunIds : /\ runs[r].status = "absent" /\ ~Active(r)
                     /\ ~runs[r].importing /\ ~ReadyForImport(r)
  BY <1>1 DEF Init, Active, ReadyForImport
<1>3. Owner = NoRun
  BY <1>2 DEF Owner
<1>4. AnyLive = FALSE
  BY <1>2 DEF AnyLive, Live
<1>5. Used = {} /\ Scraped = {} /\ Imported = {}
  BY <1>2 DEF Used, Scraped, Imported
<1> QED BY <1>3, <1>4, <1>5 DEF Promise!Init, AnyLive, Used, Scraped, Imported

\* The coordinator, transaction by transaction, keeps the promise of its
\* docstring: one run owns the scope, a live owner is replaced by nobody, a
\* lapsed one never gets it back, and only a live owner imports what it
\* scraped.
THEOREM ImplementsExclusiveRun == Spec => KeepsPromise
<1>1. Init => Promise!Init
  BY InitMaps
<1>2. TypeOK /\ TypeOK' /\ Inv /\ Inv' /\ [Next]_vars
        => [Promise!Next]_(Promise!vars)
  BY StepMaps
<1> QED BY <1>1, <1>2, Invariance, PTL DEF Spec, KeepsPromise, Promise!Spec
===============================================================================
