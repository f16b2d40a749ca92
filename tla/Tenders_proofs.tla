---------------------------- MODULE Tenders_proofs ----------------------------
(***************************************************************************)
(* Theorems about the tenders on the market and the scores that are cached *)
(* for them, for any tenders, days, jobs, companies and scorers.           *)
(*                                                                         *)
(* A tender's row moves one way: no row goes, none is opened again, and a  *)
(* reason for leaving is never taken back, so that what a job loaded       *)
(* before others wrote is still a basis for what it writes. Of the         *)
(* matches, that rows are written and never deleted is what makes the      *)
(* prescore's list and its rows agree.                                     *)
(***************************************************************************)
EXTENDS TenderMarket, MatchCache, TLAPS

(***************************************************************************)
(*                              The open market                              *)
(***************************************************************************)
OverStatuses == {"closed", "delisted", "awarded"}

\* A row that is there: open while its status is new, not open when it is over.
TenderFits(row) ==
  /\ row \in TenderRow
  /\ row.status = "active" => row.is_open
  /\ row.status \in OverStatuses => ~row.is_open

\* What the resolver closes a row for.
Closes(row, now) ==
  (row.closing_at # NoDay /\ row.closing_at <= now) \/ row.missing = Enough

\* The rows are in order; one that is not open, is due or is missed often enough
\* has its reason, and no more absences are counted than there were.
TenderTableFits ==
  \A t \in Tracked :
    /\ absent[t] = Enough => t \in reason
    /\ tender[t] # NoTender =>
         /\ TenderFits(tender[t])
         /\ ~tender[t].is_open => t \in reason
         /\ tender[t].closing_at # NoDay /\ tender[t].closing_at <= day => t \in reason
         /\ tender[t].missing <= absent[t]

\* What a job loaded was in order when it did: what it closes a row for holds
\* for good, and a row that was not open then is not open now.
LoadFits(job, rows, why) ==
  \A t \in job.rows :
    /\ rows[t] # NoTender /\ TenderFits(job.seen[t])
    /\ ~job.seen[t].is_open => ~rows[t].is_open
    /\ Closes(job.seen[t], job.now) => t \in why

JobFits(job, rows, why) ==
  /\ job.at \in {"upsert", "sync", "dates"} =>
       /\ job = [at |-> job.at, listed |-> job.listed, others |-> job.others, dates |-> job.dates]
       /\ job.listed \subseteq Tracked /\ job.dates \in [job.listed -> Dates]
  /\ job.at \in {"closing", "resolve", "reconcile"} =>
       job.rows \subseteq Tracked /\ job.now \in Nat /\ LoadFits(job, rows, why)

MarketInv ==
  /\ MarketTypeOK
  /\ TenderTableFits
  /\ doing = [j \in MarketJobs |-> doing[j]]
  /\ \A j \in MarketJobs : JobFits(doing[j], tender, reason)

\* What was true of the rows a job loaded is true still: no row goes, none is
\* opened again and no reason is taken back.
NothingReturns ==
  /\ reason \subseteq reason'
  /\ \A t \in Tracked : tender[t] # NoTender =>
       tender'[t] # NoTender /\ (~tender[t].is_open => ~tender'[t].is_open)

JobStages == {"idle", "upsert", "sync", "dates", "closing", "resolve", "reconcile"}

\* A job takes a step, the table is in order and nothing returns.
LEMMA JobSteps ==
  ASSUME MarketInv, NothingReturns, TenderTableFits', NEW j \in MarketJobs, NEW job, Does(j, job),
         job.at \in JobStages, JobFits(job, tender', reason'),
         tender' \in [Tracked -> TenderRow \cup {NoTender}], started' \in 0..MaxMarket,
         absent' \in [Tracked -> 0..Enough], reason' \subseteq Tracked, UNCHANGED day
  PROVE  MarketInv'
<1>1. ASSUME NEW i \in MarketJobs PROVE JobFits(doing[i], tender', reason')
  BY DEF MarketInv, JobFits, LoadFits, NothingReturns
<1>2. /\ doing' = [i \in MarketJobs |-> doing'[i]]
      /\ \A i \in MarketJobs : doing'[i] = IF i = j THEN job ELSE doing[i]
  BY DEF MarketInv, Does
<1>3. MarketTypeOK'
  BY <1>2 DEF MarketInv, MarketTypeOK, JobStages
<1>4. \A i \in MarketJobs : JobFits(doing'[i], tender', reason')
  BY <1>1, <1>2
<1> QED BY <1>2, <1>3, <1>4 DEF MarketInv

\* A job takes a step that changes no row.
LEMMA JobMoves ==
  ASSUME MarketInv, NEW j \in MarketJobs, NEW job, Does(j, job), job.at \in JobStages,
         JobFits(job, tender, reason), started' \in 0..MaxMarket,
         UNCHANGED <<tender, day, absent, reason>>
  PROVE  MarketInv'
<1>1. NothingReturns /\ TenderTableFits'
  BY DEF MarketInv, NothingReturns, TenderTableFits
<1>2. /\ tender' \in [Tracked -> TenderRow \cup {NoTender}]
      /\ absent' \in [Tracked -> 0..Enough] /\ reason' \subseteq Tracked
  BY DEF MarketInv, MarketTypeOK
<1> QED BY <1>1, <1>2, JobSteps

-----------------------------------------------------------------------------

\* How a job that decides on a row it loaded may change it: with its status when
\* it closes it, for a reason, and without opening it.
RowMoves(row, new, now) ==
  /\ TenderFits(new) /\ new.missing = row.missing
  /\ row.status = new.status => row.is_open = new.is_open
  /\ ~row.is_open => ~new.is_open
  /\ row.is_open /\ ~new.is_open => Closes(row, now)
  /\ new.status = "active" => row.status = "active"

\* A row that is left alone moves as rows may; so does one that gets its date,
\* one that is awarded and one that is resolved.
LEMMA Unmoved == ASSUME NEW row, TenderFits(row), NEW now PROVE RowMoves(row, row, now)
BY DEF RowMoves

\* The sync of the closing dates.
LEMMA DatedMoves == ASSUME NEW row, TenderFits(row), NEW now PROVE RowMoves(row, Dated(row), now)
BY DEF RowMoves, Dated, TenderFits, TenderRow

\* The award of a contract.
LEMMA AwardedMoves == ASSUME NEW row, TenderFits(row), NEW now PROVE RowMoves(row, Awarded(row), now)
BY DEF RowMoves, Awarded, TenderFits, TenderRow, OverStatuses

\* The resolution of the status.
LEMMA ResolvedMoves ==
  ASSUME NEW row, TenderFits(row), NEW now \in Nat
  PROVE  RowMoves(row, Resolved(row, now), now)
<1> DEFINE due == row.closing_at # NoDay /\ row.closing_at <= now
           soon == row.closing_at > now /\ row.closing_at <= now + Window
<1>1. row.closing_at # NoDay => row.closing_at \in Nat
  BY MarketAssumption DEF TenderFits, TenderRow, Dates
<1>2. CASE row.status # "awarded" /\ due
  <2>1. Resolved(row, now) = [row EXCEPT !.status = "closed", !.is_open = FALSE]
    <3>1. ~(row.closing_at > now)
      BY <1>1, <1>2
    <3> QED BY <1>2, <3>1, Zenon DEF Resolved
  <2> QED BY <1>2, <2>1 DEF RowMoves, TenderFits, TenderRow, OverStatuses, Closes
<1>3. CASE row.status = "active" /\ row.closing_at # NoDay /\ soon
  <2>1. Resolved(row, now) = [row EXCEPT !.status = "closing_soon", !.is_open = TRUE]
    <3>1. ~(row.closing_at <= now) /\ "active" # "awarded"
      BY <1>1, <1>3
    <3> QED BY <1>3, <3>1, Zenon DEF Resolved
  <2> QED BY <1>3, <2>1 DEF RowMoves, TenderFits, TenderRow, OverStatuses, Closes
<1>4. CASE row.status # "awarded" /\ row.closing_at = NoDay /\ row.missing >= Enough
  <2>1. Resolved(row, now) = [row EXCEPT !.status = "delisted", !.is_open = FALSE]
    BY <1>4, Zenon DEF Resolved
  <2>2. row.missing = Enough
    BY <1>4 DEF TenderFits, TenderRow, Enough
  <2> QED BY <1>4, <2>1, <2>2 DEF RowMoves, TenderFits, TenderRow, OverStatuses, Closes
<1>5. CASE /\ ~(row.status # "awarded" /\ due)
           /\ ~(row.status = "active" /\ row.closing_at # NoDay /\ soon)
           /\ ~(row.status # "awarded" /\ row.closing_at = NoDay /\ row.missing >= Enough)
  <2>1. Resolved(row, now) = row
    BY <1>5, Zenon DEF Resolved
  <2> QED BY <2>1, Unmoved
<1> QED BY <1>2, <1>3, <1>4, <1>5

\* The columns of a row that is flushed.
LEMMA FlushTypes ==
  ASSUME NEW row \in TenderRow, NEW seen \in TenderRow, NEW new \in TenderRow
  PROVE  /\ Flush(row, seen, new) \in TenderRow
         /\ Flush(row, seen, new).status =
              IF new.status = seen.status THEN row.status ELSE new.status
         /\ Flush(row, seen, new).is_open =
              IF new.is_open = seen.is_open THEN row.is_open ELSE new.is_open
         /\ Flush(row, seen, new).missing =
              IF new.missing = seen.missing THEN row.missing ELSE new.missing
BY DEF Flush, TenderRow

\* A row is flushed over one that has changed since it was loaded.
LEMMA FlushFits ==
  ASSUME NEW row, TenderFits(row), NEW seen, TenderFits(seen), NEW new, NEW now,
         RowMoves(seen, new, now), ~seen.is_open => ~row.is_open
  PROVE  /\ TenderFits(Flush(row, seen, new))
         /\ Flush(row, seen, new).missing = row.missing
         /\ ~row.is_open => ~Flush(row, seen, new).is_open
         /\ row.is_open /\ ~Flush(row, seen, new).is_open => Closes(seen, now)
<1>1. row \in TenderRow /\ seen \in TenderRow /\ new \in TenderRow /\ TenderFits(new)
  BY DEF TenderFits, RowMoves
<1> DEFINE f == Flush(row, seen, new)
<1>2. /\ f \in TenderRow
      /\ f.status = IF new.status = seen.status THEN row.status ELSE new.status
      /\ f.is_open = IF new.is_open = seen.is_open THEN row.is_open ELSE new.is_open
      /\ f.missing = IF new.missing = seen.missing THEN row.missing ELSE new.missing
  BY <1>1, FlushTypes
<1>3. /\ row.is_open \in BOOLEAN /\ seen.is_open \in BOOLEAN /\ new.is_open \in BOOLEAN
  BY <1>1 DEF TenderRow
<1> HIDE DEF f
<1>4. TenderFits(f) /\ f.missing = row.missing /\ (~row.is_open => ~f.is_open)
      /\ (row.is_open /\ ~f.is_open => Closes(seen, now))
  BY <1>1, <1>2, <1>3 DEF TenderFits, RowMoves, OverStatuses
<1> QED BY <1>4 DEF f

-----------------------------------------------------------------------------

\* A row at the places the table has one.
LEMMA RowsThere ==
  ASSUME MarketInv, NEW t \in Tracked
  PROVE  /\ t \in There => /\ tender[t] # NoTender /\ TenderFits(tender[t])
                           /\ tender[t].missing \in 0..Enough
         /\ t \notin There => tender[t] = NoTender
         /\ absent[t] \in 0..Enough
BY DEF MarketInv, MarketTypeOK, TenderTableFits, There, TenderFits, TenderRow

\* NULL is no row.
LEMMA NoTenderIsNoRow == NoTender \notin TenderRow /\ \A row : TenderFits(row) => row # NoTender
BY DEF NoTender, TenderRow, TenderFits

\* A job starts.
LEMMA StartsJobKeeps ==
  ASSUME MarketInv, NEW j \in MarketJobs, NEW job, StartsJob(j, job), job.at \in JobStages,
         JobFits(job, tender, reason)
  PROVE  MarketInv'
<1>1. started' \in 0..MaxMarket
  BY MarketAssumption DEF StartsJob, MarketInv, MarketTypeOK
<1> QED BY <1>1, JobMoves DEF StartsJob

\* What a job loads fits.
LEMMA LoadedFit ==
  ASSUME MarketInv, NEW what \in {"closing", "resolve", "reconcile"}, NEW rows \in SUBSET Tracked
  PROVE  /\ LoadedRows(what, rows).at = what
         /\ JobFits(LoadedRows(what, rows), tender, reason)
<1> DEFINE job == LoadedRows(what, rows)
<1>1. /\ job.at = what /\ job.rows = rows \cap There /\ job.seen = tender /\ job.now = day
  BY DEF LoadedRows
<1> HIDE DEF job
<1>2. day \in Nat
  BY MarketAssumption DEF MarketInv, MarketTypeOK
<1>3. LoadFits(job, tender, reason)
  <2> SUFFICES ASSUME NEW t \in rows \cap There
               PROVE  /\ tender[t] # NoTender /\ TenderFits(tender[t])
                      /\ Closes(tender[t], day) => t \in reason
    BY <1>1 DEF LoadFits
  <2>1. /\ tender[t] # NoTender /\ TenderFits(tender[t]) /\ tender[t].missing \in 0..Enough
        /\ absent[t] \in 0..Enough
    BY RowsThere
  <2>2. tender[t].missing = Enough => absent[t] = Enough
    BY <2>1 DEF MarketInv, TenderTableFits, Enough
  <2> QED BY <2>1, <2>2 DEF MarketInv, TenderTableFits, Closes
<1> QED BY <1>1, <1>2, <1>3 DEF job, JobFits

\* The steps that load: a job's first, and the last part of an import.
LEMMA LoadsKeep ==
  ASSUME MarketInv, NEW j \in MarketJobs, ReadCsv(j) \/ LoadDates(j) \/ LoadRowsOf(j)
  PROVE  MarketInv'
<1>1. ASSUME NEW listed \in SUBSET Tracked, NEW others \in BOOLEAN, NEW dates \in [listed -> Dates],
             StartsJob(j, [at |-> "upsert", listed |-> listed, others |-> others, dates |-> dates])
      PROVE  MarketInv'
  <2> DEFINE job == [at |-> "upsert", listed |-> listed, others |-> others, dates |-> dates]
  <2>1. job.at \in JobStages /\ JobFits(job, tender, reason)
    BY DEF JobFits, JobStages
  <2> QED BY <1>1, <2>1, StartsJobKeeps
<1>2. ASSUME NEW what \in {"closing", "resolve", "reconcile"}, NEW rows \in SUBSET Tracked
      PROVE  /\ LoadedRows(what, rows).at \in JobStages
             /\ JobFits(LoadedRows(what, rows), tender, reason)
  BY LoadedFit DEF JobStages
<1>3. CASE LoadDates(j)
  <2> DEFINE rows == IF doing[j].listed = {} THEN Tracked ELSE doing[j].listed
  <2>1. rows \in SUBSET Tracked
    BY <1>3 DEF LoadDates, MarketInv, JobFits
  <2>2. Does(j, LoadedRows("closing", rows)) /\ UNCHANGED <<tender, started, day, absent, reason>>
    BY <1>3 DEF LoadDates
  <2> HIDE DEF rows
  <2>3. started' \in 0..MaxMarket
    BY <2>2 DEF MarketInv, MarketTypeOK
  <2> QED BY <1>2, <2>1, <2>2, <2>3, JobMoves
<1>4. CASE LoadRowsOf(j)
  <2>1. ASSUME NEW what \in {"closing", "resolve", "reconcile"}, NEW rows \in SUBSET Tracked,
               StartsJob(j, LoadedRows(what, rows))
        PROVE  MarketInv'
    BY <1>2, <2>1, StartsJobKeeps
  <2>2. {t \in There : tender[t].closing_at = NoDay} \in SUBSET Tracked /\ Tracked \in SUBSET Tracked
    BY DEF There
  <2> QED BY <1>4, <2>1, <2>2 DEF LoadRowsOf
<1> QED BY <1>1, <1>3, <1>4 DEF ReadCsv

\* An import goes on to its next part.
LEMMA ImportGoesOn ==
  ASSUME NEW job, NEW rows, NEW why, NEW next, NEW more, NEW at \in {"sync", "dates"},
         job.at \in {"upsert", "sync", "dates"}, JobFits(job, rows, why)
  PROVE  [job EXCEPT !.at = at].at \in JobStages /\ JobFits([job EXCEPT !.at = at], next, more)
<1> DEFINE new == [job EXCEPT !.at = at]
<1>1. new = [at |-> at, listed |-> job.listed, others |-> job.others, dates |-> job.dates]
  <2>1. job = [at |-> job.at, listed |-> job.listed, others |-> job.others, dates |-> job.dates]
    BY DEF JobFits
  <2> QED BY <2>1
<1> HIDE DEF new
<1>2. new.at \in JobStages /\ JobFits(new, next, more)
  BY <1>1 DEF JobFits, JobStages
<1> QED BY <1>2 DEF new

\* The import's upsert: new rows are open, the others keep what the resolver set.
LEMMA TenderUpsertKeeps ==
  ASSUME MarketInv, NEW j \in MarketJobs, upsert_with_presence(j)
  PROVE  MarketInv'
<1> DEFINE job == doing[j]
           new(t) == CASE t \notin job.listed -> tender[t]
                       [] t \in job.listed \ There -> NewTender(job.dates[t])
                       [] OTHER -> [tender[t] EXCEPT !.deadline = job.dates[t]]
<1>1. /\ job.at = "upsert" /\ job.listed \subseteq Tracked /\ job.dates \in [job.listed -> Dates]
      /\ JobFits(job, tender, reason)
  BY DEF upsert_with_presence, MarketInv, JobFits
<1>2. \A t \in Tracked :
        /\ t \notin job.listed => new(t) = tender[t]
        /\ t \in job.listed \ There => new(t) = NewTender(job.dates[t])
        /\ t \in job.listed \cap There => new(t) = [tender[t] EXCEPT !.deadline = job.dates[t]]
  <2> TAKE t \in Tracked
  <2>1. CASE t \notin job.listed
    <3>1. new(t) = tender[t]
      BY <2>1, Zenon
    <3> QED BY <2>1, <3>1
  <2>2. CASE t \in job.listed \ There
    <3>1. new(t) = NewTender(job.dates[t])
      BY <2>2, Zenon
    <3> QED BY <2>2, <3>1
  <2>3. CASE t \in job.listed \cap There
    <3>1. new(t) = [tender[t] EXCEPT !.deadline = job.dates[t]]
      BY <2>3, Zenon
    <3> QED BY <2>3, <3>1
  <2> QED BY <2>1, <2>2, <2>3
<1>3. tender' = [t \in Tracked |-> new(t)]
  BY DEF upsert_with_presence
<1> HIDE DEF new
<1>4. ASSUME NEW t \in Tracked
      PROVE  /\ new(t) \in TenderRow \cup {NoTender}
             /\ tender[t] # NoTender =>
                  /\ TenderFits(new(t)) /\ new(t).is_open = tender[t].is_open
                  /\ new(t).closing_at = tender[t].closing_at /\ new(t).missing = tender[t].missing
             /\ tender[t] = NoTender /\ new(t) # NoTender =>
                  /\ TenderFits(new(t)) /\ new(t).is_open
                  /\ new(t).closing_at = NoDay /\ new(t).missing = 0
  <2>1. CASE t \notin job.listed
    BY <1>2, <2>1, RowsThere DEF TenderFits
  <2>2. CASE t \in job.listed \ There
    <3>1. new(t) = NewTender(job.dates[t]) /\ job.dates[t] \in Dates /\ tender[t] = NoTender
      BY <1>1, <1>2, <2>2, RowsThere
    <3>2. TenderFits(new(t)) /\ new(t).is_open /\ new(t).closing_at = NoDay /\ new(t).missing = 0
      BY <3>1 DEF NewTender, TenderFits, TenderRow, Dates, OverStatuses, Enough
    <3> QED BY <3>1, <3>2 DEF TenderFits
  <2>3. CASE t \in job.listed \cap There
    <3>1. /\ new(t) = [tender[t] EXCEPT !.deadline = job.dates[t]] /\ job.dates[t] \in Dates
          /\ tender[t] # NoTender /\ TenderFits(tender[t])
      BY <1>1, <1>2, <2>3, RowsThere
    <3>2. /\ TenderFits(new(t)) /\ new(t).is_open = tender[t].is_open
          /\ new(t).closing_at = tender[t].closing_at /\ new(t).missing = tender[t].missing
      BY <3>1 DEF TenderFits, TenderRow
    <3> QED BY <3>1, <3>2 DEF TenderFits
  <2> QED BY <2>1, <2>2, <2>3
<1>5. UNCHANGED <<started, day, absent, reason>>
  BY DEF upsert_with_presence
<1>6. tender' \in [Tracked -> TenderRow \cup {NoTender}] /\ NothingReturns
  BY <1>3, <1>4, <1>5, NoTenderIsNoRow DEF NothingReturns
<1>7. TenderTableFits'
  <2> SUFFICES ASSUME NEW t \in Tracked
               PROVE  /\ absent[t] = Enough => t \in reason
                      /\ new(t) # NoTender =>
                           /\ TenderFits(new(t))
                           /\ ~new(t).is_open => t \in reason
                           /\ new(t).closing_at # NoDay /\ new(t).closing_at <= day => t \in reason
                           /\ new(t).missing <= absent[t]
    BY <1>3, <1>5 DEF TenderTableFits
  <2>1. absent[t] \in 0..Enough
    BY RowsThere
  <2>2. CASE tender[t] # NoTender
    BY <1>4, <2>2 DEF MarketInv, TenderTableFits
  <2>3. CASE tender[t] = NoTender
    BY <1>4, <2>1, <2>3 DEF MarketInv, TenderTableFits
  <2> QED BY <2>2, <2>3
<1>8. Does(j, [job EXCEPT !.at = "sync"])
  BY DEF upsert_with_presence
<1>9. [job EXCEPT !.at = "sync"].at \in JobStages /\ JobFits([job EXCEPT !.at = "sync"], tender', reason')
  BY <1>1, ImportGoesOn
<1>10. started' \in 0..MaxMarket /\ absent' \in [Tracked -> 0..Enough] /\ reason' \subseteq Tracked
  BY <1>5 DEF MarketInv, MarketTypeOK
<1> QED BY <1>5, <1>6, <1>7, <1>8, <1>9, <1>10, JobSteps

\* The import's count of absences: a row is counted absent when the file lists
\* others and not it, which is what the history counts.
LEMMA SyncKeeps ==
  ASSUME MarketInv, NEW j \in MarketJobs, sync_missing_from_source_counts(j)
  PROVE  MarketInv'
<1> DEFINE job == doing[j]
           some == job.listed # {} \/ job.others
           counted(t) == CASE t \notin There -> tender[t]
                           [] t \in There \cap job.listed -> [tender[t] EXCEPT !.missing = 0]
                           [] OTHER -> [tender[t] EXCEPT !.missing = More(@)]
           away(t) == CASE t \in job.listed -> 0
                        [] t \in There \ job.listed /\ some -> More(absent[t])
                        [] OTHER -> absent[t]
           new(t) == IF some THEN counted(t) ELSE tender[t]
<1>1. job.at = "sync" /\ JobFits(job, tender, reason)
  BY DEF sync_missing_from_source_counts, MarketInv
<1>2. /\ \A t \in Tracked : tender'[t] = new(t)
      /\ \A t \in Tracked : absent'[t] = away(t)
      /\ tender' \in [Tracked -> {new(t) : t \in Tracked}]
      /\ absent' \in [Tracked -> {away(t) : t \in Tracked}]
  <2>1. tender' = IF some THEN [t \in Tracked |-> counted(t)] ELSE tender
    BY Zenon DEF sync_missing_from_source_counts, anything_scraped
  <2>2. absent' = [t \in Tracked |-> away(t)]
    BY Zenon DEF sync_missing_from_source_counts
  <2> HIDE DEF counted, away, some
  <2>3. tender = [t \in Tracked |-> tender[t]]
    BY DEF MarketInv, MarketTypeOK
  <2> QED BY <2>1, <2>2, <2>3
<1>3. reason' = reason \cup {t \in Tracked : absent'[t] = Enough} /\ UNCHANGED <<started, day>>
  BY Zenon DEF sync_missing_from_source_counts
<1>4. ASSUME NEW t \in Tracked
      PROVE  /\ t \notin There => counted(t) = tender[t]
             /\ t \in There \cap job.listed => counted(t) = [tender[t] EXCEPT !.missing = 0]
             /\ t \in There \ job.listed => counted(t) = [tender[t] EXCEPT !.missing = More(@)]
             /\ t \in job.listed => away(t) = 0
             /\ t \in There \ job.listed /\ some => away(t) = More(absent[t])
             /\ t \notin job.listed /\ ~(t \in There /\ some) => away(t) = absent[t]
  <2>1. t \notin There => counted(t) = tender[t]
    BY Zenon
  <2>2. t \in There \cap job.listed => counted(t) = [tender[t] EXCEPT !.missing = 0]
    BY Zenon
  <2>3. t \in There \ job.listed => counted(t) = [tender[t] EXCEPT !.missing = More(@)]
    BY Zenon
  <2>4. t \in job.listed => away(t) = 0
    BY Zenon
  <2>5. t \in There \ job.listed /\ some => away(t) = More(absent[t])
    BY Zenon
  <2>6. t \notin job.listed /\ ~(t \in There /\ some) => away(t) = absent[t]
    BY Zenon
  <2> HIDE DEF counted, away
  <2> QED BY <2>1, <2>2, <2>3, <2>4, <2>5, <2>6
<1> HIDE DEF counted, away
<1>5. ASSUME NEW t \in Tracked
      PROVE  /\ away(t) \in 0..Enough
             /\ t \notin There => new(t) = NoTender
             /\ t \in There =>
                  /\ TenderFits(new(t)) /\ new(t).is_open = tender[t].is_open
                  /\ new(t).closing_at = tender[t].closing_at
                  /\ new(t).missing <= away(t)
  <2>1. /\ absent[t] \in 0..Enough
        /\ t \notin There => tender[t] = NoTender
    BY RowsThere
  <2>2. away(t) \in 0..Enough
    BY <1>4, <2>1 DEF More, Enough
  <2>3. CASE t \notin There
    BY <1>4, <2>1, <2>2, <2>3
  <2>4. CASE t \in There
    <3>1. /\ TenderFits(tender[t]) /\ tender[t].missing \in 0..Enough /\ tender[t].missing <= absent[t]
      BY <2>4, RowsThere DEF MarketInv, TenderTableFits
    <3>2. CASE ~some
      BY <1>4, <2>2, <2>4, <3>1, <3>2
    <3>3. CASE some /\ t \in job.listed
      <4>1. new(t) = [tender[t] EXCEPT !.missing = 0] /\ away(t) = 0
        BY <1>4, <2>4, <3>3
      <4> QED BY <2>2, <2>4, <3>1, <4>1 DEF TenderFits, TenderRow, Enough
    <3>4. CASE some /\ t \notin job.listed
      <4>1. new(t) = [tender[t] EXCEPT !.missing = More(tender[t].missing)] /\ away(t) = More(absent[t])
        BY <1>4, <2>4, <3>4
      <4>2. More(tender[t].missing) \in 0..Enough /\ More(tender[t].missing) <= More(absent[t])
        BY <2>1, <3>1 DEF More, Enough
      <4> QED BY <2>2, <2>4, <3>1, <4>1, <4>2 DEF TenderFits, TenderRow
    <3> QED BY <3>2, <3>3, <3>4
  <2> QED BY <2>3, <2>4
<1> HIDE DEF new, some
<1>6. \A t \in Tracked : t \in There <=> tender[t] # NoTender
  BY DEF There
<1>7. /\ tender' \in [Tracked -> TenderRow \cup {NoTender}] /\ NothingReturns
      /\ absent' \in [Tracked -> 0..Enough] /\ reason' \subseteq Tracked
  <2>1. \A t \in Tracked : new(t) \in TenderRow \cup {NoTender} /\ away(t) \in 0..Enough
    BY <1>5 DEF TenderFits
  <2>2. reason' \subseteq Tracked /\ reason \subseteq reason'
    BY <1>3 DEF MarketInv, MarketTypeOK
  <2>3. \A t \in Tracked : tender[t] # NoTender =>
          tender'[t] # NoTender /\ (~tender[t].is_open => ~tender'[t].is_open)
    BY <1>2, <1>5, <1>6, NoTenderIsNoRow
  <2> QED BY <1>2, <2>1, <2>2, <2>3 DEF NothingReturns
<1>8. TenderTableFits'
  <2> SUFFICES ASSUME NEW t \in Tracked
               PROVE  /\ away(t) = Enough => t \in reason'
                      /\ new(t) # NoTender =>
                           /\ TenderFits(new(t))
                           /\ ~new(t).is_open => t \in reason'
                           /\ new(t).closing_at # NoDay /\ new(t).closing_at <= day => t \in reason'
                           /\ new(t).missing <= away(t)
    BY <1>2, <1>3 DEF TenderTableFits
  <2>1. CASE t \notin There
    BY <1>2, <1>3, <1>5, <2>1
  <2>2. CASE t \in There
    BY <1>2, <1>3, <1>5, <1>6, <2>2 DEF MarketInv, TenderTableFits
  <2> QED BY <2>1, <2>2
<1>9. Does(j, [job EXCEPT !.at = "dates"])
  BY Zenon DEF sync_missing_from_source_counts
<1>10. /\ [job EXCEPT !.at = "dates"].at \in JobStages
       /\ JobFits([job EXCEPT !.at = "dates"], tender', reason')
  BY <1>1, ImportGoesOn
<1>11. started' \in 0..MaxMarket
  BY <1>3 DEF MarketInv, MarketTypeOK
<1> QED BY <1>3, <1>7, <1>8, <1>9, <1>10, <1>11, JobSteps

\* What a job decided on the rows it loaded is flushed over the rows there are.
LEMMA CommitRowsKeeps ==
  ASSUME MarketInv, NEW j \in MarketJobs, CommitRows(j)
  PROVE  MarketInv'
<1> DEFINE job == doing[j]
           decided(t, matched) ==
             CASE job.at = "closing" -> Dated(job.seen[t])
               [] job.at = "resolve" -> Resolved(job.seen[t], job.now)
               [] job.at = "reconcile" /\ t \in matched -> Awarded(job.seen[t])
               [] OTHER -> job.seen[t]
<1>1. /\ job.at \in {"closing", "resolve", "reconcile"} /\ job.rows \subseteq Tracked
      /\ job.now \in Nat /\ LoadFits(job, tender, reason)
  BY DEF CommitRows, MarketInv, JobFits
<1>2. PICK matched \in SUBSET job.rows :
        tender' = [t \in Tracked |-> IF t \in job.rows
                                     THEN Flush(tender[t], job.seen[t], decided(t, matched))
                                     ELSE tender[t]]
  <2>1. ASSUME NEW matched, NEW m \in IF job.at = "reconcile" THEN SUBSET job.rows ELSE {{}}
        PROVE  m \in SUBSET job.rows
    OBVIOUS
  <2> QED BY <2>1, Zenon DEF CommitRows
<1>3. \A t \in job.rows : RowMoves(job.seen[t], decided(t, matched), job.now)
  <2> TAKE t \in job.rows
  <2>1. TenderFits(job.seen[t])
    BY <1>1 DEF LoadFits
  <2>2. CASE job.at = "closing"
    <3>1. decided(t, matched) = Dated(job.seen[t])
      BY <2>2, Zenon
    <3> QED BY <2>1, <3>1, DatedMoves
  <2>3. CASE job.at = "resolve"
    <3>1. decided(t, matched) = Resolved(job.seen[t], job.now)
      BY <2>3, Zenon
    <3> QED BY <1>1, <2>1, <3>1, ResolvedMoves
  <2>4. CASE job.at = "reconcile" /\ t \in matched
    <3>1. decided(t, matched) = Awarded(job.seen[t])
      BY <2>4, Zenon
    <3> QED BY <2>1, <3>1, AwardedMoves
  <2>5. CASE job.at = "reconcile" /\ t \notin matched
    <3>1. decided(t, matched) = job.seen[t]
      BY <2>5, Zenon
    <3> QED BY <2>1, <3>1, Unmoved
  <2> QED BY <1>1, <2>2, <2>3, <2>4, <2>5
<1> HIDE DEF decided
<1>4. /\ reason' = reason \cup Due(tender', day) /\ Does(j, [at |-> "idle"])
      /\ UNCHANGED <<started, day, absent>>
  BY Zenon DEF CommitRows, Ends
<1>5. ASSUME NEW t \in job.rows
      PROVE  /\ tender[t] # NoTender /\ TenderFits(tender'[t])
             /\ tender'[t].missing = tender[t].missing
             /\ ~tender[t].is_open => ~tender'[t].is_open
             /\ tender[t].is_open /\ ~tender'[t].is_open => t \in reason
  <2> DEFINE seen == job.seen[t]
             new == decided(t, matched)
  <2>1. /\ tender[t] # NoTender /\ TenderFits(tender[t]) /\ TenderFits(seen)
        /\ ~seen.is_open => ~tender[t].is_open
        /\ Closes(seen, job.now) => t \in reason
    BY <1>1 DEF LoadFits, MarketInv, TenderTableFits
  <2>2. RowMoves(seen, new, job.now)
    BY <1>3
  <2>3. tender'[t] = Flush(tender[t], seen, new)
    BY <1>1, <1>2
  <2> HIDE DEF seen, new
  <2> QED BY <2>1, <2>2, <2>3, FlushFits
<1>6. \A t \in Tracked \ job.rows : tender'[t] = tender[t]
  BY <1>2
<1>7. /\ tender' \in [Tracked -> TenderRow \cup {NoTender}] /\ NothingReturns
      /\ reason' \subseteq Tracked
  <2>1. DOMAIN tender' = Tracked /\ tender' = [t \in Tracked |-> tender'[t]]
    BY <1>2
  <2>2. \A t \in Tracked : tender'[t] \in TenderRow \cup {NoTender}
    BY <1>5, <1>6 DEF TenderFits, MarketInv, MarketTypeOK
  <2>3. reason' \subseteq Tracked /\ reason \subseteq reason'
    BY <1>4 DEF Due, MarketInv, MarketTypeOK
  <2>4. \A t \in Tracked : tender[t] # NoTender =>
          tender'[t] # NoTender /\ (~tender[t].is_open => ~tender'[t].is_open)
    BY <1>5, <1>6, NoTenderIsNoRow
  <2> QED BY <2>1, <2>2, <2>3, <2>4 DEF NothingReturns
<1>8. TenderTableFits'
  <2> SUFFICES ASSUME NEW t \in Tracked
               PROVE  /\ absent[t] = Enough => t \in reason'
                      /\ tender'[t] # NoTender =>
                           /\ TenderFits(tender'[t])
                           /\ ~tender'[t].is_open => t \in reason'
                           /\ tender'[t].closing_at # NoDay /\ tender'[t].closing_at <= day => t \in reason'
                           /\ tender'[t].missing <= absent[t]
    BY <1>4 DEF TenderTableFits
  <2>1. tender'[t] # NoTender /\ tender'[t].closing_at # NoDay /\ tender'[t].closing_at <= day
          => t \in reason'
    BY <1>4 DEF Due
  <2>2. CASE t \in job.rows
    BY <1>4, <1>5, <2>1, <2>2 DEF MarketInv, TenderTableFits
  <2>3. CASE t \notin job.rows
    BY <1>4, <1>6, <2>1, <2>3 DEF MarketInv, TenderTableFits
  <2> QED BY <2>2, <2>3
<1>9. [at |-> "idle"].at \in JobStages /\ JobFits([at |-> "idle"], tender', reason')
  BY DEF JobStages, JobFits
<1>10. started' \in 0..MaxMarket /\ absent' \in [Tracked -> 0..Enough]
  BY <1>4 DEF MarketInv, MarketTypeOK
<1> QED BY <1>4, <1>7, <1>8, <1>9, <1>10, JobSteps

\* A day ends: what is due has a reason.
LEMMA MidnightKeeps == ASSUME MarketInv, Midnight PROVE MarketInv'
<1>1. day' \in 0..MaxDay
  BY MarketAssumption DEF Midnight, MarketInv, MarketTypeOK
<1>2. reason' \subseteq Tracked /\ reason \subseteq reason' /\ UNCHANGED <<tender, doing, started, absent>>
  BY DEF Midnight, Due, MarketInv, MarketTypeOK
<1>3. \A j \in MarketJobs : JobFits(doing[j], tender, reason')
  BY <1>2 DEF MarketInv, JobFits, LoadFits
<1>4. TenderTableFits'
  BY <1>2 DEF Midnight, Due, MarketInv, TenderTableFits
<1> QED BY <1>1, <1>2, <1>3, <1>4 DEF MarketInv, MarketTypeOK

\* One step of any job, or the next day.
LEMMA MarketInvStep == ASSUME MarketInv, [MarketNext]_marketVars PROVE MarketInv'
<1>1. ASSUME NEW j \in MarketJobs, JobBreaks(j) PROVE MarketInv'
  <2>1. [at |-> "idle"].at \in JobStages /\ JobFits([at |-> "idle"], tender, reason)
    BY DEF JobStages, JobFits
  <2>2. started' \in 0..MaxMarket
    BY <1>1 DEF JobBreaks, MarketInv, MarketTypeOK
  <2> QED BY <1>1, <2>1, <2>2, JobMoves DEF JobBreaks, Ends
<1>2. CASE UNCHANGED marketVars
  BY <1>2 DEF marketVars, MarketInv, MarketTypeOK, TenderTableFits
<1> QED BY <1>1, <1>2, LoadsKeep, TenderUpsertKeeps, SyncKeeps, CommitRowsKeeps, MidnightKeeps DEF MarketNext

MarketSpec == MarketInit /\ [][MarketNext]_marketVars

\* The inductive invariant: whatever jobs overlap or break off, what each loaded
\* is a basis for what it writes.
THEOREM MarketInvariant == MarketSpec => []MarketInv
<1>1. ASSUME MarketInit PROVE MarketInv
  <2> DEFINE Goal ==
        /\ tender \in [Tracked -> TenderRow \cup {NoTender}] /\ absent \in [Tracked -> 0..Enough]
        /\ \A t \in Tracked :
             /\ absent[t] # Enough
             /\ tender[t] # NoTender =>
                  TenderFits(tender[t]) /\ tender[t].is_open /\ tender[t].missing = absent[t]
  <2>1. Goal
    <3> DEFINE Left(n, date) ==
                 /\ absent = [t \in Tracked |-> n]
                 /\ tender = [t \in Tracked |->
                      [NewTender(date) EXCEPT !.closing_at = date, !.missing = n]]
    <3>1. ASSUME NEW n \in 0..Enough - 1, NEW date \in Dates, Left(n, date)
          PROVE  Goal
      <4>1. n \in 0..Enough /\ n # Enough
        BY DEF Enough
      <4> DEFINE row == [NewTender(date) EXCEPT !.closing_at = date, !.missing = n]
      <4>2. TenderFits(row) /\ row.is_open /\ row.missing = n /\ row \in TenderRow
        BY <4>1 DEF NewTender, TenderFits, TenderRow, OverStatuses
      <4> HIDE DEF row
      <4>3. tender = [t \in Tracked |-> row]
        BY <3>1 DEF row
      <4> QED BY <3>1, <4>1, <4>2, <4>3
    <3>2. ASSUME absent = [t \in Tracked |-> 0], tender = [t \in Tracked |-> NoTender]
          PROVE  Goal
      BY <3>2 DEF Enough
    <3>3. \/ \E n \in 0..Enough - 1, date \in Dates : Left(n, date)
          \/ absent = [t \in Tracked |-> 0] /\ tender = [t \in Tracked |-> NoTender]
      BY <1>1, Zenon DEF MarketInit
    <3> HIDE DEF Left, Goal
    <3> QED BY <3>1, <3>2, <3>3
  <2>2. /\ doing = [j \in MarketJobs |-> [at |-> "idle"]] /\ started = 0 /\ day = 0
        /\ reason = Due(tender, day)
    BY <1>1 DEF MarketInit
  <2>3. MarketTypeOK
    BY <2>1, <2>2, MarketAssumption DEF MarketTypeOK, Due
  <2>4. \A t \in Tracked : absent[t] \in 0..Enough
    BY <2>1
  <2>5. TenderTableFits
    BY <2>1, <2>2, <2>4 DEF TenderTableFits, Due
  <2>6. \A j \in MarketJobs : JobFits(doing[j], tender, reason)
    BY <2>2 DEF JobFits
  <2> QED BY <2>2, <2>3, <2>5, <2>6 DEF MarketInv
<1>2. MarketInv /\ [MarketNext]_marketVars => MarketInv'
  BY MarketInvStep
<1>3. QED
  BY <1>1, <1>2, PTL DEF MarketSpec

\* A tender leaves the market for a reason, and one that is over has left.
THEOREM LeavesForAReason == MarketSpec => []LeavesTheMarketForAReason
<1>1. MarketInv => LeavesTheMarketForAReason
  BY DEF MarketInv, TenderTableFits, TenderFits, OverStatuses, There, LeavesTheMarketForAReason
<1>2. QED
  BY <1>1, MarketInvariant, PTL

(***************************************************************************)
(*                              The match cache                              *)
(***************************************************************************)
Pairs == Tenders \cup {Marker}

\* A company has a row, of a tender or the marker.
HasRow(m, c) == \E t \in Pairs : m[c][t].row

\* The model is asked about architecture firms only.  The prescore is through
\* with companies that have a row, and neither is one of them on its list nor
\* the one it is at.
ScorerFits(s, m) ==
  s # Free =>
    /\ s.pc = "batch" => s.company \in Architecture
    /\ \A c \in s.done : HasRow(m, c)
    /\ s.listed \cap s.done = {}
    /\ s.pc \in {"pairs", "marker"} => s.company \notin s.listed

MatchInv ==
  /\ MatchTypeOK
  /\ ConstructionScoresAddUp
  /\ \A w \in Scorers : ScorerFits(scoring[w], matches)

\* Rows are written and never deleted.
RowsStay == \A c \in Companies, t \in Pairs : matches[c][t].row => matches'[c][t].row

Scorer ==
  [pc : {"pairs", "marker", "sync", "batch", "loop"}, company : Companies,
   todo : SUBSET Tenders, hits : SUBSET Tenders, profile : Profiles,
   written : SUBSET Tenders, prescore : BOOLEAN, listed : SUBSET Companies,
   done : SUBSET Companies]

\* A scorer that is not free is at work on a company.
LEMMA ScorerTypes ==
  /\ Scoring = {Free} \cup Scorer
  /\ Free \notin Scorer /\ Free.pc = "free"
  /\ \A s \in Scorer : s.pc # "free"
BY DEF Scoring, Scorer, Free

\* What a scorer is rid of or through with stays so while rows stay.
LEMMA OtherScorersFit ==
  ASSUME MatchInv, RowsStay, NEW w \in Scorers
  PROVE  ScorerFits(scoring[w], matches')
<1>1. scoring[w] \in {Free} \cup Scorer /\ ScorerFits(scoring[w], matches)
  BY ScorerTypes DEF MatchInv, MatchTypeOK
<1>2. CASE scoring[w] \in Scorer
  <2>1. scoring[w].done \subseteq Companies
    BY <1>2 DEF Scorer
  <2> QED BY <1>1, <2>1 DEF ScorerFits, RowsStay, HasRow
<1> QED BY <1>1, <1>2 DEF ScorerFits

\* A scorer moves on and writes nothing.
LEMMA ScorerMoves ==
  ASSUME MatchInv, NEW w \in Scorers, NEW s \in {Free} \cup Scorer, Has(w, s),
         UNCHANGED <<matches, profile>>, ScorerFits(s, matches)
  PROVE  MatchInv'
<1>1. MatchTypeOK'
  BY ScorerTypes DEF MatchInv, MatchTypeOK, Has
<1>2. \A v \in Scorers : ScorerFits(scoring'[v], matches')
  BY DEF MatchInv, MatchTypeOK, Has
<1> QED BY <1>1, <1>2 DEF MatchInv, ConstructionScoresAddUp

\* A scorer moves on and rows are written, none taken away.
LEMMA ScorerWrites ==
  ASSUME MatchInv, NEW w \in Scorers, NEW s \in {Free} \cup Scorer, Has(w, s),
         UNCHANGED profile, matches' \in [Companies -> [Pairs -> TenderMatch]],
         RowsStay, ConstructionScoresAddUp', ScorerFits(s, matches')
  PROVE  MatchInv'
<1>1. MatchTypeOK'
  BY ScorerTypes DEF MatchInv, MatchTypeOK, Has, Pairs
<1>2. \A v \in Scorers : ScorerFits(scoring'[v], matches')
  BY OtherScorersFit DEF MatchInv, MatchTypeOK, Has
<1> QED BY <1>1, <1>2 DEF MatchInv

\* A row that is written has a score and the sum of a breakdown.
LEMMA UpsertTypes ==
  ASSUME NEW row \in TenderMatch, NEW score \in 0..MaxProfile + 1, NEW sum \in 0..MaxProfile
  PROVE  /\ _upsert_tender_match(row, score, sum) \in TenderMatch
         /\ _upsert_tender_match(row, score, sum).row
         /\ _upsert_tender_match(row, score, sum).score = score
         /\ _upsert_tender_match(row, score, sum).sum = IF sum > 0 THEN sum ELSE row.sum
BY DEF _upsert_tender_match, TenderMatch

\* One pair is written; the score of a construction company with its breakdown.
LEMMA PairWritten ==
  ASSUME MatchInv, NEW c \in Companies, NEW t \in Pairs, NEW score \in 0..MaxProfile + 1,
         NEW sum \in 0..MaxProfile, Scored(c, t, score, sum),
         c \in Construction /\ t \in Tenders => sum > 0 /\ score = sum
  PROVE  /\ matches' \in [Companies -> [Pairs -> TenderMatch]] /\ RowsStay
         /\ ConstructionScoresAddUp' /\ HasRow(matches', c)
<1> DEFINE new == _upsert_tender_match(matches[c][t], score, sum)
<1>1. /\ matches \in [Companies -> [Pairs -> TenderMatch]]
      /\ matches[c][t] \in TenderMatch
  BY DEF MatchInv, MatchTypeOK, Pairs
<1>2. /\ new \in TenderMatch /\ new.row /\ new.score = score
      /\ new.sum = IF sum > 0 THEN sum ELSE matches[c][t].sum
  BY <1>1, UpsertTypes
<1>3. matches' = [matches EXCEPT ![c][t] = new]
  BY DEF Scored
<1> HIDE DEF new
<1>4. \A d \in Companies, u \in Pairs :
        matches'[d][u] = IF d = c /\ u = t THEN new ELSE matches[d][u]
  BY <1>1, <1>3
<1>5. ConstructionScoresAddUp'
  BY <1>1, <1>2, <1>4 DEF MatchInv, ConstructionScoresAddUp, Companies, Pairs
<1> QED BY <1>1, <1>2, <1>3, <1>4, <1>5 DEF RowsStay, HasRow

\* A scorer's record: where it is, its company, and the prescore's two lists.
Record(s, pc, c, listed, done) ==
  s \in Scorer /\ s.pc = pc /\ s.company = c /\ s.listed = listed /\ s.done = done

\* What a scorer starts with.
LEMMA LoadedTypes ==
  ASSUME MatchInv, NEW c \in Companies, NEW todo, todo \subseteq Tenders,
         NEW listed, listed \subseteq Companies, NEW done, done \subseteq Companies
  PROVE  /\ Record(Loaded(c, todo, TRUE, listed, done), "pairs", c, listed, done)
         /\ Record(Loaded(c, todo, FALSE, listed, done), "pairs", c, listed, done)
BY DEF Record, Loaded, Scorer, load_fresh, MatchInv, MatchTypeOK

\* It goes on elsewhere.
LEMMA ElsewhereTypes ==
  ASSUME NEW s \in Scorer, NEW pc \in {"pairs", "marker", "sync", "batch", "loop"}
  PROVE  /\ Record([s EXCEPT !.pc = pc], pc, s.company, s.listed, s.done)
         /\ Record([s EXCEPT !.pc = pc, !.hits = {}], pc, s.company, s.listed, s.done)
BY DEF Record, Scorer

\* JobStages work: the scorer's record.
LEMMA JobAtWork ==
  ASSUME MatchInv, NEW w \in Scorers, scoring[w].pc # "free"
  PROVE  scoring[w] \in Scorer /\ scoring[w] # Free /\ ScorerFits(scoring[w], matches)
BY ScorerTypes DEF MatchInv, MatchTypeOK

-----------------------------------------------------------------------------

\* Requests, tasks and scripts start.
LEMMA StartsKeep ==
  ASSUME MatchInv, NEW w \in Scorers, NEW c \in Companies, NEW candidates \in SUBSET Tenders,
         Discover(w, c, candidates) \/ StartBatch(w, c, candidates) \/ StartSync(w, c)
  PROVE  MatchInv'
<1> DEFINE job(todo) == Loaded(c, todo, FALSE, {}, {})
<1>a. \A todo \in SUBSET Tenders : Record(job(todo), "pairs", c, {}, {})
  BY LoadedTypes
<1>b. \A todo \in SUBSET Tenders, pc \in {"sync", "batch"} :
        Record([job(todo) EXCEPT !.pc = pc, !.hits = {}], pc, c, {}, {})
  <2>1. ASSUME NEW todo \in SUBSET Tenders, NEW pc \in {"sync", "batch"}
        PROVE  Record([job(todo) EXCEPT !.pc = pc, !.hits = {}], pc, c, {}, {})
    <3> DEFINE s == job(todo)
    <3>1. Record(s, "pairs", c, {}, {})
      BY <1>a
    <3> HIDE DEF s
    <3>2. Record([s EXCEPT !.pc = pc, !.hits = {}], pc, s.company, s.listed, s.done)
      <4>1. s \in Scorer /\ pc \in {"pairs", "marker", "sync", "batch", "loop"}
        BY <3>1 DEF Record
      <4> QED BY <4>1, ElsewhereTypes
    <3>3. Record([s EXCEPT !.pc = pc, !.hits = {}], pc, c, {}, {})
      BY <3>1, <3>2 DEF Record
    <3> QED BY <3>3 DEF s
  <2> QED BY <2>1
<1>c. Tenders \in SUBSET Tenders
  OBVIOUS
<1>d. ASSUME NEW s, NEW pc, Record(s, pc, c, {}, {}), Has(w, s), pc = "batch" => c \in Architecture,
             UNCHANGED <<matches, profile>>
      PROVE  MatchInv'
  <2>1. s \in {Free} \cup Scorer /\ ScorerFits(s, matches)
    BY <1>d DEF Record, ScorerFits
  <2> QED BY <1>d, <2>1, ScorerMoves
<1> HIDE DEF job
<1>1. CASE Discover(w, c, candidates)
  <2>1. Has(w, job(candidates)) /\ UNCHANGED <<matches, profile>>
    BY <1>1 DEF Discover, job
  <2> QED BY <2>1, <1>a, <1>d
<1>2. CASE StartBatch(w, c, candidates)
  <2>1. /\ Has(w, [job(candidates) EXCEPT !.pc = "batch", !.hits = {}])
        /\ UNCHANGED <<matches, profile>> /\ c \in Architecture
    BY <1>2 DEF StartBatch, job
  <2>2. Record([job(candidates) EXCEPT !.pc = "batch", !.hits = {}], "batch", c, {}, {})
    BY <1>b
  <2> QED BY <2>1, <2>2, <1>d
<1>3. CASE StartSync(w, c)
  <2>1. /\ Has(w, [job(Tenders) EXCEPT !.pc = "sync", !.hits = {}])
        /\ UNCHANGED <<matches, profile>>
    BY <1>3 DEF StartSync, job
  <2>2. Record([job(Tenders) EXCEPT !.pc = "sync", !.hits = {}], "sync", c, {}, {})
    BY <1>b, <1>c
  <2> QED BY <2>1, <2>2, <1>d
<1> QED BY <1>1, <1>2, <1>3

\* A candidate is passed over or scored.
LEMMA ScorePairKeeps ==
  ASSUME MatchInv, NEW w \in Scorers, NEW t \in Tenders, ScorePair(w, t)
  PROVE  MatchInv'
<1> DEFINE s == scoring[w]
<1>1. s \in Scorer /\ s # Free /\ ScorerFits(s, matches) /\ s.pc = "pairs"
  BY JobAtWork DEF ScorePair
<1> DEFINE passed == [s EXCEPT !.todo = @ \ {t}]
           done == [s EXCEPT !.todo = @ \ {t}, !.written = @ \cup {t}]
           Alike(x) == /\ x \in Scorer /\ x.pc = s.pc /\ x.company = s.company
                       /\ x.listed = s.listed /\ x.done = s.done
<1>2. Alike(passed)
  BY <1>1 DEF Scorer
<1>3. Alike(done)
  BY <1>1 DEF Scorer
<1>4. ASSUME NEW x, Alike(x), Has(w, x) PROVE MatchInv'
  <2>1. x \in {Free} \cup Scorer /\ ScorerFits(x, matches)
    BY <1>1, <1>4 DEF ScorerFits
  <2> QED BY <1>4, <2>1, ScorerMoves DEF ScorePair
<1>5. Has(w, passed) \/ Has(w, done)
  BY DEF ScorePair
<1> HIDE DEF passed, done, Alike
<1> QED BY <1>2, <1>3, <1>4, <1>5

\* What a request or the prescore has written of a company is committed.
LEMMA CommitPairsKeeps ==
  ASSUME MatchInv, NEW w \in Scorers, CommitPairs(w)
  PROVE  MatchInv'
<1> DEFINE s == scoring[w]
           new(t) == IF t \in s.written THEN _upsert_tender_match(matches[s.company][t], s.profile, s.profile)
                     ELSE matches[s.company][t]
           x == IF s.prescore THEN [s EXCEPT !.pc = "marker", !.written = {}] ELSE Free
<1>1. /\ s \in Scorer /\ s # Free /\ ScorerFits(s, matches) /\ s.pc = "pairs"
      /\ s.company \in Companies /\ s.profile \in 1..MaxProfile /\ s.written \subseteq Tenders
  BY JobAtWork DEF CommitPairs, Scorer, Profiles
<1>2. matches \in [Companies -> [Pairs -> TenderMatch]]
  BY DEF MatchInv, MatchTypeOK, Pairs
<1>3. \A t \in Pairs :
        /\ new(t) \in TenderMatch /\ (matches[s.company][t].row => new(t).row)
        /\ new(t) = matches[s.company][t] \/ new(t).score = new(t).sum
  <2> SUFFICES ASSUME NEW t \in Pairs
               PROVE  /\ new(t) \in TenderMatch /\ (matches[s.company][t].row => new(t).row)
                      /\ new(t) = matches[s.company][t] \/ new(t).score = new(t).sum
    OBVIOUS
  <2>1. matches[s.company][t] \in TenderMatch
    BY <1>1, <1>2
  <2>2. s.profile \in 0..MaxProfile + 1 /\ s.profile \in 0..MaxProfile /\ s.profile > 0
    BY <1>1, MatchAssumption
  <2>3. CASE t \in s.written
    <3> DEFINE up == _upsert_tender_match(matches[s.company][t], s.profile, s.profile)
    <3>1. up \in TenderMatch /\ up.row /\ up.score = s.profile /\ up.sum = s.profile
      BY <2>1, <2>2, UpsertTypes
    <3> HIDE DEF up
    <3> QED BY <2>3, <3>1 DEF up
  <2>4. CASE t \notin s.written
    BY <2>1, <2>4
  <2> QED BY <2>3, <2>4
<1>4. matches' = [matches EXCEPT ![s.company] = [t \in Pairs |-> new(t)]]
  BY <1>1, <1>2 DEF CommitPairs
<1> HIDE DEF new
<1>5. \A c \in Companies, t \in Pairs :
        matches'[c][t] = IF c = s.company THEN new(t) ELSE matches[c][t]
  BY <1>2, <1>4
<1>6. matches' \in [Companies -> [Pairs -> TenderMatch]] /\ RowsStay
  BY <1>1, <1>2, <1>3, <1>4, <1>5 DEF RowsStay
<1>7. ConstructionScoresAddUp'
  BY <1>2, <1>3, <1>5 DEF MatchInv, ConstructionScoresAddUp, Companies, Pairs
<1>8. ScorerFits(s, matches')
  BY <1>6, OtherScorersFit
<1>9. x \in {Free} \cup Scorer /\ ScorerFits(x, matches')
  BY <1>1, <1>8 DEF Scorer, ScorerFits
<1>10. Has(w, x) /\ UNCHANGED profile
  BY DEF CommitPairs
<1> HIDE DEF x
<1> QED BY <1>6, <1>7, <1>9, <1>10, ScorerWrites

\* The prescore lists companies without a row.
LEMMA ListPendingKeeps ==
  ASSUME MatchInv, NEW w \in Scorers, ListPending(w)
  PROVE  MatchInv'
<1> DEFINE done == IF scoring[w] = Free THEN {} ELSE scoring[w].done
<1>1. done \subseteq Companies /\ \A c \in done : HasRow(matches, c)
  <2>1. CASE scoring[w] = Free
    BY <2>1
  <2>2. CASE scoring[w] # Free
    BY <2>2, JobAtWork, ScorerTypes DEF MatchInv, MatchTypeOK, Scorer, ScorerFits
  <2> QED BY <2>1, <2>2
<1> HIDE DEF done
<1>2. UNCHANGED <<matches, profile>>
  BY DEF ListPending
<1>3. CASE Has(w, Free)
  BY <1>2, <1>3, ScorerMoves DEF ScorerFits
<1>4. ASSUME NEW batch \in SUBSET Pending, NEW c \in batch,
             Has(w, [Loaded(c, {}, TRUE, batch, done) EXCEPT !.pc = "loop"])
      PROVE  MatchInv'
  <2> DEFINE s == [Loaded(c, {}, TRUE, batch, done) EXCEPT !.pc = "loop"]
  <2>1. batch \subseteq Companies /\ c \in Companies
    BY DEF Pending, Companies
  <2>a. Record(Loaded(c, {}, TRUE, batch, done), "pairs", c, batch, done)
    BY <1>1, <2>1, LoadedTypes
  <2>2. s \in Scorer /\ s.listed = batch /\ s.done = done /\ s.pc = "loop"
    BY <2>a, ElsewhereTypes DEF Record
  <2>3. \A d \in batch : ~HasRow(matches, d)
    <3>1. \A d \in Companies : DOMAIN matches[d] = Pairs
      BY DEF MatchInv, MatchTypeOK, Pairs
    <3> QED BY <2>1, <3>1 DEF Pending, HasMatches, HasRow
  <2>4. ScorerFits(s, matches)
    BY <1>1, <2>2, <2>3 DEF ScorerFits
  <2> HIDE DEF s
  <2> QED BY <1>2, <1>4, <2>2, <2>4, ScorerMoves DEF s
<1> QED BY <1>3, <1>4 DEF ListPending, done

\* The next listed company, with its candidates.
LEMMA PrescoreKeeps ==
  ASSUME MatchInv, NEW w \in Scorers, NEW c \in Companies, NEW candidates \in SUBSET Tenders,
         Prescore(w, c, candidates)
  PROVE  MatchInv'
<1> DEFINE s == scoring[w]
           job == Loaded(c, candidates, TRUE, s.listed \ {c}, s.done)
           x == IF candidates = {} THEN [job EXCEPT !.pc = "marker"] ELSE job
<1>1. s \in Scorer /\ s # Free /\ ScorerFits(s, matches)
  BY JobAtWork DEF Prescore
<1>2. s.listed \ {c} \subseteq Companies /\ s.done \subseteq Companies
  BY <1>1 DEF Scorer
<1>3. /\ job \in Scorer /\ job.company = c /\ job.listed = s.listed \ {c} /\ job.done = s.done
      /\ job.pc = "pairs"
  <2> DEFINE rest == s.listed \ {c}
  <2>1. rest \subseteq Companies /\ s.done \subseteq Companies
    BY <1>2
  <2> HIDE DEF rest
  <2>2. Record(Loaded(c, candidates, TRUE, rest, s.done), "pairs", c, rest, s.done)
    BY <2>1, LoadedTypes
  <2> QED BY <2>2 DEF Record, rest
<1> HIDE DEF job
<1>4. /\ x \in Scorer /\ x.company = c /\ x.listed = s.listed \ {c} /\ x.done = s.done
      /\ x.pc \in {"pairs", "marker"}
  <2>1. Record([job EXCEPT !.pc = "marker"], "marker", job.company, job.listed, job.done)
    BY <1>3, ElsewhereTypes
  <2> QED BY <1>3, <2>1 DEF Record
<1>5. Has(w, x)
  BY DEF Prescore, job
<1> HIDE DEF x
<1>6. ScorerFits(x, matches)
  BY <1>1, <1>4 DEF ScorerFits
<1> QED BY <1>4, <1>5, <1>6, ScorerMoves DEF Prescore

\* A company that has got no row gets a marker.
LEMMA MarkKeeps ==
  ASSUME MatchInv, NEW w \in Scorers, Mark(w)
  PROVE  MatchInv'
<1> DEFINE s == scoring[w]
           x == [s EXCEPT !.pc = "loop", !.done = @ \cup {s.company}, !.hits = {}]
<1>1. s \in Scorer /\ s # Free /\ ScorerFits(s, matches) /\ s.pc = "marker" /\ s.company \in Companies
  BY JobAtWork DEF Mark, Scorer
<1>2. /\ x \in Scorer /\ x.listed = s.listed /\ x.done = s.done \cup {s.company} /\ x.pc = "loop"
      /\ Has(w, x)
  BY <1>1 DEF Mark, Scorer
<1> HIDE DEF x
<1>3. /\ matches' \in [Companies -> [Pairs -> TenderMatch]] /\ RowsStay
      /\ ConstructionScoresAddUp' /\ HasRow(matches', s.company)
  <2>1. CASE HasMatches(s.company)
    <3>1. UNCHANGED matches
      BY <2>1 DEF Mark
    <3> QED BY <1>1, <2>1, <3>1 DEF MatchInv, MatchTypeOK, Pairs, RowsStay, ConstructionScoresAddUp,
                 HasMatches, HasRow
  <2>2. CASE ~HasMatches(s.company)
    <3>1. Scored(s.company, Marker, 0, 0)
      BY <2>2 DEF Mark
    <3>2. 0 \in 0..MaxProfile + 1 /\ 0 \in 0..MaxProfile /\ Marker \in Pairs /\ Marker \notin Tenders
      BY MatchAssumption DEF Pairs
    <3> QED BY <1>1, <3>1, <3>2, PairWritten
  <2> QED BY <2>1, <2>2
<1>4. ScorerFits(s, matches')
  BY <1>3, OtherScorersFit
<1>5. ScorerFits(x, matches')
  BY <1>1, <1>2, <1>3, <1>4 DEF ScorerFits
<1> QED BY <1>2, <1>3, <1>5, ScorerWrites DEF Mark

\* A pair is scored and committed at once, or is a hit.
LEMMA SinglePairKeeps ==
  ASSUME MatchInv, NEW w \in Scorers, NEW t \in Tenders, SyncPair(w, t) \/ BatchPair(w, t)
  PROVE  MatchInv'
<1> DEFINE s == scoring[w]
           x == IF s.todo = {t} THEN Free ELSE [s EXCEPT !.todo = @ \ {t}]
<1>1. /\ s \in Scorer /\ s # Free /\ ScorerFits(s, matches) /\ s.company \in Companies
      /\ s.pc \in {"sync", "batch"} /\ s.profile \in 1..MaxProfile
  BY JobAtWork DEF SyncPair, BatchPair, Scorer, Profiles
<1>2. \A m : ScorerFits(s, m) => x \in {Free} \cup Scorer /\ ScorerFits(x, m)
  BY <1>1 DEF Scorer, ScorerFits
<1>3. Has(w, x) /\ UNCHANGED profile
  BY DEF SyncPair, BatchPair
<1> HIDE DEF x
<1>4. CASE UNCHANGED matches
  BY <1>1, <1>2, <1>3, <1>4, ScorerMoves
<1>5. ASSUME NEW score \in 0..MaxProfile + 1, NEW sum \in 0..MaxProfile, Scored(s.company, t, score, sum),
             s.company \in Construction => sum > 0 /\ score = sum
      PROVE  MatchInv'
  <2>1. /\ matches' \in [Companies -> [Pairs -> TenderMatch]] /\ RowsStay /\ ConstructionScoresAddUp'
    BY <1>1, <1>5, PairWritten DEF Pairs
  <2>2. ScorerFits(s, matches')
    BY <2>1, OtherScorersFit
  <2> QED BY <1>2, <1>3, <2>1, <2>2, ScorerWrites
<1>6. CASE SyncPair(w, t)
  <2>1. CASE Scored(s.company, t, s.profile, s.profile)
    <3>1. s.profile \in 0..MaxProfile + 1 /\ s.profile \in 0..MaxProfile /\ s.profile > 0
      BY <1>1, MatchAssumption
    <3> QED BY <1>5, <2>1, <3>1
  <2> QED BY <1>4, <1>6, <2>1 DEF SyncPair
<1>7. CASE BatchPair(w, t)
  <2>1. ASSUME NEW score \in ModelScores, Scored(s.company, t, score, 0) PROVE MatchInv'
    <3>1. score \in 0..MaxProfile + 1 /\ 0 \in 0..MaxProfile
      BY MatchAssumption DEF ModelScores
    <3>2. s.company \notin Construction
      BY <1>1, <1>7, MatchAssumption DEF BatchPair, ScorerFits
    <3> QED BY <1>5, <2>1, <3>1, <3>2
  <2> QED BY <1>4, <1>7, <2>1 DEF BatchPair
<1> QED BY <1>6, <1>7

\* Time passes and profiles change.
LEMMA EnvironmentKeeps ==
  ASSUME MatchInv, \/ \E c \in Companies, t \in Tenders : Expire(c, t)
                   \/ \E c \in Companies : ProfileChanges(c)
  PROVE  MatchInv'
<1>1. ASSUME NEW c \in Companies, NEW t \in Tenders, Expire(c, t) PROVE MatchInv'
  <2> DEFINE new == [matches[c][t] EXCEPT !.fresh = FALSE]
  <2>1. matches \in [Companies -> [Pairs -> TenderMatch]] /\ t \in Pairs
    BY DEF MatchInv, MatchTypeOK, Pairs
  <2>a. matches[c][t] \in TenderMatch
    BY <2>1
  <2>2. /\ new \in TenderMatch /\ new.row = matches[c][t].row /\ new.sum = matches[c][t].sum
        /\ new.score = matches[c][t].score
    BY <2>a DEF TenderMatch
  <2>3. matches' = [matches EXCEPT ![c][t] = new]
    BY <1>1 DEF Expire
  <2> HIDE DEF new
  <2>4. \A d \in Companies, u \in Pairs :
          matches'[d][u] = IF d = c /\ u = t THEN new ELSE matches[d][u]
    BY <2>1, <2>3
  <2>5. matches' \in [Companies -> [Pairs -> TenderMatch]] /\ RowsStay
    BY <2>1, <2>2, <2>3, <2>4 DEF RowsStay
  <2>6. ConstructionScoresAddUp'
    BY <2>2, <2>4 DEF MatchInv, ConstructionScoresAddUp, Companies, Pairs
  <2>7. \A w \in Scorers : ScorerFits(scoring[w], matches')
    BY <2>5, OtherScorersFit
  <2> QED BY <1>1, <2>5, <2>6, <2>7 DEF Expire, MatchInv, MatchTypeOK, Pairs
<1>2. ASSUME NEW c \in Companies, ProfileChanges(c) PROVE MatchInv'
  <2>1. profile[c] \in 1..MaxProfile /\ MaxProfile \in Nat
    BY MatchAssumption DEF MatchInv, MatchTypeOK, Profiles
  <2>2. profile[c] + 1 \in Profiles
    BY <1>2, <2>1 DEF ProfileChanges, Profiles
  <2>3. profile' = [profile EXCEPT ![c] = profile[c] + 1] /\ UNCHANGED <<matches, scoring>>
    BY <1>2 DEF ProfileChanges
  <2>4. MatchTypeOK'
    BY <2>2, <2>3 DEF MatchInv, MatchTypeOK
  <2> QED BY <2>3, <2>4 DEF MatchInv, ConstructionScoresAddUp
<1> QED BY <1>1, <1>2

\* One step of any scorer, or of the world.
LEMMA MatchInvStep ==
  ASSUME MatchInv, [MatchNext]_matchVars
  PROVE  MatchInv'
<1>1. ASSUME NEW w \in Scorers, ScorerFails(w) PROVE MatchInv'
  BY <1>1, ScorerMoves DEF ScorerFails, ScorerFits
<1>2. CASE UNCHANGED matchVars
  BY <1>2 DEF matchVars, MatchInv, MatchTypeOK, ConstructionScoresAddUp
<1> QED BY <1>1, <1>2, StartsKeep, ScorePairKeeps, CommitPairsKeeps, ListPendingKeeps, PrescoreKeeps,
           MarkKeeps, SinglePairKeeps, EnvironmentKeeps DEF MatchNext

MatchSpec == MatchInit /\ [][MatchNext]_matchVars

\* The inductive invariant.
THEOREM MatchInvariant == MatchSpec => []MatchInv
<1>1. MatchInit => MatchInv
  BY MatchAssumption DEF MatchInit, MatchInv, MatchTypeOK, NoMatch, TenderMatch, Profiles, Scoring,
     ConstructionScoresAddUp, ScorerFits, Companies
<1>2. MatchInv /\ [MatchNext]_matchVars => MatchInv'
  BY MatchInvStep
<1>3. QED
  BY <1>1, <1>2, PTL DEF MatchSpec

\* A score shown with a breakdown is its sum.
THEOREM ScoresAddUp == MatchSpec => []ConstructionScoresAddUp
<1>1. MatchInv => ConstructionScoresAddUp
  BY DEF MatchInv
<1>2. QED
  BY <1>1, MatchInvariant, PTL

\* The prescore takes up no company twice.
THEOREM EachPrescoredOnce == MatchSpec => []PrescoredOnce
<1>1. MatchInv => PrescoredOnce
  BY ScorerTypes DEF MatchInv, ScorerFits, PrescoredOnce
<1>2. QED
  BY <1>1, MatchInvariant, PTL
===============================================================================
