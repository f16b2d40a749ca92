------------------------------ MODULE TenderMarket ------------------------------
(***************************************************************************)
(* Which tenders are on the open market: the import of a source's CSV file *)
(* (db/import_csv.py, tender_presence.py, closing_at_sync.py), the nightly *)
(* lifecycle resolver and the award reconciler after it (src/pipeline/     *)
(* lifecycle_resolver.py, awards_reconciler.py), of one tenders table.     *)
(*                                                                         *)
(* Nothing keeps these jobs apart.  An import commits its upsert, its      *)
(* count of absences and its closing dates one after the other; the others *)
(* load every row, decide, and write the columns they changed.             *)
(*                                                                         *)
(* Nobody but an operator sets lifecycle_status_override: it is NULL here. *)
(* Whether an award matches a tender depends on texts and is left open.    *)
(***************************************************************************)
EXTENDS Naturals, FiniteSets

CONSTANTS
  Tracked,    \* tenders, by url
  MarketJobs, \* requests and background tasks
  Days,       \* days deadlines fall on
  NoDay,      \* NULL, or a deadline that does not parse
  Window,     \* CLOSING_SOON_WINDOW
  MaxDay,     \* bound: days that pass, for TLC
  MaxMarket   \* bound: jobs started, for TLC

ASSUME MarketAssumption ==
  /\ Days \subseteq Nat /\ NoDay \notin Days
  /\ {Window, MaxDay, MaxMarket} \subseteq Nat

VARIABLES
  tender,     \* the rows of the table, NoTender for one there is not
  doing,      \* what each job is doing
  started,    \* jobs started
  day,
  absent,     \* history: imports in a row that listed others and not this one
  reason      \* history: tenders due, or absent from three imports in a row

marketVars == <<tender, doing, started, day, absent, reason>>

Dates == Days \cup {NoDay}
Enough == 3

\* deadline is the source's text as it parses; missing counts up to Enough.
TenderRow == [deadline : Dates, closing_at : Dates, is_open : BOOLEAN, missing : 0..Enough,
              status : {"active", "closing_soon", "closed", "delisted", "awarded"}]
NoTender == [status |-> "none"]
There == {t \in Tracked : tender[t] # NoTender}

NewTender(date) == [deadline |-> date, closing_at |-> NoDay, is_open |-> TRUE,
                    missing |-> 0, status |-> "active"]

Due(rows, now) ==
  {t \in Tracked : rows[t] # NoTender /\ rows[t].closing_at # NoDay /\ rows[t].closing_at <= now}

\* Rows as earlier imports left them.
MarketInit ==
  /\ \/ \E n \in 0..Enough - 1, date \in Dates :
          /\ absent = [t \in Tracked |-> n]
          /\ tender = [t \in Tracked |-> [NewTender(date) EXCEPT !.closing_at = date, !.missing = n]]
     \/ absent = [t \in Tracked |-> 0] /\ tender = [t \in Tracked |-> NoTender]
  /\ doing = [j \in MarketJobs |-> [at |-> "idle"]]
  /\ started = 0 /\ day = 0
  /\ reason = Due(tender, day)

Does(j, what) == doing' = [doing EXCEPT ![j] = what]
Ends(j) == Does(j, [at |-> "idle"])

StartsJob(j, what) ==
  /\ doing[j].at = "idle" /\ started < MaxMarket
  /\ started' = started + 1
  /\ Does(j, what)
  /\ UNCHANGED <<tender, day, absent, reason>>

-----------------------------------------------------------------------------
(* import_tenders *)

\* The file lists some of the tenders and perhaps others.
ReadCsv(j) ==
  \E listed \in SUBSET Tracked, others \in BOOLEAN : \E dates \in [listed -> Dates] :
    StartsJob(j, [at |-> "upsert", listed |-> listed, others |-> others, dates |-> dates])

\* LIFECYCLE_IMPORT_SKIP_COLUMNS stay as they are.
upsert_with_presence(j) ==
  LET job == doing[j] IN
  /\ job.at = "upsert"
  /\ tender' = [t \in Tracked |->
       CASE t \notin job.listed -> tender[t]
         [] t \in job.listed \ There -> NewTender(job.dates[t])
         [] OTHER -> [tender[t] EXCEPT !.deadline = job.dates[t]]]
  /\ Does(j, [job EXCEPT !.at = "sync"])
  /\ UNCHANGED <<started, day, absent, reason>>

\* Bug: every tender is absent from a file without rows.
anything_scraped_unasked(job) == TRUE

\* if not scraped_urls: return
anything_scraped(job) == job.listed # {} \/ job.others

More(n) == IF n < Enough THEN n + 1 ELSE n

sync_missing_from_source_counts(j) ==
  LET job == doing[j]
      counted == [t \in Tracked |-> CASE t \notin There -> tender[t]
                    [] t \in There \cap job.listed -> [tender[t] EXCEPT !.missing = 0]
                    [] OTHER -> [tender[t] EXCEPT !.missing = More(@)]]
  IN /\ job.at = "sync"
     /\ tender' = IF anything_scraped(job) THEN counted ELSE tender
     /\ absent' = [t \in Tracked |-> CASE t \in job.listed -> 0
                     [] t \in There \ job.listed /\ (job.listed # {} \/ job.others) -> More(absent[t])
                     [] OTHER -> absent[t]]
     /\ reason' = reason \cup {t \in Tracked : absent'[t] = Enough}
     /\ Does(j, [job EXCEPT !.at = "dates"])
     /\ UNCHANGED <<started, day>>

-----------------------------------------------------------------------------
(* The jobs that load rows and write what they changed of them. *)

LoadedRows(what, rows) == [at |-> what, rows |-> rows \cap There, seen |-> tender, now |-> day]

\* The last part of the import, of the rows listed; of all rows when none is.
LoadDates(j) ==
  /\ doing[j].at = "dates"
  /\ Does(j, LoadedRows("closing", IF doing[j].listed = {} THEN Tracked ELSE doing[j].listed))
  /\ UNCHANGED <<tender, started, day, absent, reason>>

\* backfill_all_tender_closing_at, resolve_tender_lifecycle and reconcile_awards.
LoadRowsOf(j) ==
  \/ StartsJob(j, LoadedRows("closing", {t \in There : tender[t].closing_at = NoDay}))
  \/ StartsJob(j, LoadedRows("resolve", Tracked))
  \/ StartsJob(j, LoadedRows("reconcile", Tracked))

\* sync_closing_at_from_deadline
Dated(row) == IF row.deadline = NoDay THEN row ELSE [row EXCEPT !.closing_at = row.deadline]

\* evaluate_ and apply_lifecycle_transition
Resolved(row, now) ==
  LET dated == row.closing_at # NoDay
  IN CASE row.status = "awarded" -> row
       [] row.status # "awarded" /\ dated /\ row.closing_at <= now ->
            [row EXCEPT !.status = "closed", !.is_open = FALSE]
       [] row.status = "active" /\ dated /\ row.closing_at > now /\ row.closing_at <= now + Window ->
            [row EXCEPT !.status = "closing_soon", !.is_open = TRUE]
       [] row.status # "awarded" /\ ~dated /\ row.missing >= Enough ->
            [row EXCEPT !.status = "delisted", !.is_open = FALSE]
       [] OTHER -> row

Awarded(row) == IF row.status = "closed" THEN [row EXCEPT !.status = "awarded", !.is_open = FALSE] ELSE row

\* The flush writes the columns that differ from what was loaded.
Flush(row, seen, new) == [k \in DOMAIN row |-> IF new[k] = seen[k] THEN row[k] ELSE new[k]]

CommitRows(j) ==
  LET job == doing[j] IN
  /\ job.at \in {"closing", "resolve", "reconcile"}
  /\ \E matched \in IF job.at = "reconcile" THEN SUBSET job.rows ELSE {{}} :
       LET new(t) == CASE job.at = "closing" -> Dated(job.seen[t])
                       [] job.at = "resolve" -> Resolved(job.seen[t], job.now)
                       [] job.at = "reconcile" /\ t \in matched -> Awarded(job.seen[t])
                       [] OTHER -> job.seen[t]
       IN tender' = [t \in Tracked |-> IF t \in job.rows THEN Flush(tender[t], job.seen[t], new(t))
                                                       ELSE tender[t]]
  /\ reason' = reason \cup Due(tender', day)
  /\ Ends(j)
  /\ UNCHANGED <<started, day, absent>>

-----------------------------------------------------------------------------

\* What a job has not committed is rolled back.
JobBreaks(j) ==
  /\ doing[j].at # "idle" /\ Ends(j)
  /\ UNCHANGED <<tender, started, day, absent, reason>>

Midnight ==
  /\ day < MaxDay /\ day' = day + 1
  /\ reason' = reason \cup Due(tender, day')
  /\ UNCHANGED <<tender, doing, started, absent>>

MarketNext ==
  \/ \E j \in MarketJobs :
       \/ ReadCsv(j) \/ upsert_with_presence(j) \/ sync_missing_from_source_counts(j)
       \/ LoadDates(j) \/ LoadRowsOf(j) \/ CommitRows(j) \/ JobBreaks(j)
  \/ Midnight

-----------------------------------------------------------------------------

MarketTypeOK ==
  /\ tender \in [Tracked -> TenderRow \cup {NoTender}]
  /\ \A j \in MarketJobs :
       doing[j].at \in {"idle", "upsert", "sync", "dates", "closing", "resolve", "reconcile"}
  /\ started \in 0..MaxMarket /\ day \in 0..MaxDay
  /\ absent \in [Tracked -> 0..Enough] /\ reason \subseteq Tracked

\* A tender leaves the open market for a reason: a closing date of its own that has
\* come, or three imports in a row that saw the source and not the tender; and one
\* whose status says it is over has left, whatever jobs overlapped or broke off.
LeavesTheMarketForAReason ==
  \A t \in There :
    /\ ~tender[t].is_open => t \in reason
    /\ tender[t].status \in {"closed", "delisted", "awarded"} => ~tender[t].is_open
===============================================================================
