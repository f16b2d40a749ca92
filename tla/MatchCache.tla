------------------------------ MODULE MatchCache ------------------------------
(***************************************************************************)
(* The cache of match scores (tender_matches) and everything that writes   *)
(* it: the Discover pages and the bulk prescore, which score pairs and     *)
(* commit them together; the synchronous scoring of one company, which     *)
(* commits pair by pair; and the batch that asks a language model, for     *)
(* architecture firms (src/pipeline/ai_matching.py, bulk_prescore.py).     *)
(*                                                                         *)
(* The deterministic score of a pair is the sum of its breakdown and here  *)
(* the revision of the profile it was computed from; the model's scores    *)
(* are numbers of its own.                                                 *)
(***************************************************************************)
EXTENDS Naturals, FiniteSets, Sequences

CONSTANTS
  Scorers,       \* requests, background tasks and scripts
  Construction,  \* construction companies
  Architecture,  \* architecture firms
  Tenders,       \* tenders, without the marker
  Marker,        \* tender 0 of the prescore's marker rows
  Batch,         \* batch_size of the prescore
  MaxProfile     \* bound: revisions of a company's profile, for TLC

ASSUME MatchAssumption ==
  /\ Construction \cap Architecture = {} /\ Marker \notin Tenders
  /\ MaxProfile \in Nat \ {0}

VARIABLES
  matches,    \* tender_matches: rows by company and tender
  profile,    \* the revision of each company's profile
  scoring     \* what each scorer is doing

matchVars == <<matches, profile, scoring>>

Companies == Construction \cup Architecture
Profiles == 1..MaxProfile

\* The language model's scores: none is the sum of a breakdown.
ModelScores == {MaxProfile + 1}

\* No row; or a score with the sum of its breakdown, 0 for none, and whether it
\* is younger than TENDER_MATCH_CACHE_MAX_AGE_HOURS.
NoMatch == [score |-> 0, sum |-> 0, fresh |-> FALSE, row |-> FALSE]

TenderMatch == [score : 0..MaxProfile + 1, sum : 0..MaxProfile, fresh : BOOLEAN,
                row : BOOLEAN]

Free == [pc |-> "free"]

\* A scorer: the pairs of its company to do, the pairs it found in the cache when
\* it loaded it, the profile it loaded, what it has written and not committed;
\* and, of the prescore, the companies listed and done.
Scoring == {Free} \cup
  [pc : {"pairs", "marker", "sync", "batch", "loop"}, company : Companies,
   todo : SUBSET Tenders, hits : SUBSET Tenders, profile : Profiles,
   written : SUBSET Tenders, prescore : BOOLEAN, listed : SUBSET Companies,
   done : SUBSET Companies]

MatchTypeOK ==
  /\ matches \in [Companies -> [Tenders \cup {Marker} -> TenderMatch]]
  /\ profile \in [Companies -> Profiles]
  /\ scoring \in [Scorers -> Scoring]

MatchInit ==
  /\ matches = [c \in Companies |-> [t \in Tenders \cup {Marker} |-> NoMatch]]
  /\ profile = [c \in Companies |-> 1]
  /\ scoring = [w \in Scorers |-> Free]

Has(w, s) == scoring' = [scoring EXCEPT ![w] = s]

\* load_fresh_company_tender_matches, and of these what score_tender_pairs takes
\* for a hit: the rows with a breakdown.
load_fresh(c) == {t \in Tenders : matches[c][t].fresh /\ matches[c][t].sum > 0}

\* Bug: the breakdown of a row is left when the row is scored again.
upsert_score_only(row, score, sum) ==
  [score |-> score, sum |-> IF row.row THEN row.sum ELSE sum,
   fresh |-> TRUE, row |-> TRUE]

\* _upsert_tender_match: without a breakdown (0), the row keeps the one it has.
_upsert_tender_match(row, score, sum) ==
  [score |-> score, sum |-> IF sum > 0 THEN sum ELSE row.sum,
   fresh |-> TRUE, row |-> TRUE]

Scored(c, t, score, sum) ==
  matches' = [matches EXCEPT ![c][t] = _upsert_tender_match(@, score, sum)]

\* The row of a pair is locked by a scorer that has written it and not committed.
Unlocked(w, c, t) ==
  \A v \in Scorers \ {w} :
    scoring[v].pc = "pairs" /\ scoring[v].company = c => t \notin scoring[v].written

(***************************************************************************)
(*               score_tender_pairs: Discover and the prescore             *)
(***************************************************************************)
Loaded(c, todo, prescore, listed, done) ==
  [pc |-> "pairs", company |-> c, todo |-> todo, hits |-> load_fresh(c),
   profile |-> profile[c], written |-> {}, prescore |-> prescore,
   listed |-> listed, done |-> done]

Discover(w, c, candidates) ==
  /\ scoring[w] = Free
  /\ Has(w, Loaded(c, candidates, FALSE, {}, {}))
  /\ UNCHANGED <<matches, profile>>

\* One candidate: a hit, a pair over the inline cap or of a tender that is gone is
\* passed over; another is scored and written.  The hits are those of the start.
ScorePair(w, t) ==
  LET s == scoring[w] IN
  /\ s.pc = "pairs" /\ t \in s.todo
  /\ \/ Has(w, [s EXCEPT !.todo = @ \ {t}])
     \/ /\ t \notin s.hits /\ Unlocked(w, s.company, t)
        /\ Has(w, [s EXCEPT !.todo = @ \ {t}, !.written = @ \cup {t}])
  /\ UNCHANGED <<matches, profile>>

\* Bug: a company that had candidates is not given a marker.
CommitUnmarked(w) ==
  LET s == scoring[w] IN
  /\ s.pc = "pairs" /\ s.todo = {}
  /\ matches' = [matches EXCEPT ![s.company] =
       [t \in DOMAIN @ |-> IF t \in s.written
                           THEN _upsert_tender_match(@[t], s.profile, s.profile)
                           ELSE @[t]]]
  /\ Has(w, IF s.prescore
            THEN [s EXCEPT !.pc = "loop", !.written = {}, !.hits = {},
                           !.done = @ \cup {s.company}]
            ELSE Free)
  /\ UNCHANGED profile

CommitPairs(w) ==
  LET s == scoring[w] IN
  /\ s.pc = "pairs" /\ s.todo = {}
  /\ matches' = [matches EXCEPT ![s.company] =
       [t \in DOMAIN @ |-> IF t \in s.written
                           THEN _upsert_tender_match(@[t], s.profile, s.profile)
                           ELSE @[t]]]
  /\ Has(w, IF s.prescore THEN [s EXCEPT !.pc = "marker", !.written = {}] ELSE Free)
  /\ UNCHANGED profile

(***************************************************************************)
(*                               Bulk prescore                             *)
(***************************************************************************)
HasMatches(c) == \E t \in DOMAIN matches[c] : matches[c][t].row

Pending == {c \in Construction : ~HasMatches(c)}

\* run_bulk_prescore asks for a batch of pending companies, at its start and
\* whenever it is through with one, and ends when there is none.
ListPending(w) ==
  /\ \/ scoring[w] = Free /\ Pending # {}
     \/ scoring[w].pc = "loop" /\ scoring[w].listed = {}
  /\ LET done == IF scoring[w] = Free THEN {} ELSE scoring[w].done IN
       IF Pending = {} THEN Has(w, Free)
       ELSE \E batch \in SUBSET Pending :
              /\ batch # {} /\ Cardinality(batch) <= Batch
              /\ \E c \in batch :
                   Has(w, [Loaded(c, {}, TRUE, batch, done) EXCEPT !.pc = "loop"])
  /\ UNCHANGED <<matches, profile>>

\* prescore_construction_company: the next listed company, with its candidates;
\* without one it goes to the marker.
Prescore(w, c, candidates) ==
  LET s == scoring[w] IN
  /\ s.pc = "loop" /\ c \in s.listed
  /\ LET job == Loaded(c, candidates, TRUE, s.listed \ {c}, s.done) IN
       Has(w, IF candidates = {} THEN [job EXCEPT !.pc = "marker"] ELSE job)
  /\ UNCHANGED <<matches, profile>>

\* _ensure_prescore_marker.
Mark(w) ==
  LET s == scoring[w] IN
  /\ s.pc = "marker"
  /\ IF HasMatches(s.company) THEN UNCHANGED matches
     ELSE Scored(s.company, Marker, 0, 0)
  /\ Has(w, [s EXCEPT !.pc = "loop", !.done = @ \cup {s.company}, !.hits = {}])
  /\ UNCHANGED profile

(***************************************************************************)
(*                    Pair by pair: the synchronous paths                  *)
(***************************************************************************)
StartSync(w, c) ==
  /\ scoring[w] = Free
  /\ Has(w, [Loaded(c, Tenders, FALSE, {}, {}) EXCEPT !.pc = "sync", !.hits = {}])
  /\ UNCHANGED <<matches, profile>>

\* get_fresh_cached_match, or a score that is written and committed.  A row of a
\* construction company without a breakdown is no hit.
SyncPair(w, t) ==
  LET s == scoring[w]
      row == matches[s.company][t]
      hit == row.fresh /\ (s.company \in Architecture \/ row.sum > 0)
  IN
  /\ s.pc = "sync" /\ t \in s.todo
  /\ IF hit THEN UNCHANGED matches
     ELSE Unlocked(w, s.company, t) /\ Scored(s.company, t, s.profile, s.profile)
  /\ Has(w, IF s.todo = {t} THEN Free ELSE [s EXCEPT !.todo = @ \ {t}])
  /\ UNCHANGED profile

\* run_ai_matching: the pairs the model proposes, of an architecture firm.
StartBatch(w, c, candidates) ==
  /\ scoring[w] = Free /\ c \in Architecture /\ candidates # {}
  /\ Has(w, [Loaded(c, candidates, FALSE, {}, {}) EXCEPT !.pc = "batch", !.hits = {}])
  /\ UNCHANGED <<matches, profile>>

\* The model scores a pair, or fails; no breakdown is written.
BatchPair(w, t) ==
  LET s == scoring[w] IN
  /\ s.pc = "batch" /\ t \in s.todo
  /\ \/ UNCHANGED matches
     \/ /\ Unlocked(w, s.company, t)
        /\ \E score \in ModelScores : Scored(s.company, t, score, 0)
  /\ Has(w, IF s.todo = {t} THEN Free ELSE [s EXCEPT !.todo = @ \ {t}])
  /\ UNCHANGED profile

(***************************************************************************)
(*                              The environment                            *)
(***************************************************************************)
\* An exception or a crash: what is not committed is rolled back.
ScorerFails(w) ==
  /\ scoring[w] # Free
  /\ Has(w, Free)
  /\ UNCHANGED <<matches, profile>>

\* The cache window of a row ends.
Expire(c, t) ==
  /\ matches[c][t].fresh
  /\ matches' = [matches EXCEPT ![c][t].fresh = FALSE]
  /\ UNCHANGED <<profile, scoring>>

ProfileChanges(c) ==
  /\ profile[c] < MaxProfile
  /\ profile' = [profile EXCEPT ![c] = @ + 1]
  /\ UNCHANGED <<matches, scoring>>

MatchNext ==
  \/ \E w \in Scorers :
       \/ \E c \in Companies, candidates \in SUBSET Tenders :
            \/ Discover(w, c, candidates) \/ Prescore(w, c, candidates)
            \/ StartBatch(w, c, candidates)
       \/ \E c \in Companies : StartSync(w, c)
       \/ \E t \in Tenders : ScorePair(w, t) \/ SyncPair(w, t) \/ BatchPair(w, t)
       \/ CommitPairs(w) \/ ListPending(w) \/ Mark(w) \/ ScorerFails(w)
  \/ \E c \in Companies, t \in Tenders : Expire(c, t)
  \/ \E c \in Companies : ProfileChanges(c)

(***************************************************************************)
(*                                Properties                               *)
(***************************************************************************)
\* A construction row's score is the sum of the breakdown it is shown with
\* ("Must equal sum of breakdown component points"), whichever of the three paths
\* wrote it last, and whatever the profile was when it read it.
ConstructionScoresAddUp ==
  \A c \in Construction, t \in Tenders :
    matches[c][t].sum > 0 => matches[c][t].score = matches[c][t].sum

\* The loop of run_bulk_prescore comes to its end: it never takes up a company it
\* has been through, although the tenders it means to score may be gone or the
\* rows be written by others; each company is left with a row.
PrescoredOnce ==
  \A w \in Scorers : scoring[w].pc = "loop" => scoring[w].listed \cap scoring[w].done = {}
===============================================================================
