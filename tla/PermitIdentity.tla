---------------------------- MODULE PermitIdentity ----------------------------
(***************************************************************************)
(* Which row of the permits table is which permit of the city of Surrey.   *)
(* A row from before is known by the first characters of the permit's      *)
(* number (external_id); the number itself goes to official_source_id of   *)
(* that row.  Three writers share the rows: the identity-aware import, of  *)
(* the scheduler or an operator's script (src/db/surrey_permit_import.py,  *)
(* pipeline/surrey_identity_*.py); the bridge script                       *)
(* (pipeline/permit_official_source_id_bridge.py); and the generic import  *)
(* of a manual scrape (src/db/permit_import.py).                           *)
(*                                                                         *)
(* Transactions are READ COMMITTED: a statement sees what is committed     *)
(* when it starts, and an UPDATE waits for the row and then looks again.   *)
(* The imported values, the company of a permit and the canary's choice of *)
(* a few candidates are left out, as are rows without a number, for which  *)
(* a source is refused before anything is written.                         *)
(***************************************************************************)
EXTENDS Naturals, FiniteSets

CONSTANTS
  Numbers,    \* official permit numbers
  LegacyKeys, \* keys of old: each is the set of numbers that begin with it
  NoNumber,   \* official_source_id IS NULL
  Importers,  \* jobs, scripts and requests that write permits
  MaxPermits, \* bound: ids of rows, for TLC
  MaxSources  \* bound: sources fetched, for TLC

ASSUME PermitAssumption ==
  /\ NoNumber \notin Numbers
  /\ UNION LegacyKeys = Numbers
  /\ \A k, l \in LegacyKeys : k # l => k \cap l = {}
  /\ LegacyKeys \cap Numbers = {}
  /\ MaxPermits \in Nat /\ MaxSources \in Nat

VARIABLES
  permits,    \* the committed rows of the source 'surrey', by id
  importer,   \* what each importer is doing
  nextId,     \* the sequence of permits.id
  sources     \* sources fetched

permitVars == <<permits, importer, nextId, sources>>

Ids == 1..MaxPermits

legacy_key(n) == CHOOSE k \in LegacyKeys : n \in k

\* `by` is history: who inserted the row.
Permit == [external : LegacyKeys \cup Numbers, official : Numbers \cup {NoNumber},
           by : {"legacy", "identity", "generic"}]

\* What a plan makes of a number: an update of a row, or an insertion (row 0).
Entry == [id : Ids \cup {0}, number : Numbers]

IdleImporter == [at |-> "idle"]

IsTable(rows) == DOMAIN rows \subseteq Ids /\ rows \in [DOMAIN rows -> Permit]

\* todo: numbers still to be written; number, id, tier: the row being written
\* and how it was found; mine: the rows written and not committed; did: what was
\* done.  History: disturbed, another transaction has committed since the plan;
\* drifted, w was refused over a source that is not the one planned from.
IsImporter(j) ==
  /\ IsTable(j.mine)
  /\ j \in [
       at : {"planned", "dryrun", "official", "legacy", "write", "commit",
             "refused", "reviewed", "bridge", "bridged", "delete", "upsert"},
       rows : SUBSET Numbers, plan : SUBSET Entry, todo : SUBSET Numbers,
       number : Numbers \cup {NoNumber}, id : Ids \cup {0}, tier : 1..3,
       mine : {j.mine}, did : SUBSET Entry,
       full : BOOLEAN, gone : SUBSET Ids, disturbed : BOOLEAN, drifted : BOOLEAN]

PermitTypeOK ==
  /\ IsTable(permits)
  /\ \A w \in Importers : importer[w] # IdleImporter => IsImporter(importer[w])
  /\ nextId \in 1..(MaxPermits + 1)
  /\ sources \in 0..MaxSources

NoPermits == [i \in {} |-> IdleImporter]

\* The rows of one table, over those of another; a row put into a table.
Over(rows, under) ==
  [i \in DOMAIN rows \cup DOMAIN under |-> IF i \in DOMAIN rows THEN rows[i] ELSE under[i]]
With(rows, i, p) == [k \in DOMAIN rows \cup {i} |-> IF k = i THEN p ELSE rows[k]]

\* Rows of old, of some of the keys.
PermitInit ==
  /\ \E n \in 0..MaxPermits :
       /\ permits \in [1..n -> [external : LegacyKeys, official : {NoNumber}, by : {"legacy"}]]
       /\ \A i, j \in 1..n : i # j => permits[i].external # permits[j].external
       /\ nextId = n + 1
  /\ importer = [w \in Importers |-> IdleImporter]
  /\ sources = 0

-----------------------------------------------------------------------------
(***************************************************************************)
(*                              Transactions                               *)
(***************************************************************************)
Working(w) == importer[w].at # "idle"
OwnRows(w) == IF Working(w) THEN importer[w].mine ELSE NoPermits

\* What w reads: its own writes, over what is committed.
View(w) == Over(OwnRows(w), permits)

Others(w) == Importers \ {w}

\* The row i is locked by another importer.
Locked(w, i) == \E v \in Others(w) : i \in DOMAIN OwnRows(v)

\* The unique indexes on (source, external_id) and (source, official_source_id).
SameIdentity(p, q) ==
  \/ p.external = q.external
  \/ p.official # NoNumber /\ p.official = q.official

Collides(rows, i, p) == \E j \in DOMAIN rows \ {i} : SameIdentity(p, rows[j])

\* A unique index makes a statement wait for the transaction it collides with.
CollidesUncommitted(w, i, p) == \E v \in Others(w) : Collides(OwnRows(v), i, p)

Put(w, j) == importer' = [importer EXCEPT ![w] = j]

Refused(w) == [importer[w] EXCEPT !.at = "refused", !.mine = NoPermits]

\* The plan built again, from the source S, is not the one w has.
RefusedOver(w, S) == [Refused(w) EXCEPT !.drifted = (S # importer[w].rows)]

\* w commits: it goes on as j, and whoever has planned, planned on other rows.
Commits(w, j, rows) ==
  /\ permits' = rows
  /\ importer' = [v \in Importers |->
       IF v = w THEN j
       ELSE IF Working(v) THEN [importer[v] EXCEPT !.disturbed = TRUE] ELSE importer[v]]

\* A source is fetched; w works on it.  `sources` counts these, and not what a
\* script fetches again before it applies a plan.
Fetches(w, at, S, plan, full) ==
  /\ ~Working(w) /\ sources < MaxSources
  /\ sources' = sources + 1
  /\ Put(w, [at |-> at, rows |-> S, plan |-> plan, todo |-> S, number |-> NoNumber,
             id |-> 0, tier |-> 1, mine |-> NoPermits, did |-> {}, full |-> full,
             gone |-> DOMAIN permits, disturbed |-> FALSE, drifted |-> FALSE])
  /\ UNCHANGED <<permits, nextId>>

-----------------------------------------------------------------------------
(***************************************************************************)
(*                       The identity-aware import                         *)
(***************************************************************************)
ByOfficial(rows, n) == {i \in DOMAIN rows : rows[i].official = n}

\* Bug: a row that has its number is found by its key all the same.
by_key_alone(rows, n) == {i \in DOMAIN rows : rows[i].external = legacy_key(n)}

ByLegacyKey(rows, n) ==
  {i \in DOMAIN rows : rows[i].official = NoNumber /\ rows[i].external = legacy_key(n)}

\* Bug: the plan looks for rows by their key alone, bridged or not.
plan_by_key(rows, S) ==
  {[id |-> IF \E i \in DOMAIN rows : rows[i].external = legacy_key(n)
           THEN CHOOSE i \in DOMAIN rows : rows[i].external = legacy_key(n) ELSE 0,
    number |-> n] : n \in S}

\* Each number is looked up in the table as it is before the batch.
_build_import_plan(rows, S) ==
  {[id |-> IF ByOfficial(rows, n) # {} THEN CHOOSE i \in ByOfficial(rows, n) : TRUE
           ELSE IF ByLegacyKey(rows, n) # {} THEN CHOOSE i \in ByLegacyKey(rows, n) : TRUE
           ELSE 0,
    number |-> n] : n \in S}

\* "planned": by the scheduler, in the run that applies it; "dryrun": by the
\* operator's script, whose report a person reviews.
plan_surrey_identity_import(w) ==
  \E S \in SUBSET Numbers \ {{}}, at \in {"planned", "dryrun"} :
    Fetches(w, at, S, _build_import_plan(permits, S), FALSE)

\* The plan is built again, and its digest compared: by the scheduler from the
\* rows it has, by the script from the source as it is then.  A plan names each
\* number of its source: where the plans agree, so do the sources.
apply_surrey_identity_import_full(w) ==
  /\ importer[w].at \in {"planned", "dryrun"}
  /\ \E S \in IF importer[w].at = "planned" THEN {importer[w].rows} ELSE SUBSET Numbers :
       IF _build_import_plan(permits, S) = importer[w].plan
         THEN Put(w, [importer[w] EXCEPT !.at = "official"])
         ELSE Put(w, RefusedOver(w, S))
  /\ UNCHANGED <<permits, nextId, sources>>

\* The first two tiers of a row: two look-ups, and others commit in between.
FindOfficial(w) ==
  /\ importer[w].at = "official"
  /\ \E n \in importer[w].todo :
       LET found == ByOfficial(View(w), n)
       IN Put(w, [importer[w] EXCEPT !.number = n, !.tier = 1,
            !.at = IF found = {} THEN "legacy" ELSE "write",
            !.id = IF found = {} THEN 0 ELSE CHOOSE i \in found : TRUE])
  /\ UNCHANGED <<permits, nextId, sources>>

FindLegacy(w) ==
  /\ importer[w].at = "legacy"
  /\ LET found == ByLegacyKey(View(w), importer[w].number)
     IN Put(w, [importer[w] EXCEPT !.at = "write",
          !.tier = IF found = {} THEN 3 ELSE 2,
          !.id = IF found = {} THEN 0 ELSE CHOOSE i \in found : TRUE])
  /\ UNCHANGED <<permits, nextId, sources>>

\* The row is written: w goes on with the next, or is through.
Wrote(w, i, p) ==
  LET j == importer[w]
      left == j.todo \ {j.number}
  IN Put(w, [j EXCEPT !.mine = With(@, i, p), !.todo = left,
       !.did = @ \cup {[id |-> j.id, number |-> j.number]},
       !.at = IF left = {} THEN "commit" ELSE "official"])

\* UPDATE ... WHERE id = permit_id, of whatever the row is by then.
_apply_update(w) ==
  LET j == importer[w]
      p == [View(w)[j.id] EXCEPT !.official = IF j.tier = 2 THEN j.number ELSE @]
  IN /\ j.at = "write" /\ j.tier < 3
     /\ ~Locked(w, j.id)
     /\ IF j.id \notin DOMAIN View(w) THEN Put(w, Refused(w))
        ELSE /\ ~CollidesUncommitted(w, j.id, p)
             /\ IF Collides(View(w), j.id, p) THEN Put(w, Refused(w)) ELSE Wrote(w, j.id, p)
     /\ UNCHANGED <<permits, nextId, sources>>

InsertPermit(w) ==
  LET j == importer[w]
      p == [external |-> j.number, official |-> j.number, by |-> "identity"]
  IN /\ j.at = "write" /\ j.tier = 3 /\ nextId \in Ids
     /\ ~CollidesUncommitted(w, nextId, p)
     /\ IF Collides(View(w), nextId, p)
          THEN Put(w, Refused(w)) /\ UNCHANGED nextId
          ELSE Wrote(w, nextId, p) /\ nextId' = nextId + 1
     /\ UNCHANGED <<permits, sources>>

Inserts(entries) == {e \in entries : e.id = 0}

\* The numbers of updated and inserted rows are compared with the plan's.
run_surrey_identity_import_once(w) ==
  LET j == importer[w]
  IN /\ j.at = "commit"
     /\ IF /\ Cardinality(Inserts(j.did)) = Cardinality(Inserts(j.plan))
           /\ Cardinality(j.did) = Cardinality(j.plan)
          THEN Commits(w, IdleImporter, View(w))
          ELSE Put(w, Refused(w)) /\ UNCHANGED permits
     /\ UNCHANGED <<nextId, sources>>

-----------------------------------------------------------------------------
(***************************************************************************)
(*                               The bridge                                *)
(***************************************************************************)
\* The numbers that are alone with their key; the others are left out of a plan.
SafeNumbers(S) == {n \in S : \A m \in S : legacy_key(m) = legacy_key(n) => m = n}
Unambiguous(S) == SafeNumbers(S) = S

\* The rows that wait for a number.
_build_bridge_plan(rows, S) ==
  {e \in [id : DOMAIN rows, number : SafeNumbers(S)] : e.id \in ByLegacyKey(rows, e.number)}

\* The dry run, whose report a person reviews; it is accepted of a source only
\* in which no two numbers have one key.
plan_permit_official_source_id_bridge(w) ==
  \E S \in SUBSET Numbers :
    /\ Unambiguous(S) /\ _build_bridge_plan(permits, S) # {}
    /\ Fetches(w, "reviewed", S, _build_bridge_plan(permits, S), FALSE)

\* The source is fetched again; the rows that wait have to be those reviewed.
apply_permit_official_source_id_bridge(w) ==
  /\ importer[w].at = "reviewed"
  /\ \E S \in SUBSET Numbers :
       IF _build_bridge_plan(permits, S) = importer[w].plan
         THEN Put(w, [importer[w] EXCEPT !.at = "bridge"])
         ELSE Put(w, RefusedOver(w, S))
  /\ UNCHANGED <<permits, nextId, sources>>

\* UPDATE ... WHERE the row still has its key, and no number.
BridgeRow(w) ==
  LET j == importer[w]
  IN /\ j.at = "bridge"
     /\ \E e \in j.plan \ j.did :
          /\ ~Locked(w, e.id)
          /\ IF e.id \notin DOMAIN View(w) \/ e.id \notin ByLegacyKey(View(w), e.number)
             THEN Put(w, Refused(w))
             ELSE LET p == [View(w)[e.id] EXCEPT !.official = e.number]
                  IN /\ ~CollidesUncommitted(w, e.id, p)
                     /\ IF Collides(View(w), e.id, p) THEN Put(w, Refused(w))
                        ELSE Put(w, [j EXCEPT !.mine = With(@, e.id, p), !.did = @ \cup {e},
                               !.at = IF j.plan = j.did \cup {e} THEN "bridged" ELSE @])
     /\ UNCHANGED <<permits, nextId, sources>>

execute_full_bridge(w) ==
  /\ importer[w].at = "bridged"
  /\ Commits(w, IdleImporter, View(w))
  /\ UNCHANGED <<nextId, sources>>

-----------------------------------------------------------------------------
(***************************************************************************)
(*                           The generic import                            *)
(***************************************************************************)
\* A manual scrape, of the whole history or of the last days.
scrape_surrey_permits(w) ==
  \E S \in SUBSET Numbers \ {{}}, full \in BOOLEAN :
    Fetches(w, IF full THEN "delete" ELSE "upsert", S, {}, full)

\* DELETE of the rows that were there when the statement began, and commit.
DeleteSource(w) ==
  /\ importer[w].at = "delete"
  /\ \A i \in importer[w].gone : ~Locked(w, i)
  /\ Commits(w, [importer[w] EXCEPT !.at = "upsert"],
       [i \in DOMAIN permits \ importer[w].gone |-> permits[i]])
  /\ UNCHANGED <<nextId, sources>>

GenericRow(n) == [external |-> n, official |-> NoNumber, by |-> "generic"]

\* ON CONFLICT (source, external_id) DO UPDATE, which spares the number.
update_permit(rows, i, n) == With(rows, i, [rows[i] EXCEPT !.external = n])

\* A batch is committed by itself; one row stands for it.  After a full refresh
\* there is no ON CONFLICT.
upsert_city_permits(w) ==
  LET j == importer[w]
  IN /\ j.at = "upsert" /\ nextId \in Ids
     /\ \E n \in j.todo :
          LET there == {i \in DOMAIN permits : permits[i].external = n}
              next == IF j.todo = {n} THEN IdleImporter ELSE [j EXCEPT !.todo = @ \ {n}]
          IN /\ \A i \in there : ~Locked(w, i)
             /\ ~CollidesUncommitted(w, 0, GenericRow(n))
             /\ \/ /\ there = {}
                   /\ Commits(w, next, With(permits, nextId, GenericRow(n)))
                   /\ nextId' = nextId + 1
                \/ /\ there # {} /\ ~j.full
                   /\ Commits(w, next, update_permit(permits, CHOOSE i \in there : TRUE, n))
                   /\ UNCHANGED nextId
                \/ /\ there # {} /\ j.full
                   /\ Put(w, IdleImporter) /\ UNCHANGED <<permits, nextId>>
     /\ UNCHANGED sources

\* A process dies, its connection breaks or a deadlock is broken: its
\* transaction is rolled back.  Who was refused has rolled back already.
ImporterEnds(w) ==
  /\ Working(w)
  /\ Put(w, IdleImporter)
  /\ UNCHANGED <<permits, nextId, sources>>

PermitNext == \E w \in Importers :
  \/ plan_surrey_identity_import(w) \/ apply_surrey_identity_import_full(w)
  \/ FindOfficial(w) \/ FindLegacy(w) \/ _apply_update(w) \/ InsertPermit(w)
  \/ run_surrey_identity_import_once(w)
  \/ plan_permit_official_source_id_bridge(w) \/ apply_permit_official_source_id_bridge(w)
  \/ BridgeRow(w) \/ execute_full_bridge(w)
  \/ scrape_surrey_permits(w) \/ DeleteSource(w) \/ upsert_city_permits(w)
  \/ ImporterEnds(w)

-----------------------------------------------------------------------------
(***************************************************************************)
(*                               Properties                                *)
(***************************************************************************)
\* A plan found safe is carried out, unless another transaction committed since,
\* the city's list was another when a script fetched it again, or for one of two
\* reasons the plan does not see: two numbers of the source have one key, or the
\* generic import has put in a number of the source.
RefusedForAReason ==
  \A w \in Importers : importer[w].at = "refused" =>
    \/ importer[w].disturbed \/ importer[w].drifted
    \/ ~Unambiguous(importer[w].rows)
    \/ \E i \in DOMAIN permits :
         permits[i].external \in importer[w].rows /\ permits[i].by = "generic"

\* A row keeps its official number as long as it is there, whoever imports over
\* it.  Only an import during which another importer has committed puts another
\* number of the same key there: it had found the row by its key before.
OfficialNumbersStay ==
  [][\A i \in DOMAIN permits \cap DOMAIN permits' :
       permits[i].official # NoNumber =>
         \/ permits'[i].official = permits[i].official
         \/ /\ permits'[i].official # NoNumber
            /\ legacy_key(permits'[i].official) = legacy_key(permits[i].official)
            /\ \E w \in Importers :
                 /\ importer[w].at = "commit" /\ importer[w].disturbed
                 /\ i \in DOMAIN importer[w].mine
                 /\ permits'[i] = importer[w].mine[i]]_permits
=============================================================================
