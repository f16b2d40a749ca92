------------------------------ MODULE CompanyMerge ------------------------------
(***************************************************************************)
(* Merges of company rows, and their rollback: the canonical merge of the  *)
(* "DBA" groups (src/pipeline/company_canonical_merge.py), the merge by    *)
(* parsed identity and the manual bridge, which turn rows into aliases of  *)
(* a canonical row and move what refers to them (company_fk_remap.py),     *)
(* with a snapshot of whatever they touch.  Between them the imports link  *)
(* permits and awards by name again and outcomes are recorded.             *)
(*                                                                         *)
(* Each is one transaction of an operator's script, which builds its plan  *)
(* from the names and applies it.  One DBA group, one group of companies   *)
(* alike by parsed identity and one tender stand for many.  Of the other   *)
(* columns of a company the aggregates over its permits are kept for       *)
(* NamedRow, which the bridge recomputes and no rollback restores; the     *)
(* rest follow its role and are left out.                                  *)
(***************************************************************************)
EXTENDS FiniteSets, Sequences, Integers

CONSTANTS
  Firms,      \* ids of companies
  Group,      \* the members of a safe DBA group
  OldPrimary, \* its best member, the primary if none has the group's name
  NamedRow,   \* the row of the group's name: there already, or to be inserted
  Alike,      \* a group of parsed identities
  Bridged,    \* the rows the bridge makes aliases of NamedRow
  Persons,    \* the members of a probable-person group
  Permits,    \* permits
  Awards,     \* contract awards
  BidOutcomes, \* ids of outcomes of one tender, at most one of a company
  Winner,     \* the company that bears the name of the awards' winner
  NoOne,      \* NULL
  Bidders,    \* bound: the companies that record outcomes, for TLC
  MaxMerges   \* bound: merges applied, for TLC

ASSUME MergeAssumption ==
  /\ {NamedRow, Winner} \cup Group \cup Alike \cup Bridged \cup Persons \cup Bidders \subseteq Firms
  /\ OldPrimary \in Group /\ NamedRow \notin Group \cup Bridged
  /\ Persons \cap (Group \cup {NamedRow}) = {}
  /\ Permits \cap Awards = {} /\ (Permits \cup Awards) \cap BidOutcomes = {}
  /\ BidOutcomes \subseteq Int /\ NoOne \notin Firms /\ MaxMerges \in Nat

VARIABLES
  applicant,  \* whose name a permit bears
  company,    \* companies, NoOne for a row there is not
  ref,        \* company_id of permits, awards and outcomes
  aliases,    \* company_applicant_aliases
  counted,    \* the permits that the aggregates of NamedRow were computed from
  merges      \* company_canonical_merge_runs, with their rollback rows

mergeVars == <<applicant, company, ref, aliases, counted, merges>>

Rows == Permits \cup Awards \cup BidOutcomes

Firm == [role : {"standalone", "canonical", "alias", "person"},
         canonical : Firms \cup {NoOne}]

ASSUME NoOneIsNoFirm == NoOne \notin Firm

Standalone == [role |-> "standalone", canonical |-> NoOne]

\* What a merge and its rollback change, without the runs themselves.
Tables == [company : [Firms -> Firm \cup {NoOne}], ref : [Rows -> Firms \cup {NoOne}],
           aliases : SUBSET [alias : Firms, canonical : Firms, merge : Nat \ {0}],
           counted : SUBSET Permits]

Now == [company |-> company, ref |-> ref, aliases |-> aliases, counted |-> counted]

\* firms, refs: the rollback rows, by the id of the row; inserted: the
\* company_insert row; before, after (history): the tables around the merge.
Merge == [status : {"applied", "rolled_back"}, firms : SUBSET Firms, rows : SUBSET Rows,
          inserted : SUBSET Firms, before : Tables, after : Tables]

MergeTypeOK ==
  /\ applicant \in [Permits -> {"group", "alike", "bridged"}]
  /\ Now \in Tables
  /\ Len(merges) <= MaxMerges
  /\ \A r \in DOMAIN merges : merges[r] \in Merge

MergeInit ==
  /\ applicant \in [Permits -> {"group", "alike", "bridged"}]
  /\ company \in {[f \in Firms |-> IF f = NamedRow THEN n ELSE Standalone] :
                    n \in {NoOne, Standalone}}
  /\ ref = [row \in Rows |-> NoOne]
  /\ aliases = {} /\ counted = {} /\ merges = <<>>

Exists == {f \in Firms : company[f] # NoOne}

Referring(set, refs) == {row \in Rows : refs[row] \in set}

(***************************************************************************)
(*                                 A merge                                 *)
(***************************************************************************)
\* Bug: the awards are not among FK_REMAP_SPECS.
remap_without_awards(from, to) ==
  {[row \in Rows |-> IF ref[row] \in from /\ row \in Permits THEN to ELSE ref[row]]}

\* remap_company_foreign_keys: an outcome stays when the canonical row has one;
\* of several, the first one found moves and the others then stay.
remap_company_foreign_keys(from, to) ==
  LET movable == BidOutcomes \cap Referring(from, ref)
      chosen == IF BidOutcomes \cap Referring({to}, ref) # {} \/ movable = {} THEN {{}}
                ELSE {{o} : o \in movable}
  IN {[row \in Rows |-> IF ref[row] \in from /\ row \in Permits \cup Awards \cup moved
                        THEN to ELSE ref[row]] : moved \in chosen}

Distinct(refs) ==
  \A o, p \in BidOutcomes : o # p /\ refs[o] # NoOne => refs[o] # refs[p]

\* The tables after a merge of these rows into another, or an error of the unique
\* keys on outcomes and on the alias of company_applicant_aliases.
Applied(firms, refs, from, to, touched, rows, inserted, count) ==
  /\ Len(merges) < MaxMerges
  /\ from \cap {x.alias : x \in aliases} = {}
  /\ Distinct(refs)
  /\ company' = firms /\ ref' = refs /\ counted' = count /\ UNCHANGED applicant
  /\ aliases' = aliases \cup
       {[alias |-> f, canonical |-> to, merge |-> Len(merges) + 1] : f \in from}
  /\ merges' = Append(merges,
       [status |-> "applied", firms |-> touched \cap Exists, rows |-> rows,
        inserted |-> inserted, before |-> Now,
        after |-> [company |-> company', ref |-> ref', aliases |-> aliases',
                   counted |-> counted']])

Canonical == [role |-> "canonical", canonical |-> NoOne]
AliasOf(to) == [role |-> "alias", canonical |-> to]

\* build_merge_plan and apply_merge_plan.  Every company outside of the group is
\* made standalone again, or a person.  The group's permits go to the primary of the plan,
\* which is OldPrimary when NamedRow is inserted, and are flushed after the moves,
\* unless they were there, when there is nothing to flush.
ApplyMergePlan ==
  LET Assigned == {p \in Permits : applicant[p] = "group"}
      create == company[NamedRow] = NoOne
      planned == IF create THEN OldPrimary ELSE NamedRow
      assigned(refs) == [row \in Rows |->
        IF row \in Assigned /\ ref[row] # planned THEN planned ELSE refs[row]]
      firms == [f \in Firms |->
        CASE f = NamedRow -> Canonical [] f \in Group -> AliasOf(NamedRow)
          [] f \in Persons -> [role |-> "person", canonical |-> NoOne]
          [] OTHER -> Standalone]
  IN \E refs \in remap_company_foreign_keys(Group, NamedRow) :
       Applied(firms, assigned(refs), Group, NamedRow, Firms,
               Assigned \cup Referring(Group, ref), IF create THEN {NamedRow} ELSE {},
               IF create THEN {} ELSE counted)

\* build_ and apply_parsed_identity_merge_plan: of the companies alike, those that
\* some permits refer to, if they are not one already, under any of them.
ApplyParsedIdentity(members, to) ==
  LET root(f) == IF company[f].canonical = NoOne THEN f ELSE company[f].canonical
      from == members \ {to}
      firms == [f \in Firms |-> IF f = to THEN Canonical
                                ELSE IF f \in from THEN AliasOf(to) ELSE company[f]]
  IN /\ members \subseteq Alike \cap Exists /\ to \in members
     /\ Cardinality({root(f) : f \in members}) > 1
     /\ \E refs \in remap_company_foreign_keys(from, to) :
          Applied(firms, refs, from, to, members, Referring(from, ref), {}, counted)

\* recompute_company_permit_aggregates: from the permits that refer to the row.
Counted(refs) == {p \in Permits : refs[p] = NamedRow}

\* build_ and apply_ledcor_manual_bridge_plan.  The aggregates are computed again
\* when the permits have moved.
ApplyBridge ==
  LET firms == [f \in Firms |-> IF f \in Bridged THEN AliasOf(NamedRow) ELSE company[f]]
  IN /\ NamedRow \in Exists /\ company[NamedRow].role = "canonical"
     /\ \A f \in Bridged : /\ company[f].role # "canonical"
                           /\ company[f].role = "alias" => company[f].canonical = NamedRow
     /\ \E refs \in remap_company_foreign_keys(Bridged, NamedRow) :
          Applied(firms, refs, Bridged, NamedRow, Bridged \cup {NamedRow},
                  Referring(Bridged, ref), {}, Counted(refs))

(***************************************************************************)
(*                               The rollback                              *)
(***************************************************************************)
\* Bug: what the merge moved is not moved back.
RollbackWithoutMoves(r) ==
  LET m == merges[r]
      firms == [f \in Firms |-> IF f \in m.inserted THEN NoOne
                                ELSE IF f \in m.firms /\ f \in Exists
                                THEN m.before.company[f] ELSE company[f]]
  IN /\ m.status = "applied" /\ m.inserted = {}
     /\ company' = firms /\ UNCHANGED <<applicant, ref, counted>>
     /\ aliases' = {x \in aliases : x.merge # r}
     /\ merges' = [merges EXCEPT ![r].status = "rolled_back"]

\* rollback_merge_run restores what the snapshots hold, whatever happened since,
\* and deletes an inserted row; a foreign key to a row that is not there then, or
\* two outcomes of one company, fail the transaction.  The aggregates are not
\* restored, though the bridge takes a snapshot of them.
Rollback(r) ==
  LET m == merges[r]
      firms == [f \in Firms |-> IF f \in m.inserted THEN NoOne
                                ELSE IF f \in m.firms /\ f \in Exists
                                THEN m.before.company[f] ELSE company[f]]
      refs == [row \in Rows |-> IF row \in m.rows THEN m.before.ref[row] ELSE ref[row]]
      left == {x \in aliases : x.merge # r}
      there == {f \in Firms : firms[f] # NoOne}
  IN /\ m.status = "applied"
     /\ Distinct(refs)
     /\ {refs[row] : row \in Permits \cup Awards} \cup {firms[f].canonical : f \in there}
          \cup UNION {{x.alias, x.canonical} : x \in left} \subseteq there \cup {NoOne}
     /\ company' = firms /\ ref' = refs /\ aliases' = left /\ UNCHANGED applicant
     /\ counted' = IF firms[NamedRow] = NoOne THEN {} ELSE counted
     /\ merges' = [merges EXCEPT ![r].status = "rolled_back"]

(***************************************************************************)
(*                         What happens in between                         *)
(***************************************************************************)
\* match_contract_awards_to_companies looks at names and at no role.
MatchAwards ==
  /\ ref' = [row \in Rows |-> IF row \notin Awards THEN ref[row]
                              ELSE IF Winner \in Exists THEN Winner ELSE NoOne]
  /\ UNCHANGED <<applicant, company, aliases, counted, merges>>

\* Bug: an alias is not followed.
_pick_unfollowed(candidates) ==
  LET canonical == {f \in candidates : company[f].role = "canonical"}
  IN IF canonical # {} THEN canonical ELSE candidates

\* _pick_primary_id follows an alias to its row, and prefers a canonical one; of
\* several it takes the one with the greatest values.
_pick_primary_id(candidates) ==
  LET targets == {IF company[f].role = "alias" /\ company[f].canonical \in Exists
                  THEN company[f].canonical ELSE f : f \in candidates}
      canonical == {f \in targets : company[f].role = "canonical"}
  IN IF canonical # {} THEN canonical ELSE targets

\* The rows of the names of an applicant; a bridged row bears a name of its own.
Candidates(p) ==
  CASE applicant[p] = "group" -> {Group \cup {NamedRow}} [] applicant[p] = "alike" -> {Alike}
    [] applicant[p] = "bridged" -> {{f} : f \in Bridged}

\* _attach_company_ids: the import of permits resolves the applicant again.
ImportPermit(p) ==
  /\ \E named \in Candidates(p) : \E f \in _pick_primary_id(Exists \cap named) :
       ref' = [ref EXCEPT ![p] = f]
  /\ UNCHANGED <<applicant, company, aliases, counted, merges>>

\* populate_companies_from_permits resolves the applicant of every permit again and
\* computes the aggregates of whom it found; its two commits are one here.
PopulateCompanies ==
  /\ \E found \in [Permits -> Firms] :
       /\ \A p \in Permits : \E named \in Candidates(p) :
            found[p] \in _pick_primary_id(Exists \cap named)
       /\ ref' = [row \in Rows |-> IF row \in Permits THEN found[row] ELSE ref[row]]
       /\ counted' = IF Counted(found) = {} THEN counted ELSE Counted(found)
  /\ UNCHANGED <<applicant, company, aliases, merges>>

\* upsert_outcome inserts the outcome of a company that has none.
RecordOutcome(o, f) ==
  /\ ref[o] = NoOne /\ \A earlier \in BidOutcomes : earlier < o => ref[earlier] # NoOne
  /\ BidOutcomes \cap Referring({f}, ref) = {}
  /\ ref' = [ref EXCEPT ![o] = f]
  /\ UNCHANGED <<applicant, company, aliases, counted, merges>>

MergeNext ==
  \/ ApplyMergePlan \/ ApplyBridge
  \/ \E members \in SUBSET Alike, to \in Alike : ApplyParsedIdentity(members, to)
  \/ \E r \in DOMAIN merges : Rollback(r)
  \/ MatchAwards \/ PopulateCompanies \/ \E p \in Permits : ImportPermit(p)
  \/ \E o \in BidOutcomes, f \in Bidders : RecordOutcome(o, f)

(***************************************************************************)
(*                                Properties                               *)
(***************************************************************************)
\* A rollback that finds the tables as its merge left them puts back what the
\* merge found, to the row: over other merges that came and went in between, rows
\* that moved twice in the merge, and rows that could not move.  What the bridge
\* recomputed, the aggregates of its canonical row, stays as the bridge left it.
RollbackRestoresTheTables ==
  [][\A r \in DOMAIN merges :
       merges'[r].status # merges[r].status /\ Now = merges[r].after
         => Now' = [merges[r].before EXCEPT !.counted = merges[r].after.counted]]_mergeVars

\* A merge takes a company's references along: those left at an alias are outcomes
\* of a tender for which the canonical row has its own, and permits that a merge
\* with an inserted row assigned to the primary it had planned.
MergesTakeReferencesAlong ==
  [][\A x \in aliases' \ aliases, row \in Rows :
       ref'[row] = x.alias =>
         \/ row \in Permits /\ merges'[Len(merges')].inserted # {} /\ x.alias = OldPrimary
         \/ row \in BidOutcomes /\ \E o \in BidOutcomes : ref'[o] = x.canonical]_mergeVars

\* The import of permits links none to an alias, though it follows one link only and
\* the merges before it were applied and rolled back in any order: but the permits of
\* a bridged row, when the row it was bridged to has become an alias itself.  This
\* is of groups that meet in NamedRow only; a row of two groups may be anybody's
\* second link.
ImportLinksToNoAlias ==
  [][\A p \in Permits :
       merges' = merges /\ ref'[p] # ref[p] /\ company[ref'[p]].role = "alias"
         => applicant[p] = "bridged" /\ ref'[p] = NamedRow]_mergeVars
===============================================================================
