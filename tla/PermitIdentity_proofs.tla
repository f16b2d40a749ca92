------------------------ MODULE PermitIdentity_proofs -------------------------
(***************************************************************************)
(* Theorems about which row is which permit, for any numbers, keys,        *)
(* importers and bounds.                                                   *)
(*                                                                         *)
(* The inductive invariant relates three views of the table: the committed *)
(* rows, what each importer has written over them and not committed, and   *)
(* what it has found and planned. Importers hold different rows and        *)
(* different identities (the row locks and the unique indexes see to       *)
(* that); what one has found of a number need not be true any more when it *)
(* writes, but as long as nobody has committed in between it is, which is  *)
(* what a refusal is judged by.                                            *)
(***************************************************************************)
EXTENDS PermitIdentity, TLAPS

\* A row has the number it is known by, or one that begins with its key; without
\* a number, it is of old or of the generic import.
RowFits(p) ==
  /\ p \in Permit
  /\ p.official # NoNumber => p.external = p.official \/ p.external = legacy_key(p.official)
  /\ p.external \in Numbers /\ p.official = NoNumber => p.by = "generic"

\* The unique indexes hold.
Unique(rows) == \A i, k \in DOMAIN rows : i # k => ~SameIdentity(rows[i], rows[k])

\* No row waits for a number that another row has.
TableFits(rows, next) ==
  /\ IsTable(rows) /\ Unique(rows)
  /\ \A i \in DOMAIN rows : i < next /\ RowFits(rows[i])
  /\ \A n \in Numbers : ByOfficial(rows, n) # {} => ByLegacyKey(rows, n) = {}

\* Rows written and not committed, over the committed ones: each has a number,
\* and the row that waits for it is among them.
OwnFits(mine, rows, next) ==
  /\ IsTable(mine) /\ Unique(Over(mine, rows))
  /\ \A i \in DOMAIN mine :
       /\ i < next /\ RowFits(mine[i]) /\ mine[i].official # NoNumber
       /\ ByLegacyKey(rows, mine[i].official) \subseteq DOMAIN mine
       /\ i \in DOMAIN rows =>
            /\ mine[i].external = rows[i].external
            /\ rows[i].official # NoNumber =>
                 legacy_key(rows[i].official) = legacy_key(mine[i].official)

\* What has been found of a number holds until it is written, as far as it must;
\* and the rows to which a bridge has given numbers had none.
FoundFits(j, rows, next) ==
  /\ j.at = "write" =>
       /\ j.tier = 3 => ByLegacyKey(rows, j.number) \subseteq DOMAIN j.mine
       /\ j.tier < 3 => j.id < next
       /\ j.tier < 3 /\ j.id \in DOMAIN Over(j.mine, rows) =>
            /\ j.tier = 1 => Over(j.mine, rows)[j.id].official # NoNumber
            /\ j.tier = 2 => Over(j.mine, rows)[j.id].external = legacy_key(j.number)
  /\ j.at \in {"bridge", "bridged"} =>
       \A i \in DOMAIN j.mine \cap DOMAIN rows : rows[i].official = NoNumber

StageFits(j) ==
  /\ j.todo \subseteq j.rows
  /\ j.at \in {"planned", "dryrun", "reviewed", "refused", "delete", "upsert"} => j.mine = NoPermits
  /\ j.at \in {"planned", "dryrun", "reviewed"} => j.todo = j.rows /\ j.did = {}
  /\ j.at \in {"legacy", "write"} => j.number \in j.todo
  /\ j.at = "commit" => j.todo = {}

\* As long as nobody else has committed, the table is the one that was planned on.
PlanHolds(j, rows) ==
  /\ j.at \in {"planned", "dryrun", "official", "legacy", "write", "commit"} =>
       j.plan = _build_import_plan(rows, j.rows)
  /\ j.at \in {"reviewed", "bridge", "bridged"} =>
       j.plan = _build_bridge_plan(rows, j.rows) /\ Unambiguous(j.rows)

\* What an import has written is what it is through with.
ImportHolds(j, rows) ==
  j.at \in {"official", "legacy", "write", "commit"} =>
    /\ \A i \in DOMAIN j.mine :
         /\ j.mine[i].official \in j.rows \ j.todo
         /\ i \in DOMAIN rows => rows[i].official \in {NoNumber, j.mine[i].official}
    /\ Unambiguous(j.rows) => j.did = {e \in j.plan : e.number \notin j.todo}

BridgeHolds(j) ==
  j.at \in {"bridge", "bridged"} =>
    j.did \subseteq j.plan /\ \A i \in DOMAIN j.mine : \E e \in j.did : e.id = i

\* And what it has found is what the plan found.
FoundHolds(j, rows) ==
  LET view == Over(j.mine, rows) IN
  /\ j.at = "legacy" \/ (j.at = "write" /\ j.tier > 1) => ByOfficial(view, j.number) = {}
  /\ j.at = "write" /\ j.tier = 1 => j.id \in ByOfficial(view, j.number)
  /\ j.at = "write" /\ j.tier = 2 => j.id \in ByLegacyKey(view, j.number)
  /\ j.at = "write" /\ Unambiguous(j.rows) => [id |-> j.id, number |-> j.number] \in j.plan

Reason(j, rows) ==
  \/ j.disturbed \/ ~Unambiguous(j.rows)
  \/ \E i \in DOMAIN rows : rows[i].external \in j.rows /\ rows[i].by = "generic"

ImporterFits(j, rows, next) ==
  j # IdleImporter =>
    /\ IsImporter(j) /\ StageFits(j)
    /\ OwnFits(j.mine, rows, next) /\ FoundFits(j, rows, next)
    /\ ~j.disturbed =>
         PlanHolds(j, rows) /\ ImportHolds(j, rows) /\ BridgeHolds(j) /\ FoundHolds(j, rows)
    /\ j.at = "refused" => j.drifted \/ Reason(j, rows)

\* Two importers write different rows, under different identities; and what one
\* is about to write, the other inserts not.
Apart(j, k, rows) ==
  j # IdleImporter /\ k # IdleImporter =>
    /\ \A i \in DOMAIN j.mine, l \in DOMAIN k.mine : i # l /\ ~SameIdentity(j.mine[i], k.mine[l])
    /\ j.at = "write" /\ j.tier < 3 /\ j.id \in DOMAIN k.mine => j.id \in DOMAIN rows

PermitInv ==
  /\ nextId \in 1..(MaxPermits + 1) /\ sources \in 0..MaxSources
  /\ TableFits(permits, nextId)
  /\ importer = [w \in Importers |-> importer[w]]
  /\ \A w \in Importers : ImporterFits(importer[w], permits, nextId)
  /\ \A w \in Importers : \A v \in Others(w) : Apart(importer[w], importer[v], permits)

-----------------------------------------------------------------------------
(* Rows, tables and keys *)

\* Rows over the rows of another table; a row put into a table.
LEMMA OverRows ==
  ASSUME NEW rows, NEW under
  PROVE  /\ DOMAIN Over(rows, under) = DOMAIN rows \cup DOMAIN under
         /\ \A i \in DOMAIN rows : Over(rows, under)[i] = rows[i]
         /\ \A i \in DOMAIN under : i \notin DOMAIN rows => Over(rows, under)[i] = under[i]
BY DEF Over

\* A row put into a table is there, and the others are as they were.
LEMMA WithRow ==
  ASSUME NEW rows, NEW i, NEW p
  PROVE  /\ DOMAIN With(rows, i, p) = DOMAIN rows \cup {i} /\ With(rows, i, p)[i] = p
         /\ \A k \in DOMAIN rows : k # i => With(rows, i, p)[k] = rows[k]
BY DEF With

\* A number begins with one key, which is no number.
LEMMA KeyOf ==
  ASSUME NEW n \in Numbers
  PROVE  legacy_key(n) \in LegacyKeys /\ n \in legacy_key(n) /\ legacy_key(n) \notin Numbers
<1>1. \E k \in LegacyKeys : n \in k
  BY PermitAssumption
<1>2. legacy_key(n) \in LegacyKeys /\ n \in legacy_key(n)
  BY <1>1, Zenon DEF legacy_key
<1> QED BY <1>2, PermitAssumption

\* The rows of a table, and tables with a row more.
LEMMA TableRows ==
  ASSUME NEW rows, IsTable(rows)
  PROVE  /\ rows = [i \in DOMAIN rows |-> rows[i]]
         /\ \A i \in DOMAIN rows : i \in Ids /\ rows[i] \in Permit
         /\ \A i \in DOMAIN rows : /\ rows[i].external \in LegacyKeys \cup Numbers
                                   /\ rows[i].official \in Numbers \cup {NoNumber}
BY DEF IsTable, Permit

\* A table with a row more is a table.
LEMMA TableWith ==
  ASSUME NEW rows, IsTable(rows), NEW i \in Ids, NEW p \in Permit
  PROVE  IsTable(With(rows, i, p))
BY DEF IsTable, With

\* Tables over one another are a table.
LEMMA TableOver ==
  ASSUME NEW rows, IsTable(rows), NEW under, IsTable(under)
  PROVE  IsTable(Over(rows, under))
BY DEF IsTable, Over

\* No rows are a table.
LEMMA NoRowYet == DOMAIN NoPermits = {} /\ IsTable(NoPermits)
BY DEF NoPermits, IsTable

\* Identities are the same both ways.
LEMMA SameBothWays ==
  ASSUME NEW p, NEW q
  PROVE  SameIdentity(p, q) <=> SameIdentity(q, p)
BY DEF SameIdentity

\* Nothing written fits over any table.
LEMMA NoneOwned ==
  ASSUME NEW rows, NEW next, TableFits(rows, next)
  PROVE  OwnFits(NoPermits, rows, next) /\ Over(NoPermits, rows) = rows
<1>1. rows = [i \in DOMAIN rows |-> rows[i]]
  BY TableRows DEF TableFits
<1>2. Over(NoPermits, rows) = rows
  BY <1>1, NoRowYet DEF Over
<1> QED BY <1>2, NoRowYet DEF OwnFits, TableFits

-----------------------------------------------------------------------------
(* Importers *)

Stages == {"planned", "dryrun", "official", "legacy", "write", "commit",
           "refused", "reviewed", "bridge", "bridged", "delete", "upsert"}

\* The parts of an importer's record.
ImporterPieces(j) ==
  /\ j.at \in Stages /\ j.rows \subseteq Numbers /\ j.plan \subseteq Entry /\ j.todo \subseteq Numbers
  /\ j.number \in Numbers \cup {NoNumber} /\ j.id \in Ids \cup {0} /\ j.tier \in 1..3
  /\ IsTable(j.mine) /\ j.did \subseteq Entry /\ j.full \in BOOLEAN /\ j.gone \subseteq Ids
  /\ j.disturbed \in BOOLEAN /\ j.drifted \in BOOLEAN

\* The parts are of their types.
LEMMA ImporterParts == ASSUME NEW j, IsImporter(j) PROVE ImporterPieces(j)
BY DEF IsImporter, ImporterPieces, Stages

\* One who is idle is no importer at work.
LEMMA IdleParts ==
  /\ IdleImporter.at = "idle" /\ \A j : ImporterPieces(j) => j # IdleImporter /\ j.at # "idle"
BY DEF IdleImporter, ImporterPieces, Stages

\* What the invariant says of an importer at work.
LEMMA AtWork ==
  ASSUME PermitInv, NEW w \in Importers, Working(w)
  PROVE  /\ importer[w] # IdleImporter /\ IsImporter(importer[w]) /\ ImporterPieces(importer[w])
         /\ StageFits(importer[w]) /\ OwnFits(importer[w].mine, permits, nextId)
         /\ FoundFits(importer[w], permits, nextId)
         /\ ~importer[w].disturbed =>
              /\ PlanHolds(importer[w], permits) /\ ImportHolds(importer[w], permits)
              /\ BridgeHolds(importer[w]) /\ FoundHolds(importer[w], permits)
         /\ importer[w].at = "refused" => importer[w].drifted \/ Reason(importer[w], permits)
         /\ View(w) = Over(importer[w].mine, permits) /\ OwnRows(w) = importer[w].mine
BY ImporterParts, IdleParts DEF PermitInv, ImporterFits, Working, View, OwnRows

\* What an importer sees: the rows it has written, and the others as committed.
LEMMA Sees ==
  ASSUME PermitInv, NEW w \in Importers, Working(w)
  PROVE  /\ DOMAIN View(w) = DOMAIN importer[w].mine \cup DOMAIN permits
         /\ \A i \in DOMAIN importer[w].mine : View(w)[i] = importer[w].mine[i]
         /\ \A i \in DOMAIN permits : i \notin DOMAIN importer[w].mine => View(w)[i] = permits[i]
<1>1. View(w) = Over(importer[w].mine, permits)
  BY AtWork
<1> QED BY <1>1 DEF Over

\* To be at work is not to be idle.
LEMMA WorksOrIdles ==
  ASSUME PermitInv, NEW w \in Importers
  PROVE  Working(w) <=> importer[w] # IdleImporter
<1>1. CASE importer[w] = IdleImporter
  BY <1>1, IdleParts DEF Working
<1>2. CASE importer[w] # IdleImporter
  <2>1. ImporterPieces(importer[w])
    BY <1>2, ImporterParts DEF PermitInv, ImporterFits
  <2> QED BY <1>2, <2>1, IdleParts DEF Working
<1> QED BY <1>1, <1>2

\* What fits goes on fitting as ids are given out.
LEMMA LaterFits ==
  ASSUME NEW j, NEW rows, NEW next \in Nat, NEW later \in Nat, next <= later,
         ImporterFits(j, rows, next)
  PROVE  ImporterFits(j, rows, later)
<1>1. CASE j = IdleImporter
  BY <1>1 DEF ImporterFits
<1>2. CASE j # IdleImporter
  <2>1. ImporterPieces(j) /\ OwnFits(j.mine, rows, next) /\ FoundFits(j, rows, next)
    BY <1>2, ImporterParts DEF ImporterFits
  <2>2. DOMAIN j.mine \subseteq Nat /\ j.id \in Nat
    BY <2>1, TableRows, PermitAssumption DEF ImporterPieces, Ids
  <2>3. OwnFits(j.mine, rows, later) /\ FoundFits(j, rows, later)
    BY <2>1, <2>2 DEF OwnFits, FoundFits
  <2> QED BY <1>2, <2>3 DEF ImporterFits
<1> QED BY <1>1, <1>2

\* An importer takes a step that commits nothing.
LEMMA PutKeeps ==
  ASSUME PermitInv, NEW w \in Importers, NEW j, Put(w, j), UNCHANGED permits,
         nextId' \in {nextId, nextId + 1}, nextId' \in 1..(MaxPermits + 1), sources' \in 0..MaxSources,
         ImporterFits(j, permits, nextId'),
         \A v \in Others(w) : Apart(j, importer[v], permits) /\ Apart(importer[v], j, permits)
  PROVE  PermitInv'
<1>1. nextId \in Nat /\ nextId' \in Nat /\ nextId <= nextId'
  BY PermitAssumption DEF PermitInv
<1>2. /\ importer' = [v \in Importers |-> importer'[v]]
      /\ \A v \in Importers : importer'[v] = IF v = w THEN j ELSE importer[v]
  BY DEF PermitInv, Put
<1>3. TableFits(permits, nextId')
  <2>1. DOMAIN permits \subseteq Nat
    BY TableRows, PermitAssumption DEF PermitInv, TableFits, Ids
  <2> QED BY <1>1, <2>1 DEF PermitInv, TableFits
<1>4. \A v \in Importers : ImporterFits(importer[v], permits, nextId')
  BY <1>1, LaterFits DEF PermitInv
<1>5. \A v \in Importers : ImporterFits(importer'[v], permits, nextId')
  BY <1>2, <1>4
<1>6. \A u \in Importers : \A v \in Others(u) : Apart(importer'[u], importer'[v], permits)
  <2> TAKE u \in Importers
  <2> TAKE v \in Others(u)
  <2>1. CASE u = w
    BY <1>2, <2>1 DEF Others
  <2>2. CASE v = w
    BY <1>2, <2>2 DEF Others
  <2>3. CASE u # w /\ v # w
    BY <1>2, <2>3 DEF Others, PermitInv
  <2> QED BY <2>1, <2>2, <2>3
<1> QED BY <1>2, <1>3, <1>5, <1>6 DEF PermitInv

\* And writes nothing either: it goes on, gives up or has found a row it sees.
LEMMA GoesOn ==
  ASSUME PermitInv, NEW w \in Importers, NEW j, Put(w, j), UNCHANGED <<permits, nextId>>,
         sources' \in 0..MaxSources, ImporterFits(j, permits, nextId),
         j = IdleImporter \/ j.mine = NoPermits \/ (Working(w) /\ j.mine = importer[w].mine),
         j # IdleImporter /\ j.at = "write" /\ j.tier < 3 =>
           Working(w) /\ j.id \in DOMAIN View(w)
  PROVE  PermitInv'
<1>1. ASSUME NEW v \in Others(w)
      PROVE  Apart(j, importer[v], permits) /\ Apart(importer[v], j, permits)
  <2>1. v \in Importers /\ w \in Others(v)
    BY DEF Others
  <2>2. /\ Apart(importer[w], importer[v], permits) /\ Apart(importer[v], importer[w], permits)
    BY <2>1 DEF PermitInv
  <2>3. CASE j = IdleImporter
    BY <2>3 DEF Apart
  <2>4. CASE j # IdleImporter /\ j.mine = NoPermits
    <3>1. Apart(importer[v], j, permits)
      BY <2>4, NoRowYet DEF Apart
    <3>2. ASSUME importer[v] # IdleImporter, j.at = "write" /\ j.tier < 3, j.id \in DOMAIN importer[v].mine
          PROVE  j.id \in DOMAIN permits
      <4>1. Working(w) /\ j.id \in DOMAIN View(w)
        BY <2>4, <3>2
      <4>2. j.id \in DOMAIN importer[w].mine \cup DOMAIN permits /\ importer[w] # IdleImporter
        BY <4>1, AtWork, Sees
      <4> QED BY <2>2, <3>2, <4>2 DEF Apart
    <3>3. Apart(j, importer[v], permits)
      BY <2>4, <3>2, NoRowYet DEF Apart
    <3> QED BY <3>1, <3>3
  <2>5. CASE j # IdleImporter /\ Working(w) /\ j.mine = importer[w].mine
    <3>1. importer[w] # IdleImporter
      BY <2>5, AtWork
    <3>2. Apart(importer[v], j, permits)
      BY <2>2, <2>5, <3>1 DEF Apart
    <3>3. ASSUME importer[v] # IdleImporter, j.at = "write" /\ j.tier < 3, j.id \in DOMAIN importer[v].mine
          PROVE  j.id \in DOMAIN permits
      <4>1. Working(w) /\ j.id \in DOMAIN View(w)
        BY <2>5, <3>3
      <4>2. j.id \in DOMAIN importer[w].mine \cup DOMAIN permits
        BY <4>1, AtWork, Sees
      <4> QED BY <2>2, <3>1, <3>3, <4>2 DEF Apart
    <3>4. Apart(j, importer[v], permits)
      BY <2>2, <2>5, <3>1, <3>3 DEF Apart
    <3> QED BY <3>2, <3>4
  <2> QED BY <2>3, <2>4, <2>5
<1>2. nextId' \in {nextId, nextId + 1} /\ nextId' \in 1..(MaxPermits + 1)
  BY DEF PermitInv
<1>3. ImporterFits(j, permits, nextId') /\ UNCHANGED permits
  OBVIOUS
<1> QED BY <1>1, <1>2, <1>3, PutKeeps

\* An importer gives up, because its source is another or for a reason.
LEMMA GivingUpKeeps ==
  ASSUME PermitInv, NEW w \in Importers, Working(w), NEW drifted \in BOOLEAN,
         Put(w, [Refused(w) EXCEPT !.drifted = drifted]),
         UNCHANGED <<permits, nextId, sources>>, drifted \/ Reason(importer[w], permits)
  PROVE  PermitInv'
<1> DEFINE j == importer[w]
           k == [Refused(w) EXCEPT !.drifted = drifted]
<1>1. IsImporter(j) /\ StageFits(j)
  BY AtWork
<1>2. /\ k.at = "refused" /\ k.rows = j.rows /\ k.todo = j.todo /\ k.mine = NoPermits
      /\ k.disturbed = j.disturbed /\ k.drifted = drifted
  BY <1>1 DEF Refused, IsImporter
<1>3. IsImporter(k)
  BY <1>1, <1>2, NoRowYet DEF Refused, IsImporter
<1> HIDE DEF k
<1>4. StageFits(k) /\ FoundFits(k, permits, nextId) /\ OwnFits(k.mine, permits, nextId)
  BY <1>1, <1>2, NoneOwned DEF StageFits, FoundFits, PermitInv
<1>5. PlanHolds(k, permits) /\ ImportHolds(k, permits) /\ BridgeHolds(k) /\ FoundHolds(k, permits)
  BY <1>2 DEF PlanHolds, ImportHolds, BridgeHolds, FoundHolds
<1>6. k.drifted \/ Reason(k, permits)
  BY <1>2 DEF Reason
<1>7. ImporterFits(k, permits, nextId)
  BY <1>3, <1>4, <1>5, <1>6 DEF ImporterFits
<1> QED BY <1>2, <1>7, GoesOn DEF k, PermitInv

\* An importer that has a reason gives up.
LEMMA RefusalKeeps ==
  ASSUME PermitInv, NEW w \in Importers, Working(w), Put(w, Refused(w)),
         UNCHANGED <<permits, nextId, sources>>, Reason(importer[w], permits)
  PROVE  PermitInv'
<1> DEFINE drifted == importer[w].drifted
<1>1. IsImporter(importer[w]) /\ drifted \in BOOLEAN
  BY AtWork DEF ImporterPieces
<1>2. Refused(w) = [Refused(w) EXCEPT !.drifted = drifted]
  BY <1>1 DEF Refused, IsImporter
<1>3. Put(w, [Refused(w) EXCEPT !.drifted = drifted])
  BY <1>2
<1> QED BY <1>1, <1>3, GivingUpKeeps

\* Rows that take the place of the committed ones keep what they are known by and
\* their numbers, and leave alone what others have written and found.
Succeeds(w, rows) ==
  /\ \A i \in DOMAIN rows \cap DOMAIN permits :
       /\ rows[i].external = permits[i].external
       /\ permits[i].official # NoNumber =>
            /\ rows[i].official # NoNumber
            /\ legacy_key(rows[i].official) = legacy_key(permits[i].official)
  /\ \A n \in Numbers : ByLegacyKey(rows, n) \subseteq ByLegacyKey(permits, n)
  /\ \A v \in Others(w) : importer[v] # IdleImporter =>
       LET j == importer[v] IN
       /\ \A i \in DOMAIN j.mine :
            /\ i \in DOMAIN rows <=> i \in DOMAIN permits
            /\ i \in DOMAIN rows => rows[i] = permits[i]
       /\ \A i \in DOMAIN j.mine, l \in DOMAIN rows \ DOMAIN j.mine : ~SameIdentity(j.mine[i], rows[l])
       /\ j.at = "write" /\ j.tier < 3 /\ j.id \in DOMAIN rows => j.id \in DOMAIN permits

\* An importer commits, and is through or goes on with nothing written.
LEMMA CommitKeeps ==
  ASSUME PermitInv, NEW w \in Importers, NEW j, NEW rows, Commits(w, j, rows),
         nextId' \in {nextId, nextId + 1}, nextId' \in 1..(MaxPermits + 1), UNCHANGED sources,
         ImporterFits(j, rows, nextId'), j # IdleImporter => j.mine = NoPermits /\ j.at # "write",
         TableFits(rows, nextId'), Succeeds(w, rows)
  PROVE  PermitInv'
<1>1. nextId \in Nat /\ nextId' \in Nat /\ nextId <= nextId'
  BY PermitAssumption DEF PermitInv
<1> DEFINE late(v) == [importer[v] EXCEPT !.disturbed = TRUE]
<1>2. /\ importer' = [v \in Importers |-> importer'[v]] /\ importer'[w] = j /\ permits' = rows
      /\ \A v \in Others(w) : importer'[v] = IF Working(v) THEN late(v) ELSE importer[v]
  BY DEF PermitInv, Commits, Others
<1>3. \A v \in Others(w) : v \in Importers /\ (Working(v) <=> importer[v] # IdleImporter)
  BY WorksOrIdles DEF Others
<1>4. ASSUME NEW v \in Others(w), Working(v)
      PROVE  /\ late(v) # IdleImporter /\ late(v).mine = importer[v].mine /\ late(v).at = importer[v].at
             /\ late(v).tier = importer[v].tier /\ late(v).id = importer[v].id
             /\ ImporterFits(late(v), rows, nextId')
  <2> DEFINE k == late(v)
             i == importer[v]
  <2>1. /\ IsImporter(i) /\ StageFits(i) /\ OwnFits(i.mine, permits, nextId)
        /\ FoundFits(i, permits, nextId) /\ ImporterPieces(i) /\ i # IdleImporter
    BY <1>3, <1>4, AtWork
  <2>2. IsImporter(k)
    BY <2>1 DEF IsImporter
  <2>3. /\ k.at = i.at /\ k.rows = i.rows /\ k.todo = i.todo /\ k.number = i.number /\ k.id = i.id
        /\ k.tier = i.tier /\ k.mine = i.mine /\ k.did = i.did /\ k.disturbed = TRUE
    BY <2>1 DEF IsImporter
  <2> HIDE DEF k
  <2>4. StageFits(k)
    BY <2>1, <2>3 DEF StageFits
  <2>5. DOMAIN i.mine \subseteq Nat /\ i.id \in Nat
    BY <2>1, TableRows, PermitAssumption DEF ImporterPieces, Ids
  <2>6. Unique(Over(i.mine, rows))
    <3> DEFINE old == Over(i.mine, permits)
               new == Over(i.mine, rows)
    <3>1. /\ DOMAIN new = DOMAIN i.mine \cup DOMAIN rows
          /\ \A l \in DOMAIN i.mine : l \in DOMAIN old /\ new[l] = i.mine[l] /\ old[l] = i.mine[l]
          /\ \A l \in DOMAIN rows \ DOMAIN i.mine : new[l] = rows[l]
      BY DEF Over
    <3>2. Unique(old) /\ Unique(rows)
      BY <2>1 DEF OwnFits, TableFits
    <3> HIDE DEF old, new
    <3>3. \A l \in DOMAIN i.mine, m \in DOMAIN rows \ DOMAIN i.mine : ~SameIdentity(i.mine[l], rows[m])
      BY <1>3, <1>4 DEF Succeeds
    <3>4. ASSUME NEW l \in DOMAIN new, NEW m \in DOMAIN new, l # m
          PROVE  ~SameIdentity(new[l], new[m])
      <4>1. CASE l \in DOMAIN i.mine /\ m \in DOMAIN i.mine
        BY <3>1, <3>2, <3>4, <4>1 DEF Unique
      <4>2. CASE l \in DOMAIN i.mine /\ m \notin DOMAIN i.mine
        BY <3>1, <3>3, <4>2
      <4>3. CASE l \notin DOMAIN i.mine /\ m \in DOMAIN i.mine
        BY <3>1, <3>3, <4>3, SameBothWays
      <4>4. CASE l \notin DOMAIN i.mine /\ m \notin DOMAIN i.mine
        BY <3>1, <3>2, <3>4, <4>4 DEF Unique
      <4> QED BY <4>1, <4>2, <4>3, <4>4
    <3> QED BY <3>4 DEF Unique, new
  <2>7. ASSUME NEW l \in DOMAIN i.mine
        PROVE  /\ l < nextId' /\ RowFits(i.mine[l]) /\ i.mine[l].official # NoNumber
               /\ ByLegacyKey(rows, i.mine[l].official) \subseteq DOMAIN i.mine
               /\ l \in DOMAIN rows =>
                    /\ i.mine[l].external = rows[l].external
                    /\ rows[l].official # NoNumber =>
                         legacy_key(rows[l].official) = legacy_key(i.mine[l].official)
    <3>1. /\ l < nextId /\ RowFits(i.mine[l]) /\ i.mine[l].official # NoNumber
          /\ ByLegacyKey(permits, i.mine[l].official) \subseteq DOMAIN i.mine
      BY <2>1 DEF OwnFits
    <3>2. l < nextId'
      BY <1>1, <2>5, <3>1
    <3>3. i.mine[l].official \in Numbers
      BY <3>1 DEF RowFits, Permit
    <3>4. ByLegacyKey(rows, i.mine[l].official) \subseteq ByLegacyKey(permits, i.mine[l].official)
      BY <3>3 DEF Succeeds
    <3>5. l \in DOMAIN rows => l \in DOMAIN permits /\ rows[l] = permits[l]
      BY <1>3, <1>4 DEF Succeeds
    <3>6. l \in DOMAIN permits =>
            /\ i.mine[l].external = permits[l].external
            /\ permits[l].official # NoNumber =>
                 legacy_key(permits[l].official) = legacy_key(i.mine[l].official)
      BY <2>1 DEF OwnFits
    <3> QED BY <3>1, <3>2, <3>4, <3>5, <3>6
  <2>8. OwnFits(k.mine, rows, nextId')
    <3>1. IsTable(i.mine)
      BY <2>1 DEF OwnFits
    <3> QED BY <2>3, <2>6, <2>7, <3>1 DEF OwnFits
  <2>9. FoundFits(k, rows, nextId')
    <3>0. ASSUME i.at \in {"bridge", "bridged"}, NEW l \in DOMAIN i.mine \cap DOMAIN rows
          PROVE  rows[l].official = NoNumber
      <4>1. l \in DOMAIN permits /\ rows[l] = permits[l]
        BY <1>3, <1>4 DEF Succeeds
      <4> QED BY <2>1, <3>0, <4>1 DEF FoundFits
    <3> SUFFICES ASSUME i.at = "write"
                 PROVE  /\ i.tier = 3 => ByLegacyKey(rows, i.number) \subseteq DOMAIN i.mine
                        /\ i.tier < 3 => i.id < nextId'
                        /\ i.tier < 3 /\ i.id \in DOMAIN Over(i.mine, rows) =>
                             /\ i.tier = 1 => Over(i.mine, rows)[i.id].official # NoNumber
                             /\ i.tier = 2 => Over(i.mine, rows)[i.id].external = legacy_key(i.number)
      BY <2>3, <3>0 DEF FoundFits
    <3>1. i.tier = 3 => ByLegacyKey(rows, i.number) \subseteq DOMAIN i.mine
      <4>1. i.number \in Numbers
        BY <2>1 DEF StageFits, ImporterPieces
      <4> QED BY <2>1, <4>1 DEF FoundFits, Succeeds
    <3>2. i.tier < 3 => i.id < nextId'
      BY <1>1, <2>1, <2>5 DEF FoundFits
    <3>3. ASSUME i.tier < 3, i.id \in DOMAIN Over(i.mine, rows)
          PROVE  /\ i.id \in DOMAIN Over(i.mine, permits)
                 /\ Over(i.mine, permits)[i.id].official # NoNumber =>
                      Over(i.mine, rows)[i.id].official # NoNumber
                 /\ Over(i.mine, rows)[i.id].external = Over(i.mine, permits)[i.id].external
      <4>1. CASE i.id \in DOMAIN i.mine
        BY <4>1 DEF Over
      <4>2. CASE i.id \notin DOMAIN i.mine
        <5>1. i.id \in DOMAIN rows
          BY <3>3, <4>2 DEF Over
        <5>2. i.id \in DOMAIN permits
          BY <1>3, <1>4, <3>3, <5>1 DEF Succeeds
        <5>3. Over(i.mine, rows)[i.id] = rows[i.id] /\ Over(i.mine, permits)[i.id] = permits[i.id]
          BY <4>2, <5>1, <5>2 DEF Over
        <5>4. i.id \in DOMAIN Over(i.mine, permits)
          BY <5>2 DEF Over
        <5> QED BY <5>1, <5>2, <5>3, <5>4 DEF Succeeds
      <4> QED BY <4>1, <4>2
    <3> QED BY <2>1, <3>1, <3>2, <3>3 DEF FoundFits
  <2>10. ImporterFits(k, rows, nextId')
    BY <2>2, <2>3, <2>4, <2>8, <2>9 DEF ImporterFits, Reason
  <2>11. k # IdleImporter
    BY <2>2, ImporterParts, IdleParts
  <2> QED BY <2>3, <2>10, <2>11 DEF k
<1> HIDE DEF late
<1>5. ASSUME NEW v \in Others(w), ~Working(v)
      PROVE  importer'[v] = IdleImporter /\ ImporterFits(importer'[v], rows, nextId')
  <2>1. importer'[v] = IdleImporter
    BY <1>2, <1>3, <1>5
  <2> QED BY <2>1 DEF ImporterFits
<1>6. \A v \in Importers : ImporterFits(importer'[v], rows, nextId')
  BY <1>2, <1>4, <1>5 DEF Others
<1>7. \A u \in Importers : \A v \in Others(u) : Apart(importer'[u], importer'[v], rows)
  <2> TAKE u \in Importers
  <2> TAKE v \in Others(u)
  <2>1. CASE u = w
    BY <1>2, <2>1, NoRowYet DEF Apart
  <2>2. CASE v = w
    BY <1>2, <2>2, NoRowYet DEF Apart
  <2>3. CASE u # w /\ v # w
    <3>1. u \in Others(w) /\ v \in Others(w)
      BY <2>3 DEF Others
    <3>2. CASE ~Working(u) \/ ~Working(v)
      BY <1>5, <3>1, <3>2 DEF Apart
    <3>3. CASE Working(u) /\ Working(v)
      <4>1. Apart(importer[u], importer[v], permits) /\ importer[u] # IdleImporter /\ importer[v] # IdleImporter
        BY <1>3, <3>1, <3>3 DEF PermitInv
      <4>2. importer'[u] = late(u) /\ importer'[v] = late(v)
        BY <1>2, <3>1, <3>3
      <4>3. \A i \in DOMAIN importer[v].mine : i \in DOMAIN permits => i \in DOMAIN rows
        BY <3>1, <4>1 DEF Succeeds
      <4> QED BY <1>4, <3>1, <3>3, <4>1, <4>2, <4>3 DEF Apart
    <3> QED BY <3>2, <3>3
  <2> QED BY <2>1, <2>2, <2>3
<1> QED BY <1>2, <1>6, <1>7 DEF PermitInv

-----------------------------------------------------------------------------
(* Sources and plans *)

\* Any member of a set.
FirstImporter(S) == CHOOSE i \in S : TRUE

\* It is one of them.
LEMMA FirstOf == ASSUME NEW S, S # {} PROVE FirstImporter(S) \in S
BY Zenon DEF FirstImporter

\* The row a plan gives a number, 0 for a row to be inserted.
PlannedId(rows, n) ==
  IF ByOfficial(rows, n) # {} THEN FirstImporter(ByOfficial(rows, n))
  ELSE IF ByLegacyKey(rows, n) # {} THEN FirstImporter(ByLegacyKey(rows, n)) ELSE 0

\* It is the id of a row, or 0.
LEMMA PlannedIds ==
  ASSUME NEW rows, IsTable(rows), NEW n
  PROVE  PlannedId(rows, n) \in Ids \cup {0}
<1>1. ByOfficial(rows, n) \subseteq Ids /\ ByLegacyKey(rows, n) \subseteq Ids
  BY DEF ByOfficial, ByLegacyKey, IsTable
<1> QED BY <1>1, FirstOf DEF PlannedId

\* A plan is made of them.
LEMMA ImportPlan ==
  ASSUME NEW rows, NEW S
  PROVE  _build_import_plan(rows, S) = {[id |-> PlannedId(rows, n), number |-> n] : n \in S}
BY DEF _build_import_plan, PlannedId, FirstImporter

\* A plan has one entry for each number.
LEMMA PlanEntries ==
  ASSUME NEW rows, IsTable(rows), NEW S \in SUBSET Numbers
  PROVE  /\ _build_import_plan(rows, S) \subseteq Entry
         /\ \A e \in _build_import_plan(rows, S) : e.number \in S /\ e.id = PlannedId(rows, e.number)
         /\ \A n \in S : [id |-> PlannedId(rows, n), number |-> n] \in _build_import_plan(rows, S)
         /\ \A e, d \in _build_import_plan(rows, S) : e.number = d.number => e = d
<1>1. _build_import_plan(rows, S) = {[id |-> PlannedId(rows, n), number |-> n] : n \in S}
  BY ImportPlan
<1>2. \A n \in S : PlannedId(rows, n) \in Ids \cup {0}
  BY PlannedIds
<1> QED BY <1>1, <1>2 DEF Entry

\* A bridge has entries for rows that wait for the number.
LEMMA BridgeEntries ==
  ASSUME NEW rows, IsTable(rows), NEW S \in SUBSET Numbers
  PROVE  /\ _build_bridge_plan(rows, S) \subseteq Entry
         /\ \A e \in _build_bridge_plan(rows, S) :
              e.number \in S /\ e.id \in DOMAIN rows /\ e.id \in ByLegacyKey(rows, e.number)
         /\ \A e, d \in _build_bridge_plan(rows, S) : e.number = d.number /\ e.id = d.id => e = d
BY DEF _build_bridge_plan, SafeNumbers, Entry, IsTable

\* A source is fetched.
LEMMA FetchKeeps ==
  ASSUME PermitInv, NEW w \in Importers, NEW at \in Stages, NEW S \in SUBSET Numbers,
         NEW plan \in SUBSET Entry, NEW full \in BOOLEAN, Fetches(w, at, S, plan, full),
         at \in {"planned", "dryrun", "reviewed", "delete", "upsert"},
         at \in {"planned", "dryrun"} => plan = _build_import_plan(permits, S),
         at = "reviewed" => plan = _build_bridge_plan(permits, S) /\ Unambiguous(S)
  PROVE  PermitInv'
<1> DEFINE j == [at |-> at, rows |-> S, plan |-> plan, todo |-> S, number |-> NoNumber,
                 id |-> 0, tier |-> 1, mine |-> NoPermits, did |-> {}, full |-> full,
                 gone |-> DOMAIN permits, disturbed |-> FALSE, drifted |-> FALSE]
<1>1. DOMAIN permits \subseteq Ids /\ TableFits(permits, nextId)
  BY DEF PermitInv, TableFits, IsTable
<1>2. IsImporter(j)
  BY <1>1, NoRowYet DEF IsImporter, Stages
<1>3. /\ j.at = at /\ j.rows = S /\ j.plan = plan /\ j.todo = S /\ j.mine = NoPermits /\ j.did = {}
      /\ j.disturbed = FALSE
  OBVIOUS
<1>4. Put(w, j) /\ UNCHANGED <<permits, nextId>> /\ sources' \in 0..MaxSources
  BY PermitAssumption DEF Fetches, PermitInv
<1> HIDE DEF j
<1>5. StageFits(j) /\ FoundFits(j, permits, nextId) /\ OwnFits(j.mine, permits, nextId)
  BY <1>1, <1>3, NoneOwned DEF StageFits, FoundFits
<1>6. PlanHolds(j, permits) /\ ImportHolds(j, permits) /\ BridgeHolds(j) /\ FoundHolds(j, permits)
  BY <1>3 DEF PlanHolds, ImportHolds, BridgeHolds, FoundHolds
<1>7. ImporterFits(j, permits, nextId)
  BY <1>2, <1>3, <1>5, <1>6 DEF ImporterFits
<1> QED BY <1>3, <1>4, <1>7, GoesOn

\* Plans are made, of an import, of a bridge or none.
LEMMA PlansKeep ==
  ASSUME PermitInv, NEW w \in Importers,
         \/ plan_surrey_identity_import(w) \/ plan_permit_official_source_id_bridge(w)
         \/ scrape_surrey_permits(w)
  PROVE  PermitInv'
<1>1. IsTable(permits)
  BY DEF PermitInv, TableFits
<1>2. CASE plan_surrey_identity_import(w)
  <2>1. PICK S \in SUBSET Numbers, at \in {"planned", "dryrun"} :
          Fetches(w, at, S, _build_import_plan(permits, S), FALSE)
    BY <1>2 DEF plan_surrey_identity_import
  <2>2. _build_import_plan(permits, S) \in SUBSET Entry
    BY <1>1, PlanEntries
  <2>3. FALSE \in BOOLEAN /\ at \in Stages
    BY DEF Stages
  <2> QED BY <2>1, <2>2, <2>3, FetchKeeps
<1>3. CASE plan_permit_official_source_id_bridge(w)
  <2>1. PICK S \in SUBSET Numbers :
          Fetches(w, "reviewed", S, _build_bridge_plan(permits, S), FALSE) /\ Unambiguous(S)
    BY <1>3 DEF plan_permit_official_source_id_bridge
  <2>2. _build_bridge_plan(permits, S) \in SUBSET Entry
    BY <1>1, BridgeEntries
  <2>3. FALSE \in BOOLEAN /\ "reviewed" \in Stages
    BY DEF Stages
  <2> QED BY <2>1, <2>2, <2>3, FetchKeeps
<1>4. CASE scrape_surrey_permits(w)
  <2>1. PICK S \in SUBSET Numbers, full \in BOOLEAN :
          Fetches(w, IF full THEN "delete" ELSE "upsert", S, {}, full)
    BY <1>4 DEF scrape_surrey_permits
  <2>2. {} \in SUBSET Entry /\ "delete" \in Stages /\ "upsert" \in Stages
    BY DEF Stages
  <2>3. CASE full
    <3>1. Fetches(w, "delete", S, {}, full)
      BY <2>1, <2>3
    <3> QED BY <2>2, <3>1, FetchKeeps
  <2>4. CASE ~full
    <3>1. Fetches(w, "upsert", S, {}, full)
      BY <2>1, <2>4
    <3> QED BY <2>2, <3>1, FetchKeeps
  <2> QED BY <2>3, <2>4
<1> QED BY <1>2, <1>3, <1>4

\* The plan is built again: an import begins, or the plan has been disturbed
\* or the source is another.
LEMMA ImportBegins ==
  ASSUME PermitInv, NEW w \in Importers, apply_surrey_identity_import_full(w)
  PROVE  PermitInv'
<1> DEFINE j == importer[w]
           k == [j EXCEPT !.at = "official"]
<1>1. Working(w) /\ j.at \in {"planned", "dryrun"} /\ UNCHANGED <<permits, nextId, sources>>
  BY DEF apply_surrey_identity_import_full, Working
<1>2. /\ IsImporter(j) /\ ImporterPieces(j) /\ StageFits(j) /\ OwnFits(j.mine, permits, nextId)
      /\ ~j.disturbed => PlanHolds(j, permits)
  BY <1>1, AtWork
<1>3. PICK S \in SUBSET Numbers :
        IF _build_import_plan(permits, S) = j.plan THEN Put(w, k) ELSE Put(w, RefusedOver(w, S))
  BY <1>2 DEF apply_surrey_identity_import_full, ImporterPieces
<1>4. CASE _build_import_plan(permits, S) = j.plan
  <2>1. IsImporter(k)
    BY <1>2 DEF IsImporter
  <2>2. /\ k.at = "official" /\ k.rows = j.rows /\ k.plan = j.plan /\ k.todo = j.todo
        /\ k.mine = j.mine /\ k.did = j.did /\ k.disturbed = j.disturbed
    BY <1>2 DEF IsImporter
  <2>3. Put(w, k)
    BY <1>3, <1>4
  <2> HIDE DEF k
  <2>4. StageFits(k) /\ FoundFits(k, permits, nextId)
    BY <1>1, <1>2, <2>2 DEF StageFits, FoundFits
  <2>5. BridgeHolds(k) /\ FoundHolds(k, permits) /\ (~k.disturbed => PlanHolds(k, permits))
    BY <1>1, <1>2, <2>2 DEF PlanHolds, BridgeHolds, FoundHolds
  <2>6. ASSUME ~k.disturbed PROVE ImportHolds(k, permits)
    <3>1. k.did = {} /\ k.todo = k.rows /\ k.mine = NoPermits
      BY <1>1, <1>2, <2>2 DEF StageFits
    <3>2. \A e \in k.plan : e.number \in k.rows
      <4>1. k.plan = _build_import_plan(permits, k.rows)
        BY <2>2, <2>5, <2>6 DEF PlanHolds
      <4>2. IsTable(permits) /\ k.rows \in SUBSET Numbers
        BY <1>2, <2>2 DEF PermitInv, TableFits, ImporterPieces
      <4> QED BY <4>1, <4>2, PlanEntries
    <3>3. k.did = {e \in k.plan : e.number \notin k.todo}
      BY <3>1, <3>2
    <3> QED BY <3>1, <3>3, NoRowYet DEF ImportHolds
  <2>7. ImporterFits(k, permits, nextId)
    BY <1>2, <2>1, <2>2, <2>4, <2>5, <2>6 DEF ImporterFits
  <2> QED BY <1>1, <2>2, <2>3, <2>7, GoesOn DEF PermitInv
<1>5. CASE _build_import_plan(permits, S) # j.plan
  <2>1. Put(w, [Refused(w) EXCEPT !.drifted = (S # j.rows)])
    BY <1>3, <1>5 DEF RefusedOver
  <2>2. S # j.rows \/ Reason(j, permits)
    BY <1>1, <1>2, <1>5 DEF PlanHolds, Reason
  <2>3. (S # j.rows) \in BOOLEAN
    OBVIOUS
  <2> QED BY <1>1, <2>1, <2>2, <2>3, GivingUpKeeps
<1> QED BY <1>4, <1>5

\* And of a bridge.
LEMMA BridgeBegins ==
  ASSUME PermitInv, NEW w \in Importers, apply_permit_official_source_id_bridge(w)
  PROVE  PermitInv'
<1> DEFINE j == importer[w]
           k == [j EXCEPT !.at = "bridge"]
<1>1. Working(w) /\ j.at = "reviewed" /\ UNCHANGED <<permits, nextId, sources>>
  BY DEF apply_permit_official_source_id_bridge, Working
<1>2. /\ IsImporter(j) /\ ImporterPieces(j) /\ StageFits(j) /\ OwnFits(j.mine, permits, nextId)
      /\ ~j.disturbed => PlanHolds(j, permits)
  BY <1>1, AtWork
<1>3. PICK S \in SUBSET Numbers :
        IF _build_bridge_plan(permits, S) = j.plan THEN Put(w, k) ELSE Put(w, RefusedOver(w, S))
  BY DEF apply_permit_official_source_id_bridge
<1>4. CASE _build_bridge_plan(permits, S) = j.plan
  <2>1. IsImporter(k)
    BY <1>2 DEF IsImporter
  <2>2. /\ k.at = "bridge" /\ k.rows = j.rows /\ k.plan = j.plan /\ k.todo = j.todo
        /\ k.mine = j.mine /\ k.did = j.did /\ k.disturbed = j.disturbed
    BY <1>2 DEF IsImporter
  <2>3. Put(w, k)
    BY <1>3, <1>4
  <2> HIDE DEF k
  <2>4. StageFits(k) /\ FoundFits(k, permits, nextId)
    BY <1>1, <1>2, <2>2, NoRowYet DEF StageFits, FoundFits
  <2>5. ImportHolds(k, permits) /\ FoundHolds(k, permits)
    BY <2>2 DEF ImportHolds, FoundHolds
  <2>6. ~k.disturbed => PlanHolds(k, permits)
    BY <1>1, <1>2, <2>2 DEF PlanHolds
  <2>7. BridgeHolds(k)
    BY <1>1, <1>2, <2>2, NoRowYet DEF StageFits, BridgeHolds
  <2>8. ImporterFits(k, permits, nextId)
    BY <1>2, <2>1, <2>2, <2>4, <2>5, <2>6, <2>7 DEF ImporterFits
  <2> QED BY <1>1, <2>2, <2>3, <2>8, GoesOn DEF PermitInv
<1>5. CASE _build_bridge_plan(permits, S) # j.plan
  <2>1. Put(w, [Refused(w) EXCEPT !.drifted = (S # j.rows)])
    BY <1>3, <1>5 DEF RefusedOver
  <2>2. S # j.rows \/ Reason(j, permits)
    BY <1>1, <1>2, <1>5 DEF PlanHolds, Reason
  <2>3. (S # j.rows) \in BOOLEAN
    OBVIOUS
  <2> QED BY <1>1, <2>1, <2>2, <2>3, GivingUpKeeps
<1> QED BY <1>4, <1>5

\* A row that has a number in the importer's view, or waits for it there.
LEMMA SeenRows ==
  ASSUME PermitInv, NEW w \in Importers, Working(w), NEW n \in Numbers
  PROVE  /\ \A i \in ByOfficial(View(w), n) :
              /\ i \in DOMAIN View(w) /\ i \in Ids /\ i < nextId
              /\ View(w)[i].official = n
         /\ ByLegacyKey(View(w), n) = ByLegacyKey(permits, n) \ DOMAIN importer[w].mine
         /\ \A i \in ByLegacyKey(View(w), n) : i \in DOMAIN View(w) /\ i \in Ids /\ i < nextId
<1>1. /\ OwnFits(importer[w].mine, permits, nextId) /\ TableFits(permits, nextId)
      /\ DOMAIN importer[w].mine \subseteq Ids /\ DOMAIN permits \subseteq Ids
  BY AtWork DEF PermitInv, OwnFits, TableFits, IsTable
<1>2. \A i \in DOMAIN View(w) : i \in Ids /\ i < nextId
  BY <1>1, Sees DEF OwnFits, TableFits
<1>3. \A i \in DOMAIN importer[w].mine : View(w)[i].official # NoNumber
  BY <1>1, Sees DEF OwnFits
<1>4. ByLegacyKey(View(w), n) = ByLegacyKey(permits, n) \ DOMAIN importer[w].mine
  BY <1>3, Sees DEF ByLegacyKey
<1> QED BY <1>2, <1>4 DEF ByOfficial, ByLegacyKey

\* Before anybody disturbs it, an import sees of the numbers it has still to do
\* what its plan saw, unless two numbers have one key.
LEMMA SeesAsPlanned ==
  ASSUME PermitInv, NEW w \in Importers, Working(w), ~importer[w].disturbed,
         importer[w].at \in {"official", "legacy", "write", "commit"}, NEW n \in importer[w].todo
  PROVE  /\ ByOfficial(View(w), n) = ByOfficial(permits, n)
         /\ Unambiguous(importer[w].rows) => ByLegacyKey(View(w), n) = ByLegacyKey(permits, n)
<1> DEFINE j == importer[w]
<1>1. /\ ImportHolds(j, permits) /\ StageFits(j) /\ ImporterPieces(j) /\ OwnFits(j.mine, permits, nextId)
  BY AtWork
<1>2. \A i \in DOMAIN j.mine :
        /\ j.mine[i].official \in j.rows \ j.todo
        /\ i \in DOMAIN permits => permits[i].official \in {NoNumber, j.mine[i].official}
  BY <1>1 DEF ImportHolds
<1>3. n \in Numbers /\ n \in j.rows /\ n # NoNumber
  BY <1>1, PermitAssumption DEF StageFits, ImporterPieces
<1>4. ByOfficial(View(w), n) = ByOfficial(permits, n)
  <2>1. ASSUME NEW i \in ByOfficial(View(w), n) PROVE i \in ByOfficial(permits, n)
    <3>1. i \in DOMAIN View(w) /\ View(w)[i].official = n
      BY <2>1 DEF ByOfficial
    <3>2. i \notin DOMAIN j.mine
      BY <1>2, <3>1, Sees
    <3>3. i \in DOMAIN permits /\ permits[i].official = n
      BY <3>1, <3>2, Sees
    <3> QED BY <3>3 DEF ByOfficial
  <2>2. ASSUME NEW i \in ByOfficial(permits, n) PROVE i \in ByOfficial(View(w), n)
    <3>1. i \in DOMAIN permits /\ permits[i].official = n
      BY <2>2 DEF ByOfficial
    <3>2. i \notin DOMAIN j.mine
      BY <1>2, <1>3, <3>1
    <3>3. i \in DOMAIN View(w) /\ View(w)[i].official = n
      BY <3>1, <3>2, Sees
    <3> QED BY <3>3 DEF ByOfficial
  <2> QED BY <2>1, <2>2
<1>5. ASSUME Unambiguous(j.rows) PROVE ByLegacyKey(View(w), n) = ByLegacyKey(permits, n)
  <2>1. ASSUME NEW i \in ByLegacyKey(permits, n), i \in DOMAIN j.mine PROVE FALSE
    <3>1. /\ i \in DOMAIN permits /\ permits[i].external = legacy_key(n)
          /\ j.mine[i].external = permits[i].external /\ RowFits(j.mine[i])
          /\ j.mine[i].official \in j.rows \ j.todo
      BY <1>1, <1>2, <2>1 DEF ByLegacyKey, OwnFits
    <3>2. j.mine[i].official \in Numbers /\ j.mine[i].official # NoNumber
      BY <1>1, <3>1, PermitAssumption DEF ImporterPieces
    <3>3. j.mine[i].external \notin Numbers
      BY <1>3, <3>1, KeyOf
    <3>4. legacy_key(j.mine[i].official) = legacy_key(n)
      BY <3>1, <3>2, <3>3 DEF RowFits
    <3> QED BY <1>3, <1>5, <3>1, <3>4 DEF Unambiguous, SafeNumbers
  <2>2. ByLegacyKey(View(w), n) = ByLegacyKey(permits, n) \ DOMAIN j.mine
    BY <1>3, SeenRows
  <2> QED BY <2>1, <2>2
<1> QED BY <1>4, <1>5

\* The look-up by number.
LEMMA FindOfficialKeeps ==
  ASSUME PermitInv, NEW w \in Importers, FindOfficial(w)
  PROVE  PermitInv'
<1> DEFINE j == importer[w]
<1>1. Working(w) /\ j.at = "official" /\ UNCHANGED <<permits, nextId, sources>>
  BY DEF FindOfficial, Working
<1>2. /\ IsImporter(j) /\ ImporterPieces(j) /\ StageFits(j) /\ OwnFits(j.mine, permits, nextId)
      /\ ~j.disturbed => PlanHolds(j, permits) /\ ImportHolds(j, permits)
      /\ View(w) = Over(j.mine, permits)
  BY <1>1, AtWork
<1>3. PICK n \in j.todo :
        Put(w, [j EXCEPT !.number = n, !.tier = 1,
                !.at = IF ByOfficial(View(w), n) = {} THEN "legacy" ELSE "write",
                !.id = IF ByOfficial(View(w), n) = {} THEN 0 ELSE FirstImporter(ByOfficial(View(w), n))])
  BY DEF FindOfficial, FirstImporter
<1>4. n \in Numbers /\ n \in j.rows
  BY <1>2 DEF ImporterPieces, StageFits
<1> DEFINE found == ByOfficial(View(w), n)
           at == IF found = {} THEN "legacy" ELSE "write"
           id == IF found = {} THEN 0 ELSE FirstImporter(found)
           k == [j EXCEPT !.number = n, !.tier = 1, !.at = at, !.id = id]
<1>5. id \in Ids \cup {0} /\ (found # {} => id \in found)
  BY <1>1, <1>4, SeenRows, FirstOf
<1>6. at \in {"legacy", "write"} /\ (at = "legacy" <=> found = {}) /\ Put(w, k)
  BY <1>3
<1> HIDE DEF found, at, id
<1>7. IsImporter(k)
  <2>1. k.mine = j.mine /\ n \in Numbers \cup {NoNumber} /\ 1 \in 1..3
    BY <1>2, <1>4 DEF IsImporter
  <2> QED BY <1>2, <1>5, <1>6, <2>1 DEF IsImporter
<1>8. /\ k.at = at /\ k.rows = j.rows /\ k.plan = j.plan /\ k.todo = j.todo /\ k.mine = j.mine
      /\ k.did = j.did /\ k.disturbed = j.disturbed /\ k.number = n /\ k.id = id /\ k.tier = 1
  BY <1>2 DEF IsImporter
<1> HIDE DEF k
<1>9. StageFits(k)
  BY <1>1, <1>2, <1>6, <1>8 DEF StageFits
<1>10. at = "write" => id \in DOMAIN View(w) /\ id < nextId /\ View(w)[id].official = n
  BY <1>1, <1>4, <1>5, <1>6, SeenRows DEF found
<1>11. FoundFits(k, permits, nextId)
  BY <1>2, <1>4, <1>6, <1>8, <1>10, PermitAssumption DEF FoundFits
<1>12. ASSUME ~k.disturbed
       PROVE  /\ PlanHolds(k, permits) /\ ImportHolds(k, permits) /\ BridgeHolds(k)
              /\ FoundHolds(k, permits)
  <2>1. PlanHolds(k, permits) /\ ImportHolds(k, permits) /\ BridgeHolds(k)
    BY <1>1, <1>2, <1>6, <1>8, <1>12 DEF PlanHolds, ImportHolds, BridgeHolds
  <2>2. at = "write" => [id |-> id, number |-> n] \in j.plan
    <3>1. found = ByOfficial(permits, n)
      BY <1>1, <1>8, <1>12, SeesAsPlanned DEF found
    <3>2. at = "write" => id = PlannedId(permits, n)
      BY <1>6, <3>1 DEF id, PlannedId
    <3>3. j.plan = _build_import_plan(permits, j.rows)
      BY <1>1, <1>2, <1>8, <1>12 DEF PlanHolds
    <3>4. IsTable(permits) /\ j.rows \in SUBSET Numbers
      BY <1>2 DEF PermitInv, TableFits, ImporterPieces
    <3> QED BY <1>4, <3>2, <3>3, <3>4, PlanEntries
  <2>3. FoundHolds(k, permits)
    BY <1>2, <1>5, <1>6, <1>8, <2>2 DEF FoundHolds, found
  <2> QED BY <2>1, <2>3
<1>13. ImporterFits(k, permits, nextId)
  BY <1>2, <1>6, <1>7, <1>8, <1>9, <1>11, <1>12 DEF ImporterFits
<1> QED BY <1>1, <1>6, <1>8, <1>10, <1>13, GoesOn DEF PermitInv

\* The look-up by key.
LEMMA FindLegacyKeeps ==
  ASSUME PermitInv, NEW w \in Importers, FindLegacy(w)
  PROVE  PermitInv'
<1> DEFINE j == importer[w]
           n == j.number
           found == ByLegacyKey(View(w), n)
           tier == IF found = {} THEN 3 ELSE 2
           id == IF found = {} THEN 0 ELSE FirstImporter(found)
           k == [j EXCEPT !.at = "write", !.tier = tier, !.id = id]
<1>1. Working(w) /\ j.at = "legacy" /\ UNCHANGED <<permits, nextId, sources>>
  BY DEF FindLegacy, Working
<1>2. /\ IsImporter(j) /\ ImporterPieces(j) /\ StageFits(j) /\ OwnFits(j.mine, permits, nextId)
      /\ ~j.disturbed => PlanHolds(j, permits) /\ ImportHolds(j, permits) /\ FoundHolds(j, permits)
      /\ View(w) = Over(j.mine, permits)
  BY <1>1, AtWork
<1>3. Put(w, k)
  BY DEF FindLegacy, FirstImporter
<1>4. n \in j.todo /\ n \in Numbers /\ n \in j.rows
  BY <1>1, <1>2 DEF ImporterPieces, StageFits
<1>5. /\ id \in Ids \cup {0} /\ (found # {} => id \in found)
      /\ tier \in 1..3 /\ (tier = 3 <=> found = {}) /\ (tier = 2 <=> found # {})
  BY <1>1, <1>4, SeenRows, FirstOf
<1>6. /\ found = ByLegacyKey(permits, n) \ DOMAIN j.mine
      /\ found # {} => /\ id \in DOMAIN View(w) /\ id < nextId
                       /\ View(w)[id].external = legacy_key(n) /\ id \in ByLegacyKey(View(w), n)
  <2>1. found = ByLegacyKey(permits, n) \ DOMAIN j.mine
    BY <1>1, <1>4, SeenRows
  <2>2. ASSUME found # {} PROVE id \in DOMAIN View(w) /\ id < nextId /\ id \in ByLegacyKey(View(w), n)
    BY <1>1, <1>4, <1>5, <2>2, SeenRows
  <2> HIDE DEF found, id
  <2> QED BY <2>1, <2>2 DEF ByLegacyKey
<1>7. ~j.disturbed => ByOfficial(Over(j.mine, permits), n) = {}
  BY <1>1, <1>2 DEF FoundHolds
<1>8. ~j.disturbed /\ Unambiguous(j.rows) => [id |-> id, number |-> n] \in j.plan
  <2>1. ASSUME ~j.disturbed, Unambiguous(j.rows) PROVE id = PlannedId(permits, n)
    <3>1. ByOfficial(permits, n) = {} /\ found = ByLegacyKey(permits, n)
      BY <1>1, <1>2, <1>4, <1>7, <2>1, SeesAsPlanned
    <3> QED BY <3>1 DEF PlannedId
  <2>2. ~j.disturbed => j.plan = _build_import_plan(permits, j.rows)
    BY <1>1, <1>2 DEF PlanHolds
  <2>3. IsTable(permits) /\ j.rows \in SUBSET Numbers
    BY <1>2 DEF PermitInv, TableFits, ImporterPieces
  <2> HIDE DEF id
  <2> QED BY <1>4, <2>1, <2>2, <2>3, PlanEntries
<1> HIDE DEF found, tier, id
<1>9. IsImporter(k)
  <2>1. k.mine = j.mine
    BY <1>2 DEF IsImporter
  <2> QED BY <1>2, <1>5, <2>1 DEF IsImporter
<1>10. /\ k.at = "write" /\ k.rows = j.rows /\ k.plan = j.plan /\ k.todo = j.todo /\ k.mine = j.mine
       /\ k.did = j.did /\ k.disturbed = j.disturbed /\ k.number = n /\ k.id = id /\ k.tier = tier
  BY <1>2 DEF IsImporter
<1> HIDE DEF k
<1>11. StageFits(k)
  BY <1>2, <1>4, <1>10 DEF StageFits
<1>12. FoundFits(k, permits, nextId)
  BY <1>2, <1>5, <1>6, <1>10 DEF FoundFits
<1>13. ASSUME ~k.disturbed
       PROVE  /\ PlanHolds(k, permits) /\ ImportHolds(k, permits) /\ BridgeHolds(k)
              /\ FoundHolds(k, permits)
  <2>1. PlanHolds(k, permits) /\ ImportHolds(k, permits) /\ BridgeHolds(k)
    BY <1>1, <1>2, <1>10, <1>13 DEF PlanHolds, ImportHolds, BridgeHolds
  <2>2. FoundHolds(k, permits)
    BY <1>2, <1>5, <1>6, <1>7, <1>8, <1>10, <1>13 DEF FoundHolds
  <2> QED BY <2>1, <2>2
<1>14. ImporterFits(k, permits, nextId)
  BY <1>2, <1>9, <1>10, <1>11, <1>12, <1>13 DEF ImporterFits
<1> QED BY <1>1, <1>3, <1>5, <1>6, <1>10, <1>14, GoesOn DEF PermitInv

-----------------------------------------------------------------------------
(* Writes *)

\* One more row written, that collides with none.
LEMMA OwnWith ==
  ASSUME PermitInv, NEW w \in Importers, Working(w), NEW i \in Ids, NEW p, RowFits(p),
         NEW next \in Nat, nextId <= next, i < next, p.official # NoNumber,
         ~Collides(View(w), i, p),
         ByLegacyKey(permits, p.official) \subseteq DOMAIN importer[w].mine \cup {i},
         i \in DOMAIN permits =>
           /\ p.external = permits[i].external
           /\ permits[i].official # NoNumber =>
                legacy_key(permits[i].official) = legacy_key(p.official)
  PROVE  OwnFits(With(importer[w].mine, i, p), permits, next)
<1> DEFINE mine == importer[w].mine
           new == With(mine, i, p)
           view == Over(new, permits)
<1>1. OwnFits(mine, permits, nextId) /\ View(w) = Over(mine, permits) /\ p \in Permit
  BY AtWork DEF RowFits
<1>2. DOMAIN new = DOMAIN mine \cup {i} /\ new[i] = p /\ \A l \in DOMAIN mine : l # i => new[l] = mine[l]
  BY DEF With
<1>3. IsTable(new)
  BY <1>1, TableWith DEF OwnFits
<1>4. /\ DOMAIN view = DOMAIN View(w) \cup {i} /\ view[i] = p
      /\ \A l \in DOMAIN View(w) : l # i => view[l] = View(w)[l]
  BY <1>1, <1>2 DEF Over
<1> HIDE DEF view
<1>5. Unique(view)
  <2>1. \A l \in DOMAIN View(w) : l # i => ~SameIdentity(p, View(w)[l])
    BY DEF Collides
  <2>2. Unique(View(w))
    BY <1>1 DEF OwnFits
  <2>3. ASSUME NEW l \in DOMAIN view, NEW m \in DOMAIN view, l # m
        PROVE  ~SameIdentity(view[l], view[m])
    <3>1. CASE l = i
      BY <1>4, <2>1, <2>3, <3>1
    <3>2. CASE m = i
      BY <1>4, <2>1, <2>3, <3>2, SameBothWays
    <3>3. CASE l # i /\ m # i
      BY <1>4, <2>2, <2>3, <3>3 DEF Unique
    <3> QED BY <3>1, <3>2, <3>3
  <2> QED BY <2>3 DEF Unique
<1>6. DOMAIN mine \subseteq Nat /\ nextId \in Nat
  BY <1>1, PermitAssumption DEF OwnFits, IsTable, Ids, PermitInv
<1> HIDE DEF new
<1>7. ASSUME NEW l \in DOMAIN new
      PROVE  /\ l < next /\ RowFits(new[l]) /\ new[l].official # NoNumber
             /\ ByLegacyKey(permits, new[l].official) \subseteq DOMAIN new
             /\ l \in DOMAIN permits =>
                  /\ new[l].external = permits[l].external
                  /\ permits[l].official # NoNumber =>
                       legacy_key(permits[l].official) = legacy_key(new[l].official)
  <2>1. CASE l = i
    BY <1>2, <2>1
  <2>2. CASE l # i
    <3>1. l \in DOMAIN mine /\ new[l] = mine[l] /\ l \in Nat
      BY <1>2, <1>6, <2>2
    <3>2. /\ l < nextId /\ RowFits(mine[l]) /\ mine[l].official # NoNumber
          /\ ByLegacyKey(permits, mine[l].official) \subseteq DOMAIN mine
          /\ l \in DOMAIN permits =>
               /\ mine[l].external = permits[l].external
               /\ permits[l].official # NoNumber =>
                    legacy_key(permits[l].official) = legacy_key(mine[l].official)
      BY <1>1, <3>1 DEF OwnFits
    <3>3. l < next /\ DOMAIN mine \subseteq DOMAIN new
      BY <1>2, <1>6, <3>1, <3>2
    <3> QED BY <3>1, <3>2, <3>3
  <2> QED BY <2>1, <2>2
<1> QED BY <1>3, <1>5, <1>7 DEF OwnFits, view, new

\* What is written nobody else has locked, nor waits for its identity.
FreeFor(w, i, p) ==
  \A v \in Others(w) : importer[v] # IdleImporter =>
    /\ i \notin DOMAIN importer[v].mine
    /\ \A l \in DOMAIN importer[v].mine : ~SameIdentity(p, importer[v].mine[l])
    /\ importer[v].at = "write" /\ importer[v].tier < 3 /\ importer[v].id = i => i \in DOMAIN permits

\* A free row keeps the importer that writes it apart from the others.
LEMMA FreeApart ==
  ASSUME PermitInv, NEW w \in Importers, Working(w), NEW i, NEW p, FreeFor(w, i, p),
         NEW k, k # IdleImporter, k.mine = With(importer[w].mine, i, p), k.at # "write",
         NEW v \in Others(w)
  PROVE  Apart(k, importer[v], permits) /\ Apart(importer[v], k, permits)
<1>1. /\ DOMAIN k.mine = DOMAIN importer[w].mine \cup {i} /\ k.mine[i] = p
      /\ \A l \in DOMAIN importer[w].mine : l # i => k.mine[l] = importer[w].mine[l]
  BY DEF With
<1>2. /\ Apart(importer[w], importer[v], permits) /\ Apart(importer[v], importer[w], permits)
      /\ importer[w] # IdleImporter
  BY AtWork DEF PermitInv, Others
<1>3. CASE importer[v] = IdleImporter
  BY <1>3 DEF Apart
<1>4. CASE importer[v] # IdleImporter
  <2>1. /\ i \notin DOMAIN importer[v].mine
        /\ \A l \in DOMAIN importer[v].mine : ~SameIdentity(p, importer[v].mine[l])
        /\ importer[v].at = "write" /\ importer[v].tier < 3 /\ importer[v].id = i => i \in DOMAIN permits
    BY <1>4 DEF FreeFor
  <2>2. ASSUME NEW m \in DOMAIN k.mine, NEW l \in DOMAIN importer[v].mine
        PROVE  m # l /\ ~SameIdentity(k.mine[m], importer[v].mine[l])
    BY <1>1, <1>2, <1>4, <2>1 DEF Apart
  <2>3. ASSUME NEW m \in DOMAIN k.mine, NEW l \in DOMAIN importer[v].mine
        PROVE  l # m /\ ~SameIdentity(importer[v].mine[l], k.mine[m])
    BY <2>2, SameBothWays
  <2>4. Apart(k, importer[v], permits)
    BY <2>2 DEF Apart
  <2>5. ASSUME importer[v].at = "write" /\ importer[v].tier < 3, importer[v].id \in DOMAIN k.mine
        PROVE  importer[v].id \in DOMAIN permits
    BY <1>1, <1>2, <1>4, <2>1, <2>5 DEF Apart
  <2> QED BY <2>3, <2>4, <2>5 DEF Apart
<1> QED BY <1>3, <1>4

\* An import has written a row.
LEMMA WroteKeeps ==
  ASSUME PermitInv, NEW w \in Importers, Working(w), importer[w].at = "write",
         NEW i \in Ids, NEW p, Wrote(w, i, p), UNCHANGED <<permits, sources>>,
         nextId' \in {nextId, nextId + 1}, nextId' \in 1..(MaxPermits + 1),
         OwnFits(With(importer[w].mine, i, p), permits, nextId'), FreeFor(w, i, p),
         ~importer[w].disturbed =>
           /\ p.official = importer[w].number
           /\ i \in DOMAIN permits => permits[i].official \in {NoNumber, importer[w].number}
  PROVE  PermitInv'
<1> DEFINE j == importer[w]
           mine == With(j.mine, i, p)
           left == j.todo \ {j.number}
           did == j.did \cup {[id |-> j.id, number |-> j.number]}
           at == IF left = {} THEN "commit" ELSE "official"
           k == [j EXCEPT !.mine = mine, !.todo = left, !.did = did, !.at = at]
<1>1. /\ IsImporter(j) /\ ImporterPieces(j) /\ StageFits(j)
      /\ ~j.disturbed => PlanHolds(j, permits) /\ ImportHolds(j, permits) /\ FoundHolds(j, permits)
  BY AtWork
<1>2. j.number \in j.todo /\ j.number \in Numbers /\ j.number \in j.rows /\ j.todo \subseteq j.rows
  BY <1>1 DEF StageFits, ImporterPieces
<1>3. /\ left \subseteq Numbers /\ did \subseteq Entry /\ at \in {"commit", "official"} /\ IsTable(mine)
      /\ at = "commit" => left = {}
  BY <1>1, <1>2 DEF ImporterPieces, Entry, OwnFits
<1>4. Put(w, k)
  BY DEF Wrote
<1> HIDE DEF at, mine
<1>5. IsImporter(k)
  <2>1. k.mine = mine
    BY <1>1 DEF IsImporter
  <2>2. left \in SUBSET Numbers /\ did \in SUBSET Entry
    BY <1>3
  <2> HIDE DEF left, did
  <2> QED BY <1>1, <1>3, <2>1, <2>2 DEF IsImporter
<1>6. /\ k.at = at /\ k.rows = j.rows /\ k.plan = j.plan /\ k.todo = left /\ k.mine = mine
      /\ k.did = did /\ k.disturbed = j.disturbed
  BY <1>1 DEF IsImporter
<1> HIDE DEF k
<1>7. StageFits(k) /\ FoundFits(k, permits, nextId')
  BY <1>2, <1>3, <1>6 DEF StageFits, FoundFits
<1>8. ASSUME ~k.disturbed
      PROVE  /\ PlanHolds(k, permits) /\ ImportHolds(k, permits) /\ BridgeHolds(k)
             /\ FoundHolds(k, permits)
  <2>1. PlanHolds(k, permits) /\ BridgeHolds(k) /\ FoundHolds(k, permits)
    BY <1>1, <1>3, <1>6, <1>8 DEF PlanHolds, BridgeHolds, FoundHolds
  <2>2. ASSUME NEW l \in DOMAIN mine
        PROVE  /\ mine[l].official \in j.rows \ left
               /\ l \in DOMAIN permits => permits[l].official \in {NoNumber, mine[l].official}
    <3>1. CASE l = i
      <4>1. mine[l] = p
        BY <3>1 DEF mine, With
      <4> QED BY <1>2, <1>6, <1>8, <3>1, <4>1
    <3>2. CASE l # i
      <4>1. l \in DOMAIN j.mine /\ mine[l] = j.mine[l]
        BY <3>2 DEF mine, With
      <4> QED BY <1>1, <1>6, <1>8, <4>1 DEF ImportHolds
    <3> QED BY <3>1, <3>2
  <2>3. ASSUME Unambiguous(j.rows) PROVE did = {e \in j.plan : e.number \notin left}
    <3>1. j.did = {e \in j.plan : e.number \notin j.todo}
      BY <1>1, <1>6, <1>8, <2>3 DEF ImportHolds
    <3>2. [id |-> j.id, number |-> j.number] \in j.plan
      BY <1>1, <1>6, <1>8, <2>3 DEF FoundHolds
    <3>3. j.plan = _build_import_plan(permits, j.rows) /\ IsTable(permits) /\ j.rows \in SUBSET Numbers
      BY <1>1, <1>6, <1>8 DEF PlanHolds, PermitInv, TableFits, ImporterPieces
    <3>4. \A e \in j.plan : e.number = j.number => e = [id |-> j.id, number |-> j.number]
      BY <3>2, <3>3, PlanEntries
    <3> QED BY <1>2, <3>1, <3>2, <3>4
  <2>4. ImportHolds(k, permits)
    BY <1>3, <1>6, <2>2, <2>3 DEF ImportHolds
  <2> QED BY <2>1, <2>4
<1>9. k.at # "refused" /\ k.at # "write" /\ k # IdleImporter
  BY <1>3, <1>5, <1>6, ImporterParts, IdleParts
<1>10. ImporterFits(k, permits, nextId')
  BY <1>5, <1>6, <1>7, <1>8, <1>9 DEF ImporterFits, mine
<1>11. \A v \in Others(w) : Apart(k, importer[v], permits) /\ Apart(importer[v], k, permits)
  BY <1>6, <1>9, FreeApart DEF mine
<1>12. sources' \in 0..MaxSources /\ UNCHANGED permits
  BY DEF PermitInv
<1> QED BY <1>4, <1>10, <1>11, <1>12, PutKeeps

\* A row that others have neither locked nor wait for is free.
LEMMA FreeRow ==
  ASSUME PermitInv, NEW w \in Importers, Working(w), NEW i, i \in DOMAIN View(w), NEW p,
         ~Locked(w, i), ~CollidesUncommitted(w, i, p)
  PROVE  FreeFor(w, i, p)
<1> SUFFICES ASSUME NEW v \in Others(w), importer[v] # IdleImporter
             PROVE  /\ i \notin DOMAIN importer[v].mine
                    /\ \A l \in DOMAIN importer[v].mine : ~SameIdentity(p, importer[v].mine[l])
                    /\ importer[v].at = "write" /\ importer[v].tier < 3 /\ importer[v].id = i =>
                         i \in DOMAIN permits
  BY DEF FreeFor
<1>1. v \in Importers /\ Working(v) /\ w \in Others(v) /\ importer[w] # IdleImporter
  BY WorksOrIdles DEF Others
<1>2. OwnRows(v) = importer[v].mine
  BY <1>1, AtWork
<1>3. i \notin DOMAIN importer[v].mine
  BY <1>2 DEF Locked
<1>4. \A l \in DOMAIN importer[v].mine : ~SameIdentity(p, importer[v].mine[l])
  BY <1>2, <1>3 DEF CollidesUncommitted, Collides
<1>5. i \in DOMAIN importer[w].mine \cup DOMAIN permits
  BY Sees
<1>6. Apart(importer[v], importer[w], permits)
  BY <1>1 DEF PermitInv
<1> QED BY <1>1, <1>3, <1>4, <1>5, <1>6 DEF Apart

\* A row an importer sees is known as the committed row is, by the same key.
LEMMA SeenFits ==
  ASSUME PermitInv, NEW w \in Importers, Working(w), NEW i \in DOMAIN View(w)
  PROVE  /\ i \in Ids /\ i < nextId /\ RowFits(View(w)[i])
         /\ i \in DOMAIN permits =>
              /\ View(w)[i].external = permits[i].external
              /\ permits[i].official # NoNumber /\ View(w)[i].official # NoNumber =>
                   legacy_key(permits[i].official) = legacy_key(View(w)[i].official)
         /\ View(w)[i].official # NoNumber =>
              ByLegacyKey(permits, View(w)[i].official) \subseteq DOMAIN importer[w].mine
<1>1. OwnFits(importer[w].mine, permits, nextId) /\ TableFits(permits, nextId)
  BY AtWork DEF PermitInv
<1>2. DOMAIN permits \subseteq Ids /\ DOMAIN importer[w].mine \subseteq Ids
  BY <1>1 DEF OwnFits, TableFits, IsTable
<1>3. CASE i \in DOMAIN importer[w].mine
  <2>1. View(w)[i] = importer[w].mine[i]
    BY <1>3, Sees
  <2> QED BY <1>1, <1>2, <1>3, <2>1 DEF OwnFits
<1>4. CASE i \notin DOMAIN importer[w].mine
  <2>1. i \in DOMAIN permits /\ View(w)[i] = permits[i]
    BY <1>4, Sees
  <2>2. i < nextId /\ RowFits(permits[i])
    BY <1>1, <2>1 DEF TableFits
  <2>3. ASSUME permits[i].official # NoNumber PROVE ByLegacyKey(permits, permits[i].official) = {}
    <3>1. permits[i].official \in Numbers
      BY <2>2, <2>3 DEF RowFits, Permit
    <3>2. i \in ByOfficial(permits, permits[i].official)
      BY <2>1 DEF ByOfficial
    <3> QED BY <1>1, <3>1, <3>2 DEF TableFits
  <2> QED BY <1>2, <2>1, <2>2, <2>3
<1> QED BY <1>3, <1>4

\* Rows in an importer's view have different identities.
LEMMA SeenApart ==
  ASSUME PermitInv, NEW w \in Importers, Working(w),
         NEW i \in DOMAIN View(w), NEW l \in DOMAIN View(w), i # l
  PROVE  ~SameIdentity(View(w)[i], View(w)[l])
BY AtWork DEF OwnFits, Unique

\* A row that an importer sees waiting under a key is given a number of that key.
LEMMA NumberFits ==
  ASSUME PermitInv, NEW w \in Importers, Working(w), NEW i \in DOMAIN View(w), NEW n \in Numbers,
         NEW p, p = [View(w)[i] EXCEPT !.official = n], View(w)[i].external = legacy_key(n)
  PROVE  /\ RowFits(p) /\ p.official = n /\ p.external = legacy_key(n)
         /\ ByLegacyKey(permits, n) \subseteq DOMAIN importer[w].mine \cup {i}
         /\ i \in DOMAIN permits =>
              /\ p.external = permits[i].external
              /\ permits[i].official # NoNumber => legacy_key(permits[i].official) = legacy_key(n)
         /\ Collides(View(w), i, p) => ByOfficial(View(w), n) \ {i} # {}
<1>1. View(w)[i] \in Permit
  BY SeenFits DEF RowFits
<1>2. p \in Permit /\ p.official = n /\ p.external = legacy_key(n)
  BY <1>1 DEF Permit
<1>3. RowFits(p) /\ legacy_key(n) \notin Numbers /\ n # NoNumber
  BY <1>2, KeyOf, PermitAssumption DEF RowFits
<1>4. ASSUME NEW l \in ByLegacyKey(permits, n), l \notin DOMAIN importer[w].mine, l # i PROVE FALSE
  <2>1. l \in DOMAIN View(w) /\ View(w)[l].external = legacy_key(n)
    BY <1>4, Sees DEF ByLegacyKey
  <2> QED BY <1>4, <2>1, SeenApart DEF SameIdentity
<1>5. ASSUME i \in DOMAIN permits
      PROVE  /\ p.external = permits[i].external
             /\ permits[i].official # NoNumber => legacy_key(permits[i].official) = legacy_key(n)
  <2>1. p.external = permits[i].external
    BY <1>2, <1>5, SeenFits
  <2>2. RowFits(permits[i])
    BY <1>5 DEF PermitInv, TableFits
  <2>3. permits[i].official # NoNumber => permits[i].official \in Numbers
    BY <2>2 DEF RowFits, Permit
  <2> QED BY <1>2, <1>3, <2>1, <2>2, <2>3 DEF RowFits
<1>6. ASSUME Collides(View(w), i, p) PROVE ByOfficial(View(w), n) \ {i} # {}
  <2>1. PICK l \in DOMAIN View(w) : l # i /\ SameIdentity(p, View(w)[l])
    BY <1>6 DEF Collides
  <2>2. View(w)[l].external # p.external
    BY <1>2, <2>1, SeenApart DEF SameIdentity
  <2>3. View(w)[l].official = n
    BY <1>2, <2>1, <2>2 DEF SameIdentity
  <2> QED BY <2>1, <2>3 DEF ByOfficial
<1> QED BY <1>2, <1>3, <1>4, <1>5, <1>6

\* The update of a row found.
LEMMA UpdateKeeps ==
  ASSUME PermitInv, NEW w \in Importers, _apply_update(w)
  PROVE  PermitInv'
<1> DEFINE j == importer[w]
           i == j.id
           p == [View(w)[i] EXCEPT !.official = IF j.tier = 2 THEN j.number ELSE @]
<1>1. /\ Working(w) /\ j.at = "write" /\ j.tier < 3 /\ UNCHANGED <<permits, nextId, sources>>
      /\ ~Locked(w, i)
  BY DEF _apply_update, Working
<1>2. /\ ImporterPieces(j) /\ StageFits(j) /\ OwnFits(j.mine, permits, nextId)
      /\ FoundFits(j, permits, nextId) /\ View(w) = Over(j.mine, permits)
      /\ ~j.disturbed => ImportHolds(j, permits) /\ FoundHolds(j, permits)
  BY <1>1, AtWork
<1>3. j.tier \in {1, 2} /\ j.number \in Numbers
  BY <1>1, <1>2 DEF ImporterPieces, StageFits
<1>4. ~j.disturbed =>
        /\ j.tier = 1 => i \in DOMAIN View(w) /\ View(w)[i].official = j.number
        /\ j.tier = 2 => /\ i \in DOMAIN View(w) /\ View(w)[i].official = NoNumber
                         /\ ByOfficial(View(w), j.number) = {}
  BY <1>1, <1>2 DEF FoundHolds, ByOfficial, ByLegacyKey
<1>5. CASE i \notin DOMAIN View(w)
  <2>1. Put(w, Refused(w))
    BY <1>5 DEF _apply_update
  <2>2. Reason(j, permits)
    BY <1>3, <1>4, <1>5 DEF Reason
  <2> QED BY <1>1, <2>1, <2>2, RefusalKeeps
<1>6. CASE i \in DOMAIN View(w)
  <2>1. /\ ~CollidesUncommitted(w, i, p)
        /\ IF Collides(View(w), i, p) THEN Put(w, Refused(w)) ELSE Wrote(w, i, p)
    BY <1>6 DEF _apply_update
  <2>2. FreeFor(w, i, p)
    BY <1>1, <1>6, <2>1, FreeRow
  <2>3. nextId \in Nat /\ i \in Ids /\ i < nextId /\ nextId \in 1..(MaxPermits + 1)
    <3>1. nextId \in 1..(MaxPermits + 1) /\ nextId \in Nat
      BY PermitAssumption DEF PermitInv
    <3>2. i \in Ids /\ i < nextId
      BY <1>1, <1>6, SeenFits
    <3> QED BY <3>1, <3>2
  <2>4. CASE j.tier = 1
    <3>1. p = View(w)[i]
      <4>1. View(w)[i] \in Permit
        BY <1>1, <1>6, SeenFits DEF RowFits
      <4> QED BY <2>4, <4>1 DEF Permit
    <3>2. p.official # NoNumber
      BY <1>1, <1>2, <1>6, <2>4, <3>1 DEF FoundFits
    <3>3. ~Collides(View(w), i, p)
      BY <1>1, <1>6, <3>1, SeenApart DEF Collides
    <3> HIDE DEF p
    <3>4. OwnFits(With(j.mine, i, p), permits, nextId)
      <4>1. /\ RowFits(p) /\ ByLegacyKey(permits, p.official) \subseteq DOMAIN j.mine \cup {i}
            /\ i \in DOMAIN permits =>
                 /\ p.external = permits[i].external
                 /\ permits[i].official # NoNumber =>
                      legacy_key(permits[i].official) = legacy_key(p.official)
        BY <1>1, <1>6, <3>1, <3>2, SeenFits
      <4> QED BY <1>1, <2>3, <3>2, <3>3, <4>1, OwnWith
    <3>5. ~j.disturbed =>
            /\ p.official = j.number
            /\ i \in DOMAIN permits => permits[i].official \in {NoNumber, j.number}
      <4>1. i \notin DOMAIN j.mine /\ i \in DOMAIN permits => View(w)[i] = permits[i]
        BY <1>1, Sees
      <4>2. i \in DOMAIN j.mine => View(w)[i] = j.mine[i]
        BY <1>1, Sees
      <4> QED BY <1>1, <1>2, <1>4, <2>4, <3>1, <4>1, <4>2 DEF ImportHolds
    <3> QED BY <1>1, <2>1, <2>2, <2>3, <3>3, <3>4, <3>5, WroteKeeps
  <2>5. CASE j.tier = 2
    <3>1. p = [View(w)[i] EXCEPT !.official = j.number] /\ View(w)[i].external = legacy_key(j.number)
      BY <1>1, <1>2, <1>6, <2>5 DEF FoundFits
    <3> HIDE DEF p
    <3>2. /\ RowFits(p) /\ p.official = j.number /\ p.external = legacy_key(j.number)
          /\ ByLegacyKey(permits, j.number) \subseteq DOMAIN j.mine \cup {i}
          /\ i \in DOMAIN permits =>
               /\ p.external = permits[i].external
               /\ permits[i].official # NoNumber =>
                    legacy_key(permits[i].official) = legacy_key(j.number)
          /\ Collides(View(w), i, p) => ByOfficial(View(w), j.number) \ {i} # {}
      BY <1>1, <1>3, <1>6, <3>1, NumberFits
    <3>3. CASE Collides(View(w), i, p)
      <4>1. Reason(j, permits)
        BY <1>4, <2>5, <3>2, <3>3 DEF Reason
      <4> QED BY <1>1, <2>1, <3>3, <4>1, RefusalKeeps
    <3>4. CASE ~Collides(View(w), i, p)
      <4>1. OwnFits(With(j.mine, i, p), permits, nextId)
        BY <1>1, <1>3, <2>3, <3>2, <3>4, OwnWith, PermitAssumption
      <4>2. ~j.disturbed /\ i \in DOMAIN permits => permits[i].official \in {NoNumber, j.number}
        <5>1. i \notin DOMAIN j.mine /\ i \in DOMAIN permits => View(w)[i] = permits[i]
          BY <1>1, Sees
        <5>2. i \in DOMAIN j.mine => View(w)[i] = j.mine[i] /\ j.mine[i].official # NoNumber
          BY <1>1, <1>2, Sees DEF OwnFits
        <5> QED BY <1>4, <2>5, <5>1, <5>2
      <4>3. Wrote(w, i, p)
        BY <2>1, <3>4
      <4> QED BY <1>1, <2>2, <2>3, <3>2, <4>1, <4>2, <4>3, WroteKeeps
    <3> QED BY <3>3, <3>4
  <2> QED BY <1>3, <2>4, <2>5
<1> QED BY <1>5, <1>6

\* The insertion of a row.
LEMMA InsertKeeps ==
  ASSUME PermitInv, NEW w \in Importers, InsertPermit(w)
  PROVE  PermitInv'
<1> DEFINE j == importer[w]
           n == j.number
           p == [external |-> n, official |-> n, by |-> "identity"]
<1>1. /\ Working(w) /\ j.at = "write" /\ j.tier = 3 /\ UNCHANGED <<permits, sources>>
      /\ nextId \in Ids /\ ~CollidesUncommitted(w, nextId, p)
      /\ \/ Collides(View(w), nextId, p) /\ Put(w, Refused(w)) /\ UNCHANGED nextId
         \/ ~Collides(View(w), nextId, p) /\ Wrote(w, nextId, p) /\ nextId' = nextId + 1
  BY DEF InsertPermit, Working
<1>2. /\ ImporterPieces(j) /\ StageFits(j) /\ OwnFits(j.mine, permits, nextId) /\ TableFits(permits, nextId)
      /\ FoundFits(j, permits, nextId) /\ View(w) = Over(j.mine, permits)
      /\ ~j.disturbed => FoundHolds(j, permits)
  BY <1>1, AtWork DEF PermitInv
<1>3. n \in Numbers /\ n \in j.rows /\ n # NoNumber
  BY <1>1, <1>2, PermitAssumption DEF ImporterPieces, StageFits
<1>4. /\ p \in Permit /\ RowFits(p) /\ p.official = n /\ p.external = n
  BY <1>3 DEF RowFits, Permit
<1>5. nextId \in Nat /\ nextId + 1 \in Nat /\ nextId + 1 \in 1..(MaxPermits + 1) /\ nextId < nextId + 1
  BY <1>1, PermitAssumption DEF Ids
<1>6. nextId \notin DOMAIN permits /\ nextId \notin DOMAIN j.mine
  BY <1>2, <1>5 DEF OwnFits, TableFits
<1> HIDE DEF p
<1>7. CASE Collides(View(w), nextId, p)
  <2>1. ASSUME ~j.disturbed PROVE Reason(j, permits)
    <3>1. ByOfficial(View(w), n) = {}
      BY <1>1, <1>2, <2>1 DEF FoundHolds
    <3>2. PICK l \in DOMAIN View(w) : l # nextId /\ SameIdentity(p, View(w)[l])
      BY <1>7 DEF Collides
    <3>3. View(w)[l].official # n
      BY <3>1, <3>2 DEF ByOfficial
    <3>4. View(w)[l].external = n
      BY <1>4, <3>2, <3>3 DEF SameIdentity
    <3>5. RowFits(View(w)[l])
      BY <1>1, SeenFits
    <3>6. View(w)[l].official = NoNumber
      <4>1. View(w)[l].official # NoNumber => View(w)[l].official \in Numbers
        BY <3>5 DEF RowFits, Permit
      <4>2. View(w)[l].official # NoNumber => n = View(w)[l].official \/ n = legacy_key(View(w)[l].official)
        BY <3>4, <3>5 DEF RowFits
      <4> QED BY <1>3, <3>3, <4>1, <4>2, KeyOf
    <3>7. View(w)[l].by = "generic"
      BY <1>3, <3>4, <3>5, <3>6 DEF RowFits
    <3>8. l \in DOMAIN permits /\ View(w)[l] = permits[l]
      BY <1>1, <1>2, <3>6, Sees DEF OwnFits
    <3> QED BY <1>3, <3>4, <3>7, <3>8 DEF Reason
  <2>2. Reason(j, permits)
    BY <2>1 DEF Reason
  <2> QED BY <1>1, <1>7, <2>2, RefusalKeeps
<1>8. CASE ~Collides(View(w), nextId, p)
  <2>1. ByLegacyKey(permits, n) \subseteq DOMAIN j.mine
    BY <1>1, <1>2 DEF FoundFits
  <2>2. OwnFits(With(j.mine, nextId, p), permits, nextId + 1)
    BY <1>1, <1>3, <1>4, <1>5, <1>6, <1>8, <2>1, OwnWith
  <2>3. FreeFor(w, nextId, p)
    <3> SUFFICES ASSUME NEW v \in Others(w), importer[v] # IdleImporter
                 PROVE  /\ nextId \notin DOMAIN importer[v].mine
                        /\ \A l \in DOMAIN importer[v].mine : ~SameIdentity(p, importer[v].mine[l])
                        /\ ~(importer[v].at = "write" /\ importer[v].tier < 3 /\ importer[v].id = nextId)
      BY DEF FreeFor
    <3>1. v \in Importers /\ Working(v)
      BY WorksOrIdles DEF Others
    <3>2. /\ OwnRows(v) = importer[v].mine /\ OwnFits(importer[v].mine, permits, nextId)
          /\ FoundFits(importer[v], permits, nextId)
      BY <3>1, AtWork
    <3>3. nextId \notin DOMAIN importer[v].mine
      BY <1>5, <3>2 DEF OwnFits
    <3>4. ~(importer[v].at = "write" /\ importer[v].tier < 3 /\ importer[v].id = nextId)
      BY <1>5, <3>2 DEF FoundFits
    <3> QED BY <1>1, <3>2, <3>3, <3>4 DEF CollidesUncommitted, Collides
  <2>4. nextId' = nextId + 1 /\ Wrote(w, nextId, p)
    BY <1>1, <1>8
  <2> QED BY <1>1, <1>4, <1>5, <1>6, <2>2, <2>3, <2>4, WroteKeeps
<1> QED BY <1>7, <1>8

-----------------------------------------------------------------------------
(* Commits *)

\* What another importer has written differs from the committed rows it has not.
LEMMA OthersFit ==
  ASSUME PermitInv, NEW w \in Importers, NEW v \in Others(w), importer[v] # IdleImporter
  PROVE  /\ v \in Importers /\ Working(v) /\ OwnRows(v) = importer[v].mine
         /\ OwnFits(importer[v].mine, permits, nextId) /\ FoundFits(importer[v], permits, nextId)
         /\ IsTable(importer[v].mine)
         /\ \A i \in DOMAIN importer[v].mine, l \in DOMAIN permits \ DOMAIN importer[v].mine :
              ~SameIdentity(importer[v].mine[i], permits[l])
<1>1. v \in Importers /\ Working(v)
  BY WorksOrIdles DEF Others
<1>2. /\ OwnRows(v) = importer[v].mine /\ OwnFits(importer[v].mine, permits, nextId)
      /\ FoundFits(importer[v], permits, nextId)
  BY <1>1, AtWork
<1> DEFINE view == Over(importer[v].mine, permits)
<1>3. ASSUME NEW i \in DOMAIN importer[v].mine, NEW l \in DOMAIN permits \ DOMAIN importer[v].mine
      PROVE  ~SameIdentity(importer[v].mine[i], permits[l])
  <2>1. /\ i \in DOMAIN view /\ l \in DOMAIN view /\ i # l
        /\ view[i] = importer[v].mine[i] /\ view[l] = permits[l]
    BY <1>3 DEF Over
  <2>2. Unique(view)
    BY <1>2 DEF OwnFits
  <2> HIDE DEF view
  <2>3. ~SameIdentity(view[i], view[l])
    BY <2>1, <2>2 DEF Unique
  <2> QED BY <2>1, <2>3
<1>4. IsTable(importer[v].mine)
  BY <1>2 DEF OwnFits
<1> QED BY <1>1, <1>2, <1>3, <1>4

\* The rows an importer has written succeed the committed ones.
LEMMA OwnSucceeds ==
  ASSUME PermitInv, NEW w \in Importers, Working(w)
  PROVE  TableFits(View(w), nextId) /\ Succeeds(w, View(w))
<1> DEFINE mine == importer[w].mine
<1>1. OwnFits(mine, permits, nextId) /\ TableFits(permits, nextId) /\ View(w) = Over(mine, permits)
  BY AtWork DEF PermitInv
<1>2. IsTable(View(w)) /\ Unique(View(w))
  BY <1>1, TableOver DEF OwnFits, TableFits
<1>3. \A i \in DOMAIN View(w) : i < nextId /\ RowFits(View(w)[i])
  BY SeenFits
<1>4. \A n \in Numbers : ByLegacyKey(View(w), n) = ByLegacyKey(permits, n) \ DOMAIN mine
  BY SeenRows
<1>5. ASSUME NEW n \in Numbers, NEW i \in ByOfficial(View(w), n) PROVE ByLegacyKey(View(w), n) = {}
  <2>1. i \in DOMAIN View(w) /\ View(w)[i].official = n /\ n # NoNumber
    BY PermitAssumption DEF ByOfficial
  <2>2. ByLegacyKey(permits, n) \subseteq DOMAIN mine
    BY <2>1, SeenFits
  <2> QED BY <1>4, <2>2
<1>6. TableFits(View(w), nextId)
  BY <1>2, <1>3, <1>5 DEF TableFits
<1>7. ASSUME NEW i \in DOMAIN View(w) \cap DOMAIN permits
      PROVE  /\ View(w)[i].external = permits[i].external
             /\ permits[i].official # NoNumber =>
                  /\ View(w)[i].official # NoNumber
                  /\ legacy_key(View(w)[i].official) = legacy_key(permits[i].official)
  <2>1. permits[i].official # NoNumber => View(w)[i].official # NoNumber
    BY <1>1, Sees DEF OwnFits
  <2> QED BY <2>1, SeenFits
<1>8. ASSUME NEW v \in Others(w), importer[v] # IdleImporter
      PROVE  LET j == importer[v] IN
             /\ \A i \in DOMAIN j.mine :
                  /\ i \in DOMAIN View(w) <=> i \in DOMAIN permits
                  /\ i \in DOMAIN View(w) => View(w)[i] = permits[i]
             /\ \A i \in DOMAIN j.mine, l \in DOMAIN View(w) \ DOMAIN j.mine :
                  ~SameIdentity(j.mine[i], View(w)[l])
             /\ j.at = "write" /\ j.tier < 3 /\ j.id \in DOMAIN View(w) => j.id \in DOMAIN permits
  <2> DEFINE j == importer[v]
  <2>1. Apart(j, importer[w], permits) /\ importer[w] # IdleImporter
    BY AtWork DEF Others, PermitInv
  <2>2. \A i \in DOMAIN j.mine, l \in DOMAIN mine : i # l /\ ~SameIdentity(j.mine[i], mine[l])
    BY <1>8, <2>1 DEF Apart
  <2>3. \A i \in DOMAIN j.mine :
          /\ i \in DOMAIN View(w) <=> i \in DOMAIN permits
          /\ i \in DOMAIN View(w) => View(w)[i] = permits[i]
    BY <2>2, Sees
  <2>4. ASSUME NEW i \in DOMAIN j.mine, NEW l \in DOMAIN View(w) \ DOMAIN j.mine
        PROVE  ~SameIdentity(j.mine[i], View(w)[l])
    <3>1. CASE l \in DOMAIN mine
      BY <2>2, <3>1, Sees
    <3>2. CASE l \notin DOMAIN mine
      <4>1. l \in DOMAIN permits \ DOMAIN j.mine /\ View(w)[l] = permits[l]
        BY <2>4, <3>2, Sees
      <4> QED BY <1>8, <4>1, OthersFit
    <3> QED BY <3>1, <3>2
  <2>5. j.at = "write" /\ j.tier < 3 /\ j.id \in DOMAIN View(w) => j.id \in DOMAIN permits
    BY <1>8, <2>1, Sees DEF Apart
  <2> QED BY <2>3, <2>4, <2>5
<1>9. Succeeds(w, View(w))
  BY <1>4, <1>7, <1>8 DEF Succeeds
<1> QED BY <1>6, <1>9

\* An importer commits what it has written.
LEMMA OwnCommit ==
  ASSUME PermitInv, NEW w \in Importers, Working(w), Commits(w, IdleImporter, View(w)),
         UNCHANGED <<nextId, sources>>
  PROVE  PermitInv'
<1>1. nextId' \in {nextId, nextId + 1} /\ nextId' \in 1..(MaxPermits + 1) /\ UNCHANGED sources
  BY DEF PermitInv
<1>2. TableFits(View(w), nextId') /\ Succeeds(w, View(w))
  BY OwnSucceeds
<1>3. ImporterFits(IdleImporter, View(w), nextId')
  BY DEF ImporterFits
<1> QED BY <1>1, <1>2, <1>3, CommitKeeps

\* The numbers are compared, and an import commits.
LEMMA OnceKeeps ==
  ASSUME PermitInv, NEW w \in Importers, run_surrey_identity_import_once(w)
  PROVE  PermitInv'
<1> DEFINE j == importer[w]
<1>1. Working(w) /\ j.at = "commit" /\ UNCHANGED <<nextId, sources>>
  BY DEF run_surrey_identity_import_once, Working
<1>2. \/ Commits(w, IdleImporter, View(w))
      \/ Put(w, Refused(w)) /\ UNCHANGED permits /\ j.did # j.plan
  BY DEF run_surrey_identity_import_once
<1>3. CASE Commits(w, IdleImporter, View(w))
  BY <1>1, <1>3, OwnCommit
<1>4. CASE Put(w, Refused(w)) /\ UNCHANGED permits /\ j.did # j.plan
  <2>1. ASSUME ~j.disturbed, Unambiguous(j.rows) PROVE FALSE
    <3>1. j.did = {e \in j.plan : e.number \notin j.todo} /\ j.todo = {}
      BY <1>1, <2>1, AtWork DEF ImportHolds, StageFits
    <3> QED BY <1>4, <3>1
  <2>2. Reason(j, permits)
    BY <2>1 DEF Reason
  <2> QED BY <1>1, <1>4, <2>2, RefusalKeeps
<1> QED BY <1>2, <1>3, <1>4

\* The bridge commits.
LEMMA BridgeEnds ==
  ASSUME PermitInv, NEW w \in Importers, execute_full_bridge(w)
  PROVE  PermitInv'
<1>1. Working(w)
  BY DEF execute_full_bridge, Working
<1> QED BY <1>1, OwnCommit DEF execute_full_bridge

\* The bridge gives a row its number.
LEMMA BridgeKeeps ==
  ASSUME PermitInv, NEW w \in Importers, BridgeRow(w)
  PROVE  PermitInv'
<1> DEFINE j == importer[w]
<1>1. Working(w) /\ j.at = "bridge" /\ UNCHANGED <<permits, nextId, sources>>
  BY DEF BridgeRow, Working
<1>2. /\ IsImporter(j) /\ ImporterPieces(j) /\ StageFits(j) /\ OwnFits(j.mine, permits, nextId)
      /\ ~j.disturbed => PlanHolds(j, permits) /\ BridgeHolds(j)
      /\ IsTable(permits)
  BY <1>1, AtWork DEF PermitInv, TableFits
<1>3. PICK e \in j.plan \ j.did :
        /\ ~Locked(w, e.id)
        /\ IF e.id \notin DOMAIN View(w) \/ e.id \notin ByLegacyKey(View(w), e.number)
           THEN Put(w, Refused(w))
           ELSE LET p == [View(w)[e.id] EXCEPT !.official = e.number]
                IN /\ ~CollidesUncommitted(w, e.id, p)
                   /\ IF Collides(View(w), e.id, p) THEN Put(w, Refused(w))
                      ELSE Put(w, [j EXCEPT !.mine = With(@, e.id, p), !.did = @ \cup {e},
                             !.at = IF j.plan = j.did \cup {e} THEN "bridged" ELSE @])
  BY DEF BridgeRow
<1> DEFINE i == e.id
           n == e.number
           p == [View(w)[i] EXCEPT !.official = n]
<1>4. e \in Entry /\ n \in Numbers
  BY <1>2 DEF ImporterPieces, Entry
<1>5. CASE i \notin ByLegacyKey(View(w), n)
  <2>1. ASSUME ~j.disturbed PROVE FALSE
    <3>1. /\ j.plan = _build_bridge_plan(permits, j.rows) /\ Unambiguous(j.rows)
          /\ j.did \subseteq j.plan /\ \A l \in DOMAIN j.mine : \E d \in j.did : d.id = l
          /\ j.rows \in SUBSET Numbers
      BY <1>1, <1>2, <2>1 DEF PlanHolds, BridgeHolds, ImporterPieces
    <3>2. \A d \in j.plan : d.number \in j.rows /\ d.id \in ByLegacyKey(permits, d.number)
      BY <1>2, <3>1, BridgeEntries
    <3>3. i \in DOMAIN j.mine
      BY <1>1, <1>3, <1>4, <1>5, <3>2, SeenRows
    <3>4. PICK d \in j.did : d.id = i
      BY <3>1, <3>3
    <3>5. d.number \in j.rows /\ e.number \in j.rows /\ legacy_key(d.number) = legacy_key(e.number)
      BY <1>3, <3>1, <3>2, <3>4 DEF ByLegacyKey
    <3>6. d = e
      BY <1>2, <1>3, <3>1, <3>4, <3>5, BridgeEntries DEF Unambiguous, SafeNumbers
    <3> QED BY <1>3, <3>4, <3>6
  <2>2. Put(w, Refused(w)) /\ Reason(j, permits)
    BY <1>3, <1>5, <2>1 DEF Reason
  <2> QED BY <1>1, <2>2, RefusalKeeps
<1>6. CASE i \in ByLegacyKey(View(w), n)
  <2>1. i \in DOMAIN View(w) /\ View(w)[i].external = legacy_key(n) /\ View(w)[i].official = NoNumber
    BY <1>6 DEF ByLegacyKey
  <2>2. /\ ~Locked(w, i) /\ ~CollidesUncommitted(w, i, p)
        /\ IF Collides(View(w), i, p) THEN Put(w, Refused(w))
           ELSE Put(w, [j EXCEPT !.mine = With(@, i, p), !.did = @ \cup {e},
                          !.at = IF j.plan = j.did \cup {e} THEN "bridged" ELSE @])
    BY <1>3, <1>6, <2>1
  <2>3. p = [View(w)[i] EXCEPT !.official = n]
    OBVIOUS
  <2> HIDE DEF p
  <2>4. /\ RowFits(p) /\ p.official = n /\ p.external = legacy_key(n) /\ n # NoNumber
        /\ ByLegacyKey(permits, n) \subseteq DOMAIN j.mine \cup {i}
        /\ i \in DOMAIN permits =>
             /\ p.external = permits[i].external
             /\ permits[i].official # NoNumber => legacy_key(permits[i].official) = legacy_key(n)
        /\ Collides(View(w), i, p) => ByOfficial(View(w), n) \ {i} # {}
    BY <1>1, <1>4, <2>1, <2>3, NumberFits, PermitAssumption
  <2>5. ByOfficial(View(w), n) = {}
    <3>1. ASSUME NEW l \in ByOfficial(View(w), n) PROVE FALSE
      <4>1. l \in DOMAIN View(w) /\ View(w)[l].official = n
        BY DEF ByOfficial
      <4>2. ByLegacyKey(permits, n) \subseteq DOMAIN j.mine
        BY <1>1, <2>4, <4>1, SeenFits
      <4>3. ByLegacyKey(View(w), n) = ByLegacyKey(permits, n) \ DOMAIN j.mine
        BY <1>1, <1>4, SeenRows
      <4> QED BY <1>6, <4>2, <4>3
    <3> QED BY <3>1
  <2>6. ~Collides(View(w), i, p)
    BY <2>4, <2>5
  <2> DEFINE mine == With(j.mine, i, p)
             did == j.did \cup {e}
             at == IF j.plan = did THEN "bridged" ELSE j.at
             k == [j EXCEPT !.mine = mine, !.did = did, !.at = at]
  <2>7. Put(w, k)
    BY <2>2, <2>6
  <2>8. at \in {"bridge", "bridged"} /\ did \in SUBSET Entry
    BY <1>1, <1>2, <1>4 DEF ImporterPieces
  <2>9. i \in Ids /\ i < nextId /\ nextId \in Nat /\ nextId \in 1..(MaxPermits + 1)
    <3>1. nextId \in 1..(MaxPermits + 1) /\ nextId \in Nat
      BY PermitAssumption DEF PermitInv
    <3>2. i \in Ids /\ i < nextId
      BY <1>1, <2>1, SeenFits
    <3> QED BY <3>1, <3>2
  <2>10. OwnFits(mine, permits, nextId)
    BY <1>1, <2>4, <2>6, <2>9, OwnWith
  <2>11. DOMAIN mine = DOMAIN j.mine \cup {i} /\ IsTable(mine)
    BY <2>10 DEF With, OwnFits
  <2> HIDE DEF mine, at
  <2>12. IsImporter(k)
    <3>1. k.mine = mine
      BY <1>2 DEF IsImporter
    <3> HIDE DEF did
    <3> QED BY <1>2, <2>8, <2>11, <3>1 DEF IsImporter
  <2>13. /\ k.at = at /\ k.rows = j.rows /\ k.plan = j.plan /\ k.todo = j.todo /\ k.mine = mine
         /\ k.did = did /\ k.disturbed = j.disturbed
    BY <1>2 DEF IsImporter
  <2> HIDE DEF k
  <2>14. StageFits(k) /\ FoundFits(k, permits, nextId)
    <3>1. FoundFits(j, permits, nextId)
      BY <1>1, AtWork
    <3>2. i \in DOMAIN permits => permits[i].official = NoNumber
      <4>1. i \notin DOMAIN j.mine
        BY <1>1, <1>2, <2>1, Sees DEF OwnFits
      <4> QED BY <1>1, <2>1, <4>1, Sees
    <3>3. \A l \in DOMAIN mine \cap DOMAIN permits : permits[l].official = NoNumber
      BY <1>1, <2>11, <3>1, <3>2 DEF FoundFits
    <3> QED BY <1>2, <2>8, <2>13, <3>3 DEF StageFits, FoundFits
  <2>15. ASSUME ~k.disturbed
         PROVE  /\ PlanHolds(k, permits) /\ ImportHolds(k, permits) /\ BridgeHolds(k)
                /\ FoundHolds(k, permits)
    <3>1. PlanHolds(k, permits) /\ ImportHolds(k, permits) /\ FoundHolds(k, permits)
      BY <1>1, <1>2, <2>8, <2>13, <2>15 DEF PlanHolds, ImportHolds, FoundHolds
    <3>2. j.did \subseteq j.plan /\ \A l \in DOMAIN j.mine : \E d \in j.did : d.id = l
      BY <1>1, <1>2, <2>13, <2>15 DEF BridgeHolds
    <3>3. BridgeHolds(k)
      BY <1>3, <2>11, <2>13, <3>2 DEF BridgeHolds
    <3> QED BY <3>1, <3>3
  <2>16. k.at # "refused" /\ k.at # "write" /\ k # IdleImporter
    BY <2>8, <2>12, <2>13, ImporterParts, IdleParts
  <2>17. ImporterFits(k, permits, nextId)
    BY <2>10, <2>12, <2>13, <2>14, <2>15, <2>16 DEF ImporterFits
  <2>18. \A v \in Others(w) : Apart(k, importer[v], permits) /\ Apart(importer[v], k, permits)
    <3>1. FreeFor(w, i, p)
      BY <1>1, <2>1, <2>2, FreeRow
    <3> QED BY <1>1, <2>13, <2>16, <3>1, FreeApart DEF mine
  <2>19. sources' \in 0..MaxSources /\ UNCHANGED permits /\ nextId' \in {nextId, nextId + 1}
         /\ nextId' \in 1..(MaxPermits + 1) /\ ImporterFits(k, permits, nextId')
    BY <1>1, <2>9, <2>17 DEF PermitInv
  <2> QED BY <2>7, <2>18, <2>19, PutKeeps
<1> QED BY <1>5, <1>6

-----------------------------------------------------------------------------
(* The generic import *)

\* The rows of the source are deleted.
LEMMA DeleteKeeps ==
  ASSUME PermitInv, NEW w \in Importers, DeleteSource(w)
  PROVE  /\ PermitInv'
         /\ \A i \in DOMAIN permits \cap DOMAIN permits' : permits'[i] = permits[i]
<1> DEFINE j == importer[w]
           k == [j EXCEPT !.at = "upsert"]
           rows == [i \in DOMAIN permits \ j.gone |-> permits[i]]
<1>1. /\ Working(w) /\ j.at = "delete" /\ UNCHANGED <<nextId, sources>>
      /\ \A i \in j.gone : ~Locked(w, i)
      /\ Commits(w, k, rows)
  BY DEF DeleteSource, Working
<1>2. IsImporter(j) /\ StageFits(j) /\ TableFits(permits, nextId)
  BY <1>1, AtWork DEF PermitInv
<1>3. DOMAIN rows = DOMAIN permits \ j.gone /\ \A i \in DOMAIN rows : rows[i] = permits[i]
  OBVIOUS
<1> HIDE DEF rows
<1>4. TableFits(rows, nextId)
  <2>1. IsTable(rows)
    BY <1>2, <1>3 DEF TableFits, IsTable, rows
  <2>2. Unique(rows) /\ \A i \in DOMAIN rows : i < nextId /\ RowFits(rows[i])
    BY <1>2, <1>3 DEF TableFits, Unique
  <2>3. \A n \in Numbers : /\ ByOfficial(rows, n) \subseteq ByOfficial(permits, n)
                           /\ ByLegacyKey(rows, n) \subseteq ByLegacyKey(permits, n)
    BY <1>3 DEF ByOfficial, ByLegacyKey
  <2> QED BY <1>2, <2>1, <2>2, <2>3 DEF TableFits
<1>5. Succeeds(w, rows)
  <2>1. \A n \in Numbers : ByLegacyKey(rows, n) \subseteq ByLegacyKey(permits, n)
    BY <1>3 DEF ByLegacyKey
  <2>2. ASSUME NEW v \in Others(w), importer[v] # IdleImporter
        PROVE  LET m == importer[v] IN
               /\ \A i \in DOMAIN m.mine :
                    /\ i \in DOMAIN rows <=> i \in DOMAIN permits
                    /\ i \in DOMAIN rows => rows[i] = permits[i]
               /\ \A i \in DOMAIN m.mine, l \in DOMAIN rows \ DOMAIN m.mine :
                    ~SameIdentity(m.mine[i], rows[l])
               /\ m.at = "write" /\ m.tier < 3 /\ m.id \in DOMAIN rows => m.id \in DOMAIN permits
    <3>1. OwnRows(v) = importer[v].mine
      BY <2>2, OthersFit
    <3>2. \A i \in DOMAIN importer[v].mine : i \notin j.gone
      BY <1>1, <3>1 DEF Locked
    <3>3. \A i \in DOMAIN importer[v].mine, l \in DOMAIN permits \ DOMAIN importer[v].mine :
            ~SameIdentity(importer[v].mine[i], permits[l])
      BY <2>2, OthersFit
    <3> QED BY <1>3, <3>2, <3>3
  <2> QED BY <1>3, <2>1, <2>2 DEF Succeeds
<1>6. k.at = "upsert" /\ k.mine = j.mine /\ k.todo = j.todo /\ k.rows = j.rows /\ k.disturbed = j.disturbed
  BY <1>2 DEF IsImporter
<1>7. IsImporter(k)
  BY <1>2 DEF IsImporter
<1> HIDE DEF k
<1>8. k.mine = NoPermits
  BY <1>1, <1>2, <1>6 DEF StageFits
<1>9. ImporterFits(k, rows, nextId)
  <2>1. StageFits(k) /\ FoundFits(k, rows, nextId) /\ OwnFits(k.mine, rows, nextId)
    BY <1>2, <1>4, <1>6, <1>8, NoneOwned DEF StageFits, FoundFits
  <2>2. PlanHolds(k, rows) /\ ImportHolds(k, rows) /\ BridgeHolds(k) /\ FoundHolds(k, rows)
    BY <1>6 DEF PlanHolds, ImportHolds, BridgeHolds, FoundHolds
  <2> QED BY <1>6, <1>7, <2>1, <2>2 DEF ImporterFits
<1>10. nextId' \in {nextId, nextId + 1} /\ nextId' \in 1..(MaxPermits + 1) /\ UNCHANGED sources
       /\ ImporterFits(k, rows, nextId') /\ TableFits(rows, nextId')
  BY <1>1, <1>4, <1>9 DEF PermitInv
<1>11. PermitInv'
  BY <1>1, <1>5, <1>6, <1>8, <1>10, CommitKeeps
<1>12. permits' = rows
  BY <1>1 DEF Commits
<1> QED BY <1>3, <1>11, <1>12

\* Committed rows succeed themselves.
LEMMA SelfSucceeds ==
  ASSUME PermitInv, NEW w \in Importers
  PROVE  Succeeds(w, permits)
<1>1. \A v \in Others(w) : importer[v] # IdleImporter =>
        \A i \in DOMAIN importer[v].mine, l \in DOMAIN permits \ DOMAIN importer[v].mine :
          ~SameIdentity(importer[v].mine[i], permits[l])
  BY OthersFit
<1> QED BY <1>1 DEF Succeeds

\* A row of the generic import is put in.
LEMMA GenericSucceeds ==
  ASSUME PermitInv, NEW w \in Importers, NEW n \in Numbers, nextId \in Ids,
         {i \in DOMAIN permits : permits[i].external = n} = {},
         ~CollidesUncommitted(w, 0, GenericRow(n))
  PROVE  /\ TableFits(With(permits, nextId, GenericRow(n)), nextId + 1)
         /\ Succeeds(w, With(permits, nextId, GenericRow(n)))
         /\ nextId \notin DOMAIN permits
<1> DEFINE p == GenericRow(n)
           rows == With(permits, nextId, p)
<1>1. /\ p \in Permit /\ RowFits(p) /\ p.external = n /\ p.official = NoNumber
  BY DEF GenericRow, RowFits, Permit
<1>2. TableFits(permits, nextId) /\ nextId \in Nat /\ DOMAIN permits \subseteq Nat
  <2>1. TableFits(permits, nextId)
    BY DEF PermitInv
  <2> QED BY <2>1, TableRows, PermitAssumption DEF TableFits, Ids
<1>3. nextId \notin DOMAIN permits
  BY <1>2 DEF TableFits
<1> HIDE DEF p
<1>4. DOMAIN rows = DOMAIN permits \cup {nextId} /\ rows[nextId] = p /\ \A i \in DOMAIN permits : rows[i] = permits[i]
  BY <1>3 DEF With
<1>5. IsTable(rows)
  BY <1>1, <1>2, TableWith DEF TableFits
<1> HIDE DEF rows
<1>6. \A m \in Numbers : /\ ByOfficial(rows, m) = ByOfficial(permits, m)
                         /\ ByLegacyKey(rows, m) = ByLegacyKey(permits, m)
  <2> TAKE m \in Numbers
  <2>1. p.official # m /\ p.external # legacy_key(m)
    BY <1>1, KeyOf, PermitAssumption
  <2> QED BY <1>3, <1>4, <2>1 DEF ByOfficial, ByLegacyKey
<1>7. \A i \in DOMAIN permits : ~SameIdentity(p, permits[i]) /\ ~SameIdentity(permits[i], p)
  BY <1>1 DEF SameIdentity
<1>8. Unique(rows)
  BY <1>2, <1>4, <1>7 DEF TableFits, Unique
<1>9. \A i \in DOMAIN rows : i < nextId + 1 /\ RowFits(rows[i])
  BY <1>1, <1>2, <1>4 DEF TableFits
<1>10. TableFits(rows, nextId + 1)
  BY <1>2, <1>5, <1>6, <1>8, <1>9 DEF TableFits
<1>11. ASSUME NEW v \in Others(w), importer[v] # IdleImporter
       PROVE  LET j == importer[v] IN
              /\ \A i \in DOMAIN j.mine :
                   /\ i \in DOMAIN rows <=> i \in DOMAIN permits
                   /\ i \in DOMAIN rows => rows[i] = permits[i]
              /\ \A i \in DOMAIN j.mine, l \in DOMAIN rows \ DOMAIN j.mine :
                   ~SameIdentity(j.mine[i], rows[l])
              /\ j.at = "write" /\ j.tier < 3 /\ j.id \in DOMAIN rows => j.id \in DOMAIN permits
  <2> DEFINE j == importer[v]
  <2>1. /\ OwnRows(v) = j.mine /\ OwnFits(j.mine, permits, nextId) /\ FoundFits(j, permits, nextId)
        /\ \A i \in DOMAIN j.mine, l \in DOMAIN permits \ DOMAIN j.mine : ~SameIdentity(j.mine[i], permits[l])
    BY <1>11, OthersFit
  <2>2. nextId \notin DOMAIN j.mine /\ DOMAIN j.mine \subseteq Ids /\ 0 \notin DOMAIN j.mine
    BY <1>2, <2>1, PermitAssumption DEF OwnFits, IsTable, Ids
  <2>3. \A i \in DOMAIN j.mine : ~SameIdentity(j.mine[i], p)
    <3>1. \A i \in DOMAIN j.mine : ~SameIdentity(p, j.mine[i])
      BY <2>1, <2>2 DEF CollidesUncommitted, Collides, p
    <3> QED BY <3>1, SameBothWays
  <2>4. j.at = "write" /\ j.tier < 3 => j.id # nextId
    BY <1>2, <2>1 DEF FoundFits
  <2> QED BY <1>3, <1>4, <2>1, <2>2, <2>3, <2>4
<1>12. Succeeds(w, rows)
  BY <1>3, <1>4, <1>6, <1>11 DEF Succeeds
<1> QED BY <1>3, <1>10, <1>12 DEF rows, p

\* A row is imported.
LEMMA UpsertKeeps ==
  ASSUME PermitInv, NEW w \in Importers, upsert_city_permits(w)
  PROVE  /\ PermitInv'
         /\ \A i \in DOMAIN permits \cap DOMAIN permits' : permits'[i] = permits[i]
<1> DEFINE j == importer[w]
<1>1. Working(w) /\ j.at = "upsert" /\ nextId \in Ids /\ UNCHANGED sources
  BY DEF upsert_city_permits, Working
<1>2. IsImporter(j) /\ ImporterPieces(j) /\ StageFits(j) /\ TableFits(permits, nextId)
  BY <1>1, AtWork DEF PermitInv
<1>3. PICK n \in j.todo :
        LET there == {i \in DOMAIN permits : permits[i].external = n}
            next == IF j.todo = {n} THEN IdleImporter ELSE [j EXCEPT !.todo = @ \ {n}]
        IN /\ ~CollidesUncommitted(w, 0, GenericRow(n))
           /\ \/ /\ there = {}
                 /\ Commits(w, next, With(permits, nextId, GenericRow(n)))
                 /\ nextId' = nextId + 1
              \/ /\ there # {} /\ ~j.full
                 /\ Commits(w, next, update_permit(permits, CHOOSE i \in there : TRUE, n))
                 /\ UNCHANGED nextId
              \/ /\ there # {} /\ j.full
                 /\ Put(w, IdleImporter) /\ UNCHANGED <<permits, nextId>>
  BY DEF upsert_city_permits
<1> DEFINE there == {i \in DOMAIN permits : permits[i].external = n}
           k == [j EXCEPT !.todo = @ \ {n}]
           next == IF j.todo = {n} THEN IdleImporter ELSE k
<1>4. n \in Numbers
  BY <1>2 DEF ImporterPieces
<1>5. nextId \in Nat /\ nextId + 1 \in 1..(MaxPermits + 1) /\ nextId \in 1..(MaxPermits + 1)
  BY <1>1, PermitAssumption DEF Ids
<1>6. /\ IsImporter(k) /\ k.at = "upsert" /\ k.mine = NoPermits /\ k.todo \subseteq j.todo
      /\ k.rows = j.rows
  <2>1. k.at = "upsert" /\ k.mine = j.mine /\ k.todo = j.todo \ {n} /\ k.rows = j.rows
    BY <1>1, <1>2 DEF IsImporter
  <2>2. j.todo \ {n} \in SUBSET Numbers
    BY <1>2 DEF ImporterPieces
  <2>3. IsImporter(k)
    BY <1>2, <2>1, <2>2 DEF IsImporter
  <2> QED BY <1>1, <1>2, <2>1, <2>3 DEF StageFits
<1> HIDE DEF k, there
<1>7. ASSUME NEW rows, NEW later, TableFits(rows, later) PROVE ImporterFits(next, rows, later)
  <2>1. ImporterFits(k, rows, later)
    <3>1. StageFits(k) /\ FoundFits(k, rows, later) /\ OwnFits(k.mine, rows, later)
      BY <1>2, <1>6, <1>7, NoneOwned DEF StageFits, FoundFits
    <3>2. PlanHolds(k, rows) /\ ImportHolds(k, rows) /\ BridgeHolds(k) /\ FoundHolds(k, rows)
      BY <1>6 DEF PlanHolds, ImportHolds, BridgeHolds, FoundHolds
    <3> QED BY <1>6, <3>1, <3>2 DEF ImporterFits
  <2>2. ImporterFits(IdleImporter, rows, later)
    BY DEF ImporterFits
  <2> QED BY <2>1, <2>2
<1>8. next # IdleImporter => next.mine = NoPermits /\ next.at # "write"
  BY <1>6
<1> HIDE DEF next
<1>9. CASE /\ there = {} /\ Commits(w, next, With(permits, nextId, GenericRow(n)))
           /\ nextId' = nextId + 1
  <2> DEFINE rows == With(permits, nextId, GenericRow(n))
  <2>1. ~CollidesUncommitted(w, 0, GenericRow(n))
    BY <1>3
  <2>2. TableFits(rows, nextId + 1) /\ Succeeds(w, rows) /\ nextId \notin DOMAIN permits
    BY <1>1, <1>4, <1>9, <2>1, GenericSucceeds DEF there
  <2>3. permits' = rows
    BY <1>9 DEF Commits
  <2>4. \A i \in DOMAIN permits : rows[i] = permits[i]
    BY <2>2 DEF With
  <2> HIDE DEF rows
  <2>5. Commits(w, next, rows) /\ TableFits(rows, nextId') /\ ImporterFits(next, rows, nextId')
        /\ nextId' \in {nextId, nextId + 1} /\ nextId' \in 1..(MaxPermits + 1)
    BY <1>5, <1>7, <1>9, <2>2 DEF rows
  <2>6. PermitInv'
    BY <1>1, <1>8, <2>2, <2>5, CommitKeeps
  <2> QED BY <2>3, <2>4, <2>6
<1>10. CASE /\ there # {}
            /\ Commits(w, next, update_permit(permits, CHOOSE i \in there : TRUE, n))
            /\ UNCHANGED nextId
  <2>1. FirstImporter(there) \in there
    BY <1>10, FirstOf
  <2>2. update_permit(permits, FirstImporter(there), n) = permits
    <3> DEFINE i == FirstImporter(there)
    <3>1. i \in DOMAIN permits /\ permits[i].external = n
      BY <2>1 DEF there
    <3>2. permits[i] \in Permit /\ permits = [l \in DOMAIN permits |-> permits[l]]
      BY <1>2, <3>1, TableRows DEF TableFits
    <3> HIDE DEF i
    <3>3. [permits[i] EXCEPT !.external = n] = permits[i]
      BY <3>1, <3>2 DEF Permit
    <3>4. update_permit(permits, i, n) = With(permits, i, permits[i])
      BY <3>3 DEF update_permit
    <3>5. With(permits, i, permits[i]) = permits
      BY <3>1, <3>2 DEF With
    <3> QED BY <3>4, <3>5 DEF i
  <2>3. Commits(w, next, permits)
    BY <1>10, <2>2 DEF FirstImporter
  <2>4. TableFits(permits, nextId') /\ nextId' \in {nextId, nextId + 1} /\ nextId' \in 1..(MaxPermits + 1)
        /\ ImporterFits(next, permits, nextId')
    BY <1>2, <1>5, <1>7, <1>10
  <2>5. PermitInv'
    BY <1>1, <1>8, <2>3, <2>4, SelfSucceeds, CommitKeeps
  <2>6. permits' = permits
    BY <2>3 DEF Commits
  <2> QED BY <2>5, <2>6
<1>11. CASE Put(w, IdleImporter) /\ UNCHANGED <<permits, nextId>>
  <2>1. ImporterFits(IdleImporter, permits, nextId) /\ sources' \in 0..MaxSources
    BY <1>1 DEF ImporterFits, PermitInv
  <2> QED BY <1>11, <2>1, GoesOn
<1> QED BY <1>3, <1>9, <1>10, <1>11 DEF next, there, k

\* An importer ends.
LEMMA EndKeeps ==
  ASSUME PermitInv, NEW w \in Importers, ImporterEnds(w)
  PROVE  PermitInv'
<1>1. /\ Put(w, IdleImporter) /\ UNCHANGED <<permits, nextId>> /\ sources' \in 0..MaxSources
      /\ ImporterFits(IdleImporter, permits, nextId)
  BY DEF ImporterEnds, PermitInv, ImporterFits
<1> QED BY <1>1, GoesOn

-----------------------------------------------------------------------------
(* The invariant, and what follows *)

\* The rows of old fit.
LEMMA PermitInvInit == PermitInit => PermitInv
<1> SUFFICES ASSUME PermitInit PROVE PermitInv
  OBVIOUS
<1>1. PICK n \in 0..MaxPermits :
        /\ permits \in [1..n -> [external : LegacyKeys, official : {NoNumber}, by : {"legacy"}]]
        /\ \A i, j \in 1..n : i # j => permits[i].external # permits[j].external
        /\ nextId = n + 1
  BY DEF PermitInit
<1>2. n \in Nat /\ nextId \in 1..(MaxPermits + 1) /\ DOMAIN permits = 1..n /\ 1..n \subseteq Ids
  BY <1>1, PermitAssumption DEF Ids
<1>3. \A i \in DOMAIN permits : /\ permits[i] \in Permit /\ permits[i].official = NoNumber
                                /\ permits[i].by = "legacy" /\ permits[i].external \in LegacyKeys
  BY <1>1, <1>2 DEF Permit
<1>4. IsTable(permits)
  BY <1>1, <1>2 DEF IsTable, Permit
<1>5. Unique(permits)
  BY <1>1, <1>2, <1>3 DEF Unique, SameIdentity
<1>6. \A i \in DOMAIN permits : i < nextId /\ RowFits(permits[i])
  BY <1>1, <1>2, <1>3, PermitAssumption DEF RowFits
<1>7. \A m \in Numbers : ByOfficial(permits, m) = {}
  BY <1>3, PermitAssumption DEF ByOfficial
<1>8. TableFits(permits, nextId)
  BY <1>4, <1>5, <1>6, <1>7 DEF TableFits
<1>9. /\ importer = [w \in Importers |-> importer[w]] /\ \A w \in Importers : importer[w] = IdleImporter
      /\ sources \in 0..MaxSources
  BY PermitAssumption DEF PermitInit
<1> QED BY <1>2, <1>8, <1>9 DEF PermitInv, ImporterFits, Apart, Others

\* What a step does to the committed rows: numbers stay, but for those that an
\* import which has been disturbed commits over others of the same key.
RowsSucceed ==
  \A i \in DOMAIN permits \cap DOMAIN permits' :
    permits[i].official # NoNumber =>
      \/ permits'[i].official = permits[i].official
      \/ /\ permits'[i].official # NoNumber
         /\ legacy_key(permits'[i].official) = legacy_key(permits[i].official)
         /\ \E w \in Importers :
              /\ importer[w].at = "commit" /\ importer[w].disturbed
              /\ i \in DOMAIN importer[w].mine
              /\ permits'[i] = importer[w].mine[i]

\* An import commits the numbers that were there, unless it has been disturbed.
LEMMA ImportCommitsNumbers ==
  ASSUME PermitInv, NEW w \in Importers, importer[w].at = "commit", permits' = View(w)
  PROVE  RowsSucceed
<1> DEFINE j == importer[w]
<1>1. Working(w)
  BY DEF Working
<1>2. Succeeds(w, View(w))
  BY <1>1, OwnSucceeds
<1> SUFFICES ASSUME NEW i \in DOMAIN permits \cap DOMAIN View(w), permits[i].official # NoNumber
             PROVE  \/ View(w)[i].official = permits[i].official
                    \/ /\ View(w)[i].official # NoNumber
                       /\ legacy_key(View(w)[i].official) = legacy_key(permits[i].official)
                       /\ j.disturbed /\ i \in DOMAIN j.mine /\ View(w)[i] = j.mine[i]
  BY DEF RowsSucceed
<1>3. CASE i \notin DOMAIN j.mine
  BY <1>1, <1>3, Sees
<1>4. CASE i \in DOMAIN j.mine /\ j.disturbed
  BY <1>1, <1>2, <1>4, Sees DEF Succeeds
<1>5. CASE i \in DOMAIN j.mine /\ ~j.disturbed
  <2>1. ImportHolds(j, permits)
    BY <1>1, <1>5, AtWork
  <2>2. permits[i].official \in {NoNumber, j.mine[i].official}
    BY <1>5, <2>1 DEF ImportHolds
  <2> QED BY <1>1, <1>5, <2>2, Sees
<1> QED BY <1>3, <1>4, <1>5

\* A bridge commits numbers where there were none.
LEMMA BridgeCommitsNumbers ==
  ASSUME PermitInv, NEW w \in Importers, importer[w].at = "bridged", permits' = View(w)
  PROVE  RowsSucceed
<1> DEFINE j == importer[w]
<1>1. Working(w)
  BY DEF Working
<1>2. \A i \in DOMAIN j.mine \cap DOMAIN permits : permits[i].official = NoNumber
  BY <1>1, AtWork DEF FoundFits
<1>3. \A i \in DOMAIN permits : permits[i].official # NoNumber => View(w)[i] = permits[i]
  BY <1>1, <1>2, Sees
<1> QED BY <1>3 DEF RowsSucceed

\* Every step keeps the invariant, and the numbers.
LEMMA PermitInvStep ==
  ASSUME PermitInv, [PermitNext]_permitVars
  PROVE  PermitInv' /\ RowsSucceed
<1>1. CASE UNCHANGED permitVars
  BY <1>1 DEF permitVars, PermitInv, ImporterFits, Apart, Others, RowsSucceed
<1>2. ASSUME NEW w \in Importers, plan_surrey_identity_import(w) \/ plan_permit_official_source_id_bridge(w)
                                    \/ scrape_surrey_permits(w)
      PROVE  PermitInv' /\ RowsSucceed
  <2>1. UNCHANGED permits
    BY <1>2 DEF plan_surrey_identity_import, plan_permit_official_source_id_bridge,
                scrape_surrey_permits, Fetches
  <2> QED BY <1>2, <2>1, PlansKeep DEF RowsSucceed
<1>3. ASSUME NEW w \in Importers, apply_surrey_identity_import_full(w)
      PROVE  PermitInv' /\ RowsSucceed
  BY <1>3, ImportBegins DEF RowsSucceed, apply_surrey_identity_import_full
<1>4. ASSUME NEW w \in Importers, FindOfficial(w)
      PROVE  PermitInv' /\ RowsSucceed
  BY <1>4, FindOfficialKeeps DEF RowsSucceed, FindOfficial
<1>5. ASSUME NEW w \in Importers, FindLegacy(w)
      PROVE  PermitInv' /\ RowsSucceed
  BY <1>5, FindLegacyKeeps DEF RowsSucceed, FindLegacy
<1>6. ASSUME NEW w \in Importers, _apply_update(w)
      PROVE  PermitInv' /\ RowsSucceed
  BY <1>6, UpdateKeeps DEF RowsSucceed, _apply_update
<1>7. ASSUME NEW w \in Importers, InsertPermit(w)
      PROVE  PermitInv' /\ RowsSucceed
  BY <1>7, InsertKeeps DEF RowsSucceed, InsertPermit
<1>8. ASSUME NEW w \in Importers, run_surrey_identity_import_once(w)
      PROVE  PermitInv' /\ RowsSucceed
  <2>1. UNCHANGED permits \/ permits' = View(w)
    BY <1>8 DEF run_surrey_identity_import_once, Commits
  <2>2. CASE UNCHANGED permits
    BY <1>8, <2>2, OnceKeeps DEF RowsSucceed
  <2>3. CASE permits' = View(w)
    BY <1>8, <2>3, OnceKeeps, ImportCommitsNumbers DEF run_surrey_identity_import_once
  <2> QED BY <2>1, <2>2, <2>3
<1>9. ASSUME NEW w \in Importers, apply_permit_official_source_id_bridge(w)
      PROVE  PermitInv' /\ RowsSucceed
  BY <1>9, BridgeBegins DEF RowsSucceed, apply_permit_official_source_id_bridge
<1>10. ASSUME NEW w \in Importers, BridgeRow(w)
       PROVE  PermitInv' /\ RowsSucceed
  BY <1>10, BridgeKeeps DEF RowsSucceed, BridgeRow
<1>11. ASSUME NEW w \in Importers, execute_full_bridge(w)
       PROVE  PermitInv' /\ RowsSucceed
  <2>1. permits' = View(w)
    BY <1>11 DEF execute_full_bridge, Commits
  <2> QED BY <1>11, <2>1, BridgeEnds, BridgeCommitsNumbers DEF execute_full_bridge
<1>12. ASSUME NEW w \in Importers, DeleteSource(w)
       PROVE  PermitInv' /\ RowsSucceed
  BY <1>12, DeleteKeeps DEF RowsSucceed
<1>13. ASSUME NEW w \in Importers, upsert_city_permits(w)
       PROVE  PermitInv' /\ RowsSucceed
  BY <1>13, UpsertKeeps DEF RowsSucceed
<1>14. ASSUME NEW w \in Importers, ImporterEnds(w)
       PROVE  PermitInv' /\ RowsSucceed
  BY <1>14, EndKeeps DEF RowsSucceed, ImporterEnds
<1> QED
  BY <1>1, <1>2, <1>3, <1>4, <1>5, <1>6, <1>7, <1>8, <1>9, <1>10, <1>11, <1>12, <1>13, <1>14
     DEF PermitNext

PermitSpec == PermitInit /\ [][PermitNext]_permitVars

\* The permits and what importers have found, planned and written of them fit
\* together, whatever the numbers, the keys and the importers.
THEOREM PermitInvariant == PermitSpec => []PermitInv
<1>1. PermitInv /\ [PermitNext]_permitVars => PermitInv'
  BY PermitInvStep
<1> QED BY PermitInvInit, <1>1, PTL DEF PermitSpec

\* The importers' records are of their types.
THEOREM PermitTypes == PermitSpec => []PermitTypeOK
<1>1. PermitInv => PermitTypeOK
  BY DEF PermitInv, PermitTypeOK, TableFits, ImporterFits
<1> QED BY PermitInvariant, <1>1, PTL

\* A plan found safe is refused only for a reason.
THEOREM RefusedForAReasonHolds == PermitSpec => []RefusedForAReason
<1>1. PermitInv => RefusedForAReason
  <2> SUFFICES ASSUME PermitInv, NEW w \in Importers, importer[w].at = "refused"
               PROVE  importer[w].drifted \/ Reason(importer[w], permits)
    BY DEF RefusedForAReason, Reason
  <2>1. Working(w)
    BY DEF Working
  <2> QED BY <2>1, AtWork
<1> QED BY PermitInvariant, <1>1, PTL

\* A row keeps its official number; only a disturbed import puts another number
\* of the same key there.
THEOREM OfficialNumbersHold == PermitSpec => OfficialNumbersStay
<1>1. PermitInv /\ [PermitNext]_permitVars => [RowsSucceed]_permits
  BY PermitInvStep
<1>2. PermitSpec => [][RowsSucceed]_permits
  BY PermitInvariant, <1>1, PTL DEF PermitSpec
<1>3. [][RowsSucceed]_permits => OfficialNumbersStay
  BY DEF RowsSucceed, OfficialNumbersStay
<1> QED BY <1>2, <1>3
===============================================================================
