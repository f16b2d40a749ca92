------------------------------- MODULE ClaimLedger -------------------------------
(***************************************************************************)
(* The ledger of classification claims (pipeline/registry_engine/claims):  *)
(* gateway.py appends claims, each with its evidence row, and at most one  *)
(* terminal event to a claim; resolver.py computes what is believed, as of *)
(* a business time and a time of knowledge.  The gateway stamps a row with *)
(* its process's clock before the transaction that inserts it begins.      *)
(*                                                                         *)
(* A fact stands for everything the idempotency key is computed from, and  *)
(* for the claim_id of the claim that asserts it.  Calls that a validation *)
(* or the rule set refuses change nothing and are not made here.  A rule   *)
(* set has two tiers of sources and leaves none out; the grading of a      *)
(* winner as disputed or stale is left out.                                *)
(***************************************************************************)
EXTENDS FiniteSets, Naturals

CONSTANTS Facts, NoFact,
          Scopes,      \* the (company_id, claim_type, predicate) classes of the facts
          Strong,      \* facts whose source has precedence over that of the others
          Clients,     \* processes that hold a write capability
          MaxCalls, MaxClock

ASSUME LedgerAssumption ==
  /\ NoFact \notin Facts
  /\ \A f \in Facts : \E S \in Scopes : f \in S
  /\ \A S, T \in Scopes : S # T => S \cap T = {}
  /\ MaxClock \in Nat /\ MaxCalls \in Nat

VARIABLES
  claims,    \* classification_claims, with claim_evidence
  events,    \* claim_events
  call,      \* the gateway call each client is in
  calls,     \* calls made so far
  today

ledgerVars == <<claims, events, call, calls, today>>

Clock == 0..MaxClock
Claim == [fact : Facts, effective_at : Clock, extracted_at : Clock]
ClaimEvent == [fact : Facts, type : {"superseded", "rejected", "adjudicated"},
          related : Facts \cup {NoFact}, event_at : Clock, created_at : Clock]
NoCall == [at |-> "idle"]
GatewayCall == {NoCall} \cup [at : {"submit"}, claim : Claim]
        \cup [at : {"event", "locked"}, event : ClaimEvent]

SameScope(f, g) == \E S \in Scopes : f \in S /\ g \in S
Claimed == {c.fact : c \in claims}

LedgerInit ==
  /\ claims \in SUBSET [fact : Facts, effective_at : {0}, extracted_at : {0}]
  /\ events = {}
  /\ call = [w \in Clients |-> NoCall]
  /\ calls = 0
  /\ today = 0

-----------------------------------------------------------------------------
(* submit_claim *)

\* Bug: a claim is known from when it takes effect.
StampAsEffective(f, effective) == [fact |-> f, effective_at |-> effective, extracted_at |-> effective]

Stamp(f, effective) == [fact |-> f, effective_at |-> effective, extracted_at |-> today]

NewCall(w) == call[w] = NoCall /\ calls < MaxCalls /\ calls' = calls + 1

submit_claim(w) ==
  /\ NewCall(w)
  /\ \E f \in Facts, effective \in Clock :
       call' = [call EXCEPT ![w] = [at |-> "submit", claim |-> Stamp(f, effective)]]
  /\ UNCHANGED <<claims, events, today>>

\* ON CONFLICT (idempotency_key) DO NOTHING: a fact that is there stays as it is.
CommitClaim(w) ==
  /\ call[w].at = "submit"
  /\ claims' = IF call[w].claim.fact \in Claimed THEN claims ELSE claims \cup {call[w].claim}
  /\ call' = [call EXCEPT ![w] = NoCall]
  /\ UNCHANGED <<events, calls, today>>

-----------------------------------------------------------------------------
(* record_event *)

\* ClaimEvent refuses a misplaced related_claim_id.
record_event(w) ==
  /\ NewCall(w)
  /\ \E e \in ClaimEvent :
       /\ e.created_at = today
       /\ e.type = "superseded" <=> e.related # NoFact
       /\ e.related # e.fact
       /\ call' = [call EXCEPT ![w] = [at |-> "event", event |-> e]]
  /\ UNCHANGED <<claims, events, today>>

\* Bug: a superseding claim is accepted from any scope.
AcceptsUnscoped(e) ==
  /\ e.fact \in Claimed
  /\ e.type = "superseded" => e.related \in Claimed
  /\ \A d \in events : d.fact # e.fact

\* The checks made under the lock: the claim exists, a superseding one exists in
\* the same scope, and the claim has no terminal event.
Accepts(e) ==
  /\ e.fact \in Claimed
  /\ e.type = "superseded" => e.related \in Claimed /\ SameScope(e.fact, e.related)
  /\ \A d \in events : d.fact # e.fact

\* SELECT ... FOR UPDATE on the parent claim, and the checks.
LockParent(w) ==
  /\ call[w].at = "event" /\ Accepts(call[w].event)
  /\ \A v \in Clients : call[v].at = "locked" => call[v].event.fact # call[w].event.fact
  /\ call' = [call EXCEPT ![w].at = "locked"]
  /\ UNCHANGED <<claims, events, calls, today>>

\* The foreign key of related_claim_id takes a lock that a FOR UPDATE refuses.
WaitsFor(w, v) ==
  /\ call[w].at = "locked" /\ call[v].at = "locked"
  /\ call[w].event.related = call[v].event.fact

\* The unique index on claim_id refuses a second event.
CommitEvent(w) ==
  /\ call[w].at = "locked" /\ \A d \in events : d.fact # call[w].event.fact
  /\ \A v \in Clients : ~WaitsFor(w, v)
  /\ events' = events \cup {call[w].event}
  /\ call' = [call EXCEPT ![w] = NoCall]
  /\ UNCHANGED <<claims, calls, today>>

-----------------------------------------------------------------------------

\* A check raises, the evidence row is refused, a deadlock is broken or the
\* process ends: the transaction is rolled back.
Roll(w) ==
  /\ call[w] # NoCall
  /\ call' = [call EXCEPT ![w] = NoCall]
  /\ UNCHANGED <<claims, events, calls, today>>

LedgerTick ==
  /\ today < MaxClock /\ today' = today + 1
  /\ UNCHANGED <<claims, events, call, calls>>

LedgerNext ==
  \/ \E w \in Clients :
       submit_claim(w) \/ CommitClaim(w) \/ record_event(w) \/ LockParent(w) \/ CommitEvent(w) \/ Roll(w)
  \/ LedgerTick

LedgerSpec == LedgerInit /\ [][LedgerNext]_ledgerVars

-----------------------------------------------------------------------------
(* resolve *)

Adjudicated(candidates, ended) == {e \in ended : e.type = "adjudicated"}

\* Bug: the adjudication recorded last wins, whenever it was made.
LatestRecorded(ended) == CHOOSE e \in ended : \A d \in ended : d.created_at <= e.created_at

Latest(ended) == CHOOSE e \in ended : \A d \in ended : d.event_at <= e.event_at

\* The claim that wins in a scope at business time as_of, from the claims and
\* events that are known: an adjudicated one before all others, then the
\* latest of the strongest that have no terminal event.
resolve(scope, as_of, known, told) ==
  LET candidates == {c \in known : c.fact \in scope /\ c.effective_at <= as_of}
      ended == {e \in told : e.event_at <= as_of /\ \E c \in candidates : c.fact = e.fact}
      adjudicated == Adjudicated(candidates, ended)
      open == {c \in candidates : \A e \in ended : e.fact # c.fact}
      top == {c \in open : c.fact \in Strong \/ \A d \in open : d.fact \notin Strong}
  IN CASE adjudicated # {} -> [how |-> "adjudicated", winner |-> Latest(adjudicated).fact]
       [] adjudicated = {} /\ open # {} ->
            [how |-> "resolved",
             winner |-> (CHOOSE c \in top : \A d \in top : d.effective_at <= c.effective_at).fact]
       [] adjudicated = {} /\ open = {} -> [how |-> "none", winner |-> NoFact]

Known(k) == {c \in claims : c.extracted_at <= k}
Told(k) == {e \in events : e.created_at <= k}
Belief(scope, as_of, k) == resolve(scope, as_of, Known(k), Told(k))

-----------------------------------------------------------------------------

LedgerTypeOK ==
  /\ claims \subseteq Claim /\ events \subseteq ClaimEvent
  /\ call \in [Clients -> GatewayCall]
  /\ calls \in 0..MaxCalls /\ today \in Clock

\* What resolve() demands of the rows it is given, and what the consistency
\* audit looks for: a fact is claimed once, an event belongs to a claim that
\* has no other, and a superseding claim exists in the same scope.
LedgerIsWellFormed ==
  /\ \A c, d \in claims : c.fact = d.fact => c = d
  /\ \A e, d \in events : e.fact = d.fact => e = d
  /\ \A e \in events :
       /\ e.fact \in Claimed
       /\ e.type = "superseded" => e.related \in Claimed /\ SameScope(e.fact, e.related)

\* A time is settled once every call stamped at or before it has ended.
Settled(k) ==
  /\ k < today
  /\ \A w \in Clients :
       /\ call[w].at = "submit" => k < call[w].claim.extracted_at
       /\ call[w].at \in {"event", "locked"} => k < call[w].event.created_at

\* A time of knowledge that is settled stays so, and what was believed as of it is
\* never revised, though calls stamp their rows long before they commit them.
SettledBeliefsStay ==
  [][\A k \in Clock : Settled(k) =>
       /\ Settled(k)'
       /\ \A scope \in Scopes, as_of \in Clock :
            Belief(scope, as_of, k)' = Belief(scope, as_of, k)]_ledgerVars

\* The adjudications in force in a scope at a business time.
Adjudications(scope, as_of) ==
  {e \in events :
     /\ e.type = "adjudicated" /\ e.fact \in scope /\ e.event_at <= as_of
     /\ \E c \in claims : c.fact = e.fact /\ c.effective_at <= as_of}

\* Once a human has adjudicated a scope, what is believed of it, the winner
\* included, changes only with a further adjudication, and only with one made no
\* earlier than those in force: neither claims and other events nor an older
\* adjudication that is recorded late displace it.
AdjudicationStands ==
  [][\A scope \in Scopes, as_of \in Clock :
       LET old == Belief(scope, as_of, MaxClock)
           new == Belief(scope, as_of, MaxClock)'
       IN old.how = "adjudicated" =>
            \/ new = old
            \/ /\ new.how = "adjudicated"
               /\ \E e \in Adjudications(scope, as_of)' \ events :
                    \A d \in Adjudications(scope, as_of) : d.event_at <= e.event_at]_ledgerVars
===============================================================================
