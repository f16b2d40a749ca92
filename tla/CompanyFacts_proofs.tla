------------------------- MODULE CompanyFacts_proofs --------------------------
(***************************************************************************)
(* Theorems about what is known of a company: the claim ledger, for any    *)
(* facts, scopes, clients and bounds, the Google enrichment, for any       *)
(* companies, places and refreshes, and the merges of company rows and     *)
(* their rollback, for any rows, groups, permits, awards and outcomes.     *)
(*                                                                         *)
(* The ledger's invariant adds to its well-formedness what the checks made *)
(* under the row lock establish, which holds until the event is inserted   *)
(* because claims are never removed. The enrichment's adds what a run      *)
(* holds of the companies it looks up: a status that differs from the one  *)
(* it read is the one it sent the company to. The merges' says what a      *)
(* snapshot is good for: a run has left alone what it holds no row of.     *)
(***************************************************************************)
EXTENDS ClaimLedger, GoogleEnrichment, CompanyMerge, TLAPS

(***************************************************************************)
(*                              The claim ledger                             *)
(***************************************************************************)
\* What Accepts has found of an event stays true while its parent is locked.
AcceptedEvents ==
  \A w \in Clients : call[w].at = "locked" =>
    LET e == call[w].event
    IN /\ e.fact \in Claimed
       /\ e.type = "superseded" => e.related \in Claimed /\ SameScope(e.fact, e.related)

LedgerInv == LedgerTypeOK /\ LedgerIsWellFormed /\ AcceptedEvents

-----------------------------------------------------------------------------

\* The tags of a call tell its kinds apart, and what it holds is typed.
LEMMA CallTypes ==
  ASSUME NEW c \in GatewayCall
  PROVE  /\ c.at \in {"idle", "submit", "event", "locked"}
         /\ c = NoCall <=> c.at = "idle"
         /\ c.at = "submit" => c.claim \in Claim
         /\ c.at \in {"event", "locked"} => c.event \in ClaimEvent
         /\ c.at = "event" => [c EXCEPT !.at = "locked"] \in GatewayCall
         /\ c.at = "event" => [c EXCEPT !.at = "locked"].at = "locked"
         /\ c.at = "event" => [c EXCEPT !.at = "locked"].event = c.event
<1>1. CASE c = NoCall
  BY <1>1 DEF NoCall
<1>2. CASE c \in [at : {"submit"}, claim : Claim]
  BY <1>2 DEF NoCall
<1>3. CASE c \in [at : {"event", "locked"}, event : ClaimEvent]
  BY <1>3 DEF NoCall, GatewayCall
<1>4. QED
  BY <1>1, <1>2, <1>3 DEF GatewayCall

\* A call begins, and nothing else happens.
LEMMA CallBegins ==
  ASSUME LedgerInv, NEW w \in Clients, NEW c \in GatewayCall,
         c.at \in {"submit", "event"}, NewCall(w),
         call' = [call EXCEPT ![w] = c],
         UNCHANGED <<claims, events, today>>
  PROVE  LedgerInv'
<1>1. LedgerTypeOK'
  BY LedgerAssumption DEF LedgerInv, LedgerTypeOK, NewCall
<1>2. LedgerIsWellFormed'
  BY DEF LedgerInv, LedgerIsWellFormed, Claimed
<1>3. AcceptedEvents'
  BY DEF LedgerInv, LedgerTypeOK, AcceptedEvents, Claimed
<1>4. QED
  BY <1>1, <1>2, <1>3 DEF LedgerInv

\* A call that ends without an effect.
LEMMA CallEnds ==
  ASSUME LedgerInv, NEW w \in Clients,
         call' = [call EXCEPT ![w] = NoCall],
         UNCHANGED <<claims, events, calls, today>>
  PROVE  LedgerInv'
<1>1. LedgerTypeOK'
  BY DEF LedgerInv, LedgerTypeOK, GatewayCall
<1>2. LedgerIsWellFormed'
  BY DEF LedgerInv, LedgerIsWellFormed, Claimed
<1>3. AcceptedEvents'
  BY DEF LedgerInv, LedgerTypeOK, AcceptedEvents, Claimed, NoCall
<1>4. QED
  BY <1>1, <1>2, <1>3 DEF LedgerInv

\* A claim is inserted: those there stay, and it is the only one of its fact.
LEMMA ClaimStep ==
  ASSUME LedgerInv, NEW w \in Clients, CommitClaim(w)
  PROVE  LedgerInv'
<1>1. call[w] \in GatewayCall /\ call[w].claim \in Claim
  BY CallTypes DEF LedgerInv, LedgerTypeOK, CommitClaim
<1>2. CASE call[w].claim.fact \in Claimed
  BY <1>2, CallEnds DEF CommitClaim
<1>3. CASE call[w].claim.fact \notin Claimed
  <2>1. claims' = claims \cup {call[w].claim} /\ UNCHANGED <<events, calls, today>>
    BY <1>3 DEF CommitClaim
  <2>2. LedgerTypeOK'
    BY <1>1, <2>1 DEF LedgerInv, LedgerTypeOK, GatewayCall, CommitClaim
  <2>3. Claimed \subseteq Claimed'
    BY <2>1 DEF Claimed
  <2>4. \A c, d \in claims' : c.fact = d.fact => c = d
    BY <1>3, <2>1 DEF LedgerInv, LedgerIsWellFormed, Claimed
  <2>5. LedgerIsWellFormed'
    BY <2>1, <2>3, <2>4 DEF LedgerInv, LedgerIsWellFormed
  <2>6. AcceptedEvents'
    BY <2>3 DEF LedgerInv, LedgerTypeOK, AcceptedEvents, CommitClaim, NoCall
  <2>7. QED
    BY <2>2, <2>5, <2>6 DEF LedgerInv
<1>4. QED
  BY <1>2, <1>3

\* The checks have found what the insert relies on.
LEMMA LockStep ==
  ASSUME LedgerInv, NEW w \in Clients, LockParent(w)
  PROVE  LedgerInv'
<1>1. call[w] \in GatewayCall /\ call[w].at = "event" /\ call \in [Clients -> GatewayCall]
  BY DEF LedgerInv, LedgerTypeOK, LockParent
<1> DEFINE locked == [call[w] EXCEPT !.at = "locked"]
<1>2. /\ locked \in GatewayCall /\ locked.event = call[w].event
      /\ call' = [call EXCEPT ![w] = locked]
  BY <1>1, CallTypes DEF LockParent
<1> HIDE DEF locked
<1>3. LedgerTypeOK'
  BY <1>1, <1>2 DEF LedgerInv, LedgerTypeOK, LockParent
<1>4. LedgerIsWellFormed'
  BY DEF LedgerInv, LedgerIsWellFormed, Claimed, LockParent
<1>5. AcceptedEvents'
  <2> SUFFICES ASSUME NEW v \in Clients, call'[v].at = "locked"
               PROVE  /\ call'[v].event.fact \in Claimed
                      /\ call'[v].event.type = "superseded" =>
                           /\ call'[v].event.related \in Claimed
                           /\ SameScope(call'[v].event.fact, call'[v].event.related)
    BY DEF AcceptedEvents, Claimed, LockParent
  <2>1. CASE v = w
    BY <1>1, <1>2, <2>1 DEF LockParent, Accepts
  <2>2. CASE v # w
    BY <1>1, <1>2, <2>2 DEF LedgerInv, AcceptedEvents
  <2>3. QED
    BY <2>1, <2>2
<1>6. QED
  BY <1>3, <1>4, <1>5 DEF LedgerInv

\* The event inserted belongs to a claim that had none.
LEMMA EventStep ==
  ASSUME LedgerInv, NEW w \in Clients, CommitEvent(w)
  PROVE  LedgerInv'
<1>1. call[w] \in GatewayCall /\ call[w].event \in ClaimEvent
  BY CallTypes DEF LedgerInv, LedgerTypeOK, CommitEvent
<1>2. /\ events' = events \cup {call[w].event} /\ UNCHANGED <<claims, calls, today>>
      /\ call' = [call EXCEPT ![w] = NoCall]
  BY DEF CommitEvent
<1>3. LedgerTypeOK'
  BY <1>1, <1>2 DEF LedgerInv, LedgerTypeOK, GatewayCall
<1>4. LedgerIsWellFormed'
  <2>1. Claimed' = Claimed
    BY <1>2 DEF Claimed
  <2>2. \A e, d \in events' : e.fact = d.fact => e = d
    BY <1>2 DEF LedgerInv, LedgerIsWellFormed, CommitEvent
  <2>3. \A e \in events' : /\ e.fact \in Claimed
                           /\ e.type = "superseded" =>
                                e.related \in Claimed /\ SameScope(e.fact, e.related)
    BY <1>2 DEF LedgerInv, LedgerIsWellFormed, AcceptedEvents, CommitEvent
  <2>4. QED
    BY <1>2, <2>1, <2>2, <2>3 DEF LedgerInv, LedgerIsWellFormed
<1>5. AcceptedEvents'
  BY <1>2 DEF LedgerInv, LedgerTypeOK, AcceptedEvents, Claimed, NoCall
<1>6. QED
  BY <1>3, <1>4, <1>5 DEF LedgerInv

\* No claim and no event in the ledger, and no call under way.
LEMMA LedgerStarts == LedgerInit => LedgerInv
<1> SUFFICES ASSUME LedgerInit PROVE LedgerInv
  OBVIOUS
<1>1. 0 \in Clock /\ 0 \in 0..MaxCalls
  BY LedgerAssumption DEF Clock
<1>2. LedgerTypeOK
  BY <1>1 DEF LedgerInit, LedgerTypeOK, Claim, GatewayCall
<1>3. LedgerIsWellFormed
  BY DEF LedgerInit, LedgerIsWellFormed
<1>4. AcceptedEvents
  BY DEF LedgerInit, AcceptedEvents, NoCall
<1>5. QED
  BY <1>2, <1>3, <1>4 DEF LedgerInv

\* Every step of the ledger preserves the invariant.
LEMMA LedgerStep == LedgerInv /\ [LedgerNext]_ledgerVars => LedgerInv'
<1> SUFFICES ASSUME LedgerInv, [LedgerNext]_ledgerVars PROVE LedgerInv'
  OBVIOUS
<1>1. ASSUME NEW w \in Clients, submit_claim(w) PROVE LedgerInv'
  <2>1. PICK f \in Facts, effective \in Clock :
          call' = [call EXCEPT ![w] = [at |-> "submit", claim |-> Stamp(f, effective)]]
    BY <1>1 DEF submit_claim
  <2>2. Stamp(f, effective) \in Claim
    BY DEF Stamp, Claim, LedgerInv, LedgerTypeOK
  <2>3. [at |-> "submit", claim |-> Stamp(f, effective)] \in GatewayCall
    BY <2>2 DEF GatewayCall
  <2>4. QED
    BY <1>1, <2>1, <2>3, CallBegins DEF submit_claim
<1>2. ASSUME NEW w \in Clients, record_event(w) PROVE LedgerInv'
  <2>1. PICK e \in ClaimEvent : call' = [call EXCEPT ![w] = [at |-> "event", event |-> e]]
    BY <1>2 DEF record_event
  <2>2. [at |-> "event", event |-> e] \in GatewayCall
    BY DEF GatewayCall
  <2>3. QED
    BY <1>2, <2>1, <2>2, CallBegins DEF record_event
<1>3. ASSUME NEW w \in Clients, Roll(w) PROVE LedgerInv'
  BY <1>3, CallEnds DEF Roll
<1>4. CASE LedgerTick
  <2>1. LedgerTypeOK'
    BY <1>4, LedgerAssumption DEF LedgerInv, LedgerTypeOK, LedgerTick, Clock
  <2>2. LedgerIsWellFormed' /\ AcceptedEvents'
    BY <1>4 DEF LedgerInv, LedgerIsWellFormed, AcceptedEvents, Claimed, LedgerTick
  <2>3. QED
    BY <2>1, <2>2 DEF LedgerInv
<1>5. CASE UNCHANGED ledgerVars
  BY <1>5 DEF ledgerVars, LedgerInv, LedgerTypeOK, LedgerIsWellFormed, AcceptedEvents, Claimed
<1>6. QED
  BY <1>1, <1>2, <1>3, <1>4, <1>5, ClaimStep, LockStep, EventStep DEF LedgerNext

\* The invariant holds of every behaviour of the gateway's callers.
THEOREM LedgerInvariant == LedgerSpec => []LedgerInv
<1>1. QED
  BY LedgerStarts, LedgerStep, PTL DEF LedgerSpec

\* resolve() never meets rows it calls malformed, and the consistency audit finds
\* none: two terminal events of a claim, or a superseding claim of another scope.
THEOREM WellFormedLedger == LedgerSpec => []LedgerIsWellFormed
<1>1. LedgerInv => LedgerIsWellFormed
  BY DEF LedgerInv
<1>2. QED
  BY <1>1, LedgerInvariant, PTL

-----------------------------------------------------------------------------

\* Nothing is ever removed from the ledger, and what a step adds to it was stamped
\* by a call that has not ended.
LEMMA LedgerGrows ==
  ASSUME LedgerInv, [LedgerNext]_ledgerVars
  PROVE  /\ claims \subseteq claims' /\ events \subseteq events'
         /\ \A c \in claims' \ claims : \E w \in Clients :
              call[w].at = "submit" /\ call[w].claim = c
         /\ \A e \in events' \ events : \E w \in Clients :
              call[w].at = "locked" /\ call[w].event = e
         /\ today \in Nat /\ today' \in Nat /\ today <= today'
<1>1. today \in Nat /\ today' \in Nat /\ today <= today'
  BY LedgerAssumption
  DEF LedgerInv, LedgerTypeOK, Clock, LedgerNext, ledgerVars, submit_claim, CommitClaim,
      record_event, LockParent, CommitEvent, Roll, LedgerTick
<1>2. CASE \E w \in Clients : CommitClaim(w)
  BY <1>1, <1>2 DEF CommitClaim
<1>3. CASE \E w \in Clients : CommitEvent(w)
  BY <1>1, <1>3 DEF CommitEvent
<1>4. CASE claims' = claims /\ events' = events
  BY <1>1, <1>4
<1>5. QED
  BY <1>2, <1>3, <1>4
  DEF LedgerNext, ledgerVars, submit_claim, record_event, LockParent, Roll, LedgerTick

\* A settled time stays settled: a call is stamped with the time it begins at, and
\* keeps its stamp.
LEMMA SettledTimes ==
  ASSUME LedgerInv, [LedgerNext]_ledgerVars, NEW k \in Clock, Settled(k)
  PROVE  Settled(k)'
<1>1. k \in Nat /\ today \in Nat /\ today' \in Nat /\ k < today /\ k < today'
  BY LedgerGrows, LedgerAssumption DEF Clock, Settled
<1>2. \A w \in Clients : call[w] \in GatewayCall
  BY DEF LedgerInv, LedgerTypeOK
<1>3. SUFFICES ASSUME NEW w \in Clients
               PROVE  /\ call'[w].at = "submit" => k < call'[w].claim.extracted_at
                      /\ call'[w].at \in {"event", "locked"} => k < call'[w].event.created_at
  BY <1>1 DEF Settled
<1>4. CASE call'[w] = call[w] \/ call'[w] = NoCall
  BY <1>4 DEF Settled, NoCall
<1>5. CASE submit_claim(w)
  BY <1>1, <1>5 DEF submit_claim, Stamp, LedgerInv, LedgerTypeOK
<1>6. CASE record_event(w)
  BY <1>1, <1>6 DEF record_event, LedgerInv, LedgerTypeOK
<1>7. CASE LockParent(w)
  <2>1. /\ call'[w] = [call[w] EXCEPT !.at = "locked"] /\ call[w].at = "event"
    BY <1>7 DEF LockParent, LedgerInv, LedgerTypeOK
  <2>2. call'[w].at = "locked" /\ call'[w].event = call[w].event
    BY <1>2, <2>1, CallTypes
  <2>3. QED
    BY <2>1, <2>2 DEF Settled
<1>8. QED
  BY <1>4, <1>5, <1>6, <1>7
  DEF LedgerNext, ledgerVars, LedgerInv, LedgerTypeOK, submit_claim, CommitClaim,
      record_event, LockParent, CommitEvent, Roll, LedgerTick

\* What was believed as of a settled time is never revised: rows that are still to
\* come bear a later stamp.
THEOREM SettledBeliefs == LedgerSpec => SettledBeliefsStay
<1>1. LedgerInv /\ [LedgerNext]_ledgerVars =>
        [\A k \in Clock : Settled(k) =>
           /\ Settled(k)'
           /\ \A scope \in Scopes, as_of \in Clock :
                Belief(scope, as_of, k)' = Belief(scope, as_of, k)]_ledgerVars
  <2> SUFFICES ASSUME LedgerInv, [LedgerNext]_ledgerVars,
                      NEW k \in Clock, Settled(k)
               PROVE  /\ Settled(k)'
                      /\ \A scope \in Scopes, as_of \in Clock :
                           Belief(scope, as_of, k)' = Belief(scope, as_of, k)
    OBVIOUS
  <2>1. Known(k)' = Known(k)
    <3>1. ASSUME NEW c \in claims' \ claims
          PROVE  k \in Nat /\ c.extracted_at \in Nat /\ k < c.extracted_at
      <4>1. PICK w \in Clients : call[w].at = "submit" /\ call[w].claim = c
        BY LedgerGrows
      <4>2. call[w] \in GatewayCall
        BY DEF LedgerInv, LedgerTypeOK
      <4>3. c \in Claim
        BY <4>1, <4>2, CallTypes
      <4>4. QED
        BY <4>1, <4>3, LedgerAssumption DEF Settled, Claim, Clock
    <3>2. QED
      BY <3>1, LedgerGrows DEF Known, Clock
  <2>2. Told(k)' = Told(k)
    <3>1. ASSUME NEW e \in events' \ events
          PROVE  k \in Nat /\ e.created_at \in Nat /\ k < e.created_at
      <4>1. PICK w \in Clients : call[w].at = "locked" /\ call[w].event = e
        BY LedgerGrows
      <4>2. call[w] \in GatewayCall
        BY DEF LedgerInv, LedgerTypeOK
      <4>3. e \in ClaimEvent
        BY <4>1, <4>2, CallTypes
      <4>4. QED
        BY <4>1, <4>3, LedgerAssumption DEF Settled, ClaimEvent, Clock
    <3>2. QED
      BY <3>1, LedgerGrows DEF Told, Clock
  <2>3. ASSUME NEW scope \in Scopes, NEW as_of \in Clock
        PROVE  Belief(scope, as_of, k)' = Belief(scope, as_of, k)
    BY <2>1, <2>2 DEF Belief
  <2>4. QED
    BY <2>3, SettledTimes
<1>2. QED
  BY <1>1, LedgerInvariant, PTL DEF LedgerSpec, SettledBeliefsStay

\* The adjudications in force among some claims and events.
InForce(scope, as_of, known, told) ==
  {e \in told :
     /\ e.type = "adjudicated" /\ e.fact \in scope /\ e.event_at <= as_of
     /\ \E c \in known : c.fact = e.fact /\ c.effective_at <= as_of}

\* resolve() answers "adjudicated" when there is such an adjudication, whatever else
\* there is, and its winner is the claim of the latest one.
LEMMA AdjudicatedWhen ==
  ASSUME NEW scope, NEW as_of, NEW known, NEW told
  PROVE  /\ resolve(scope, as_of, known, told).how = "adjudicated" <=>
              InForce(scope, as_of, known, told) # {}
         /\ InForce(scope, as_of, known, told) # {} =>
              resolve(scope, as_of, known, told) =
                [how |-> "adjudicated", winner |-> Latest(InForce(scope, as_of, known, told)).fact]
<1> DEFINE candidates == {c \in known : c.fact \in scope /\ c.effective_at <= as_of}
           ended == {e \in told : e.event_at <= as_of /\ \E c \in candidates : c.fact = e.fact}
           open == {c \in candidates : \A e \in ended : e.fact # c.fact}
           adjudicated == Adjudicated(candidates, ended)
           top == {c \in open : c.fact \in Strong \/ \A d \in open : d.fact \notin Strong}
<1>1. resolve(scope, as_of, known, told) =
        CASE adjudicated # {} -> [how |-> "adjudicated", winner |-> Latest(adjudicated).fact]
          [] adjudicated = {} /\ open # {} ->
               [how |-> "resolved",
                winner |-> (CHOOSE c \in top : \A d \in top : d.effective_at <= c.effective_at).fact]
          [] adjudicated = {} /\ open = {} -> [how |-> "none", winner |-> NoFact]
  BY DEF resolve
<1>2. adjudicated = InForce(scope, as_of, known, told)
  BY DEF Adjudicated, InForce
<1> HIDE DEF adjudicated, open, top
<1> QED BY <1>1, <1>2

\* All that is committed is known by the end.
LEMMA AllIsKnown ==
  ASSUME LedgerInv
  PROVE  Known(MaxClock) = claims /\ Told(MaxClock) = events
BY LedgerAssumption DEF Known, Told, LedgerInv, LedgerTypeOK, Claim, ClaimEvent, Clock

\* An adjudication older than one in force does not become the latest.
LEMMA OlderIsNotLatest ==
  ASSUME NEW A, NEW e, NEW d \in A, ~(d.event_at <= e.event_at),
         \A y \in A \cup {e} : y.event_at \in Nat
  PROVE  Latest(A \cup {e}) = Latest(A)
<1> DEFINE P(x) == x \in A \cup {e} /\ \A y \in A \cup {e} : y.event_at <= x.event_at
           Q(x) == x \in A /\ \A y \in A : y.event_at <= x.event_at
<1>1. \A x : P(x) => Q(x)
  OBVIOUS
<1>2. \A x : Q(x) => P(x)
  <2> SUFFICES ASSUME NEW x, Q(x) PROVE e.event_at <= x.event_at
    OBVIOUS
  <2>1. /\ d.event_at <= x.event_at
        /\ d.event_at \in Nat /\ e.event_at \in Nat /\ x.event_at \in Nat
    OBVIOUS
  <2> HIDE DEF Q
  <2> QED BY <2>1
<1>3. Latest(A \cup {e}) = (CHOOSE x : P(x)) /\ Latest(A) = (CHOOSE x : Q(x))
  BY DEF Latest
<1> HIDE DEF P, Q
<1>4. (CHOOSE x : P(x)) = (CHOOSE x : Q(x))
  BY <1>1, <1>2
<1> QED BY <1>3, <1>4

\* A step brings at most one further adjudication to a scope, recorded in that
\* step, and takes none away.
LEMMA OneFurther ==
  ASSUME LedgerInv, [LedgerNext]_ledgerVars, NEW scope, NEW as_of
  PROVE  \/ Adjudications(scope, as_of)' = Adjudications(scope, as_of)
         \/ \E e \in Adjudications(scope, as_of)' \ events :
              Adjudications(scope, as_of)' = Adjudications(scope, as_of) \cup {e}
<1>1. CASE claims' = claims /\ events' = events
  BY <1>1 DEF Adjudications
<1>2. CASE \E w \in Clients : CommitClaim(w)
  <2>1. PICK w \in Clients : CommitClaim(w)
    BY <1>2
  <2>2. events' = events /\ claims \subseteq claims'
    BY <2>1 DEF CommitClaim
  <2>3. \A c \in claims', e \in events : c.fact = e.fact => c \in claims
    BY <2>1 DEF CommitClaim, Claimed, LedgerInv, LedgerIsWellFormed
  <2> QED BY <2>2, <2>3 DEF Adjudications
<1>3. CASE \E w \in Clients : CommitEvent(w)
  <2>1. PICK w \in Clients : CommitEvent(w)
    BY <1>3
  <2> DEFINE e == call[w].event
  <2>2. claims' = claims /\ events' = events \cup {e} /\ e \notin events
    BY <2>1 DEF CommitEvent
  <2> HIDE DEF e
  <2>3. CASE e \in Adjudications(scope, as_of)'
    <3>1. Adjudications(scope, as_of)' = Adjudications(scope, as_of) \cup {e}
      BY <2>2, <2>3 DEF Adjudications
    <3> QED BY <2>2, <2>3, <3>1
  <2>4. CASE e \notin Adjudications(scope, as_of)'
    BY <2>2, <2>4 DEF Adjudications
  <2> QED BY <2>3, <2>4
<1> QED
  BY <1>1, <1>2, <1>3
  DEF LedgerNext, ledgerVars, submit_claim, record_event, LockParent, Roll, LedgerTick

\* What a human has adjudicated changes only with a further adjudication that is no
\* older: later claims, rejections and supersessions change nothing.
THEOREM AdjudicationsStand == LedgerSpec => AdjudicationStands
<1> DEFINE Stands ==
      \A scope \in Scopes, as_of \in Clock :
        LET old == Belief(scope, as_of, MaxClock)
            new == Belief(scope, as_of, MaxClock)'
        IN old.how = "adjudicated" =>
             \/ new = old
             \/ /\ new.how = "adjudicated"
                /\ \E e \in Adjudications(scope, as_of)' \ events :
                     \A d \in Adjudications(scope, as_of) : d.event_at <= e.event_at
<1>1. LedgerInv /\ LedgerInv' /\ [LedgerNext]_ledgerVars => Stands
  <2> SUFFICES ASSUME LedgerInv, LedgerInv', [LedgerNext]_ledgerVars,
                      NEW scope \in Scopes, NEW as_of \in Clock,
                      Belief(scope, as_of, MaxClock).how = "adjudicated"
               PROVE  \/ Belief(scope, as_of, MaxClock)' = Belief(scope, as_of, MaxClock)
                      \/ /\ Belief(scope, as_of, MaxClock)'.how = "adjudicated"
                         /\ \E e \in Adjudications(scope, as_of)' \ events :
                              \A d \in Adjudications(scope, as_of) : d.event_at <= e.event_at
    OBVIOUS
  <2> DEFINE A == Adjudications(scope, as_of)
  <2>1. A # {} /\ Belief(scope, as_of, MaxClock) = [how |-> "adjudicated", winner |-> Latest(A).fact]
    <3>1. /\ Belief(scope, as_of, MaxClock) = resolve(scope, as_of, claims, events)
          /\ A = InForce(scope, as_of, claims, events)
      BY AllIsKnown DEF Belief, Adjudications, InForce
    <3> QED BY <3>1, AdjudicatedWhen
  <2>2. /\ Belief(scope, as_of, MaxClock)'.how = "adjudicated" <=> A' # {}
        /\ A' # {} => Belief(scope, as_of, MaxClock)' =
                        [how |-> "adjudicated", winner |-> Latest(A').fact]
    <3>1. (LedgerInv => Known(MaxClock) = claims /\ Told(MaxClock) = events)'
      BY AllIsKnown, PTL
    <3>2. /\ Belief(scope, as_of, MaxClock)' = resolve(scope, as_of, claims', events')
          /\ A' = InForce(scope, as_of, claims', events')
      BY <3>1 DEF Belief, Adjudications, InForce
    <3> QED BY <3>2, AdjudicatedWhen
  <2>3. CASE A' = A
    BY <2>1, <2>2, <2>3
  <2>4. CASE \E e \in A' \ events : A' = A \cup {e}
    <3>1. PICK e \in A' \ events : A' = A \cup {e}
      BY <2>4
    <3>2. CASE \A d \in A : d.event_at <= e.event_at
      BY <2>1, <2>2, <3>1, <3>2
    <3>3. CASE \E d \in A : ~(d.event_at <= e.event_at)
      <4>1. \A y \in A' : y.event_at \in Nat
        BY LedgerAssumption DEF Adjudications, LedgerInv, LedgerTypeOK, ClaimEvent, Clock
      <4>2. Latest(A \cup {e}) = Latest(A)
        <5> HIDE DEF A
        <5> QED BY <3>1, <3>3, <4>1, OlderIsNotLatest
      <4> QED BY <2>1, <2>2, <3>1, <4>2
    <3> QED BY <3>2, <3>3
  <2>5. A' = A \/ \E e \in A' \ events : A' = A \cup {e}
    BY OneFurther
  <2> QED BY <2>3, <2>4, <2>5
<1>2. QED
  BY <1>1, LedgerInvariant, PTL DEF LedgerSpec, AdjudicationStands

(***************************************************************************)
(*                             Google enrichment                             *)
(***************************************************************************)
Statuses == DOMAIN VALID_TRANSITIONS

\* Rows of some companies, and the statuses some were sent to.
RowsOfSome == UNION {[C -> Listing] : C \in SUBSET Listed}
StatusOfSome == UNION {[C -> Statuses] : C \in SUBSET Listed}

Refresh == [at : {"new", "marked", "picked", "looking", "done", "failed", "dead"},
            left : SUBSET Listed, seen : RowsOfSome, now : RowsOfSome, sent : StatusOfSome]

\* What a run that looks companies up holds of them.
BatchInHand(x) ==
  /\ DOMAIN x.seen = DOMAIN x.now
  /\ x.at \in {"new", "marked", "picked"} => DOMAIN x.sent = {}
  /\ x.at = "looking" => x.left \cup DOMAIN x.sent \subseteq DOMAIN x.now
  /\ x.at = "looking" => \A c \in DOMAIN x.sent :
       x.now[c].status # x.seen[c].status => x.now[c].status = x.sent[c]
  /\ x.at = "looking" => \A c \in DOMAIN x.now :
       /\ c \in x.left => c \notin DOMAIN x.sent
       /\ c \notin DOMAIN x.sent => x.now[c].place = x.seen[c].place
       /\ c \in DOMAIN x.sent /\ x.sent[c] # "enriched" => x.now[c].place = x.seen[c].place

\* A place other than the one a run has read was accepted since.
ReplacedByAccepted ==
  \A r \in Refreshes, c \in Listed :
    /\ refresh[r].at = "looking" /\ c \in DOMAIN refresh[r].seen
    /\ listing[c].place # refresh[r].seen[c].place
    => listing[c].place \in Accepted(c)

GoogleInv ==
  /\ listing \in [Listed -> Listing]
  /\ reviews \subseteq Listed
  /\ logs \subseteq Listed \X Refreshes
  /\ refresh \in [Refreshes -> Refresh]
  /\ \A r \in Refreshes : BatchInHand(refresh[r])
  /\ ReplacedByAccepted
  /\ EnrichedPlacesWereAccepted
  /\ ReviewIsQueued

\* The names of the statuses.
LEMMA StatusNames ==
  Statuses = {"pending", "review", "enriched", "stale", "error", "no_match"}
BY DEF Statuses, VALID_TRANSITIONS

\* What a company's row is made of.
LEMMA ListingTypes ==
  ASSUME NEW row \in Listing
  PROVE  /\ row.status \in Statuses /\ row.place \in Places \cup {NoPlace} /\ row.aged \in BOOLEAN
         /\ row = [status |-> row.status, place |-> row.place, aged |-> row.aged]
BY DEF Listing, Statuses

\* A lookup comes to one status.
LEMMA LookupHasStatus ==
  ASSUME NEW answer \in Answers, NEW reserved, NoPlace \notin reserved
  PROVE  evaluate_lookup(answer, reserved) \in Statuses
<1>1. /\ answer.grade \in {"accept", "unsure", "low", "none", "raises"}
      /\ answer.grade = "raises" => answer.place = NoPlace
  BY DEF Answers
<1> DEFINE found == evaluate_lookup(answer, reserved)
<1>2. CASE answer.grade = "raises"
  <2>1. found = "error"
    BY <1>1, <1>2 DEF evaluate_lookup
  <2> QED BY <2>1, StatusNames
<1>3. CASE answer.grade # "raises" /\ (answer.grade \in {"none", "low"} \/ answer.place \in reserved)
  <2>1. found = "no_match"
    BY <1>1, <1>3 DEF evaluate_lookup
  <2> QED BY <2>1, StatusNames
<1>4. CASE answer.grade = "accept" /\ answer.place \notin reserved
  <2>1. found = "enriched"
    BY <1>1, <1>4 DEF evaluate_lookup
  <2> QED BY <2>1, StatusNames
<1>5. CASE answer.grade = "unsure" /\ answer.place \notin reserved
  <2>1. found = "review"
    BY <1>1, <1>5 DEF evaluate_lookup
  <2> QED BY <2>1, StatusNames
<1> QED BY <1>1, <1>2, <1>3, <1>4, <1>5

\* What a row becomes in the session.
LEMMA WrittenTypes ==
  ASSUME NEW row \in Listing, NEW status \in Statuses, NEW place \in Places \cup {NoPlace}
  PROVE  Written(row, status, place) \in Listing /\ Written(row, status, place).status = status
<1>1. CASE status = "enriched"
  BY <1>1 DEF Written, Listing, Statuses
<1>2. CASE status # "enriched"
  <2> DEFINE aged == row.aged /\ status = "review"
  <2>1. aged \in BOOLEAN
    OBVIOUS
  <2>2. Written(row, status, place) = [row EXCEPT !.status = status, !.aged = aged]
    BY <1>2 DEF Written
  <2> HIDE DEF aged
  <2> QED BY <2>1, <2>2 DEF Listing, Statuses
<1> QED BY <1>1, <1>2

\* A run of its own is not disturbed by what the others do.
LEMMA OneRunMoves ==
  ASSUME GoogleInv, NEW r \in Refreshes, NEW x \in Refresh,
         refresh' = [refresh EXCEPT ![r] = x], BatchInHand(x)
  PROVE  refresh' \in [Refreshes -> Refresh] /\ \A q \in Refreshes : BatchInHand(refresh'[q])
BY DEF GoogleInv

\* What committed runs have accepted stays accepted.
LEMMA AcceptedGrows ==
  ASSUME GoogleInv, NEW r \in Refreshes, NEW x, refresh' = [refresh EXCEPT ![r] = x],
         refresh[r].at # "done", NEW c
  PROVE  Accepted(c) \subseteq Accepted(c)'
<1> SUFFICES ASSUME NEW q \in Refreshes, refresh[q].at = "done", c \in LookedUp(q),
                    refresh[q].sent[c] = "enriched"
             PROVE  refresh[q].now[c].place \in Accepted(c)'
  BY DEF Accepted
<1>1. refresh'[q] = refresh[q]
  BY DEF GoogleInv
<1> QED BY <1>1 DEF Accepted, LookedUp

\* A step that changes neither the companies nor their queue.
LEMMA OnlyTheRunMoves ==
  ASSUME GoogleInv, NEW r \in Refreshes, NEW x \in Refresh, refresh' = [refresh EXCEPT ![r] = x],
         BatchInHand(x), UNCHANGED <<listing, reviews, logs>>, refresh[r].at # "done",
         x.at = "looking" => \A c \in DOMAIN x.seen :
           \/ x.seen[c].place = listing[c].place
           \/ refresh[r].at = "looking" /\ c \in DOMAIN refresh[r].seen /\ x.seen[c] = refresh[r].seen[c]
  PROVE  GoogleInv'
<1>1. refresh' \in [Refreshes -> Refresh] /\ \A q \in Refreshes : BatchInHand(refresh'[q])
  BY OneRunMoves
<1>2. \A c \in Listed : Accepted(c) \subseteq Accepted(c)'
  BY AcceptedGrows
<1>3. EnrichedPlacesWereAccepted'
  BY <1>2 DEF GoogleInv, EnrichedPlacesWereAccepted
<1>4. ReplacedByAccepted'
  <2> SUFFICES ASSUME NEW q \in Refreshes, NEW c \in Listed, refresh'[q].at = "looking",
                      c \in DOMAIN refresh'[q].seen, listing[c].place # refresh'[q].seen[c].place
               PROVE  listing[c].place \in Accepted(c)'
    BY DEF ReplacedByAccepted
  <2>1. /\ refresh[q].at = "looking" /\ c \in DOMAIN refresh[q].seen
        /\ refresh'[q].seen[c] = refresh[q].seen[c]
    BY DEF GoogleInv
  <2> QED BY <1>2, <2>1 DEF GoogleInv, ReplacedByAccepted
<1> QED BY <1>1, <1>3, <1>4 DEF GoogleInv, ReviewIsQueued

\* A step that leaves every place alone and enriches nobody, of a run that
\* loads no row.
LEMMA PlacesUntouched ==
  ASSUME GoogleInv, \A c \in Listed : listing'[c].place = listing[c].place,
         \A c \in Listed : listing'[c].status = "enriched" => listing[c].status = "enriched",
         \A c \in Listed : Accepted(c) \subseteq Accepted(c)',
         \A q \in Refreshes : \/ refresh'[q] = refresh[q]
                              \/ refresh'[q].at # "looking"
  PROVE  ReplacedByAccepted' /\ EnrichedPlacesWereAccepted'
<1>1. EnrichedPlacesWereAccepted'
  BY DEF GoogleInv, EnrichedPlacesWereAccepted
<1>2. ReplacedByAccepted'
  <2> SUFFICES ASSUME NEW q \in Refreshes, NEW c \in Listed, refresh'[q].at = "looking",
                      c \in DOMAIN refresh'[q].seen, listing'[c].place # refresh'[q].seen[c].place
               PROVE  listing'[c].place \in Accepted(c)'
    BY DEF ReplacedByAccepted
  <2> QED BY DEF GoogleInv, ReplacedByAccepted
<1> QED BY <1>1, <1>2

\* Companies grow stale.
LEMMA MarkStaleKeeps ==
  ASSUME GoogleInv, NEW r \in Refreshes, mark_stale_companies(r)
  PROVE  GoogleInv'
<1> DEFINE x == [refresh[r] EXCEPT !.at = "marked"]
<1>1. /\ refresh[r] \in Refresh /\ BatchInHand(refresh[r]) /\ refresh[r].at = "new"
      /\ refresh' = [refresh EXCEPT ![r] = x]
  BY DEF GoogleInv, mark_stale_companies
<1>2. x \in Refresh /\ BatchInHand(x)
  BY <1>1 DEF Refresh, BatchInHand
<1>3. refresh' \in [Refreshes -> Refresh] /\ \A q \in Refreshes : BatchInHand(refresh'[q])
  BY <1>1, <1>2, OneRunMoves
<1>4. \A c \in Listed : /\ listing'[c] \in Listing /\ listing'[c].place = listing[c].place
                        /\ listing'[c].status = "review" => listing[c].status = "review"
                        /\ listing'[c].status = "enriched" => listing[c].status = "enriched"
  <2> SUFFICES ASSUME NEW c \in Listed
               PROVE  /\ listing'[c] \in Listing /\ listing'[c].place = listing[c].place
                      /\ listing'[c].status = "review" => listing[c].status = "review"
                      /\ listing'[c].status = "enriched" => listing[c].status = "enriched"
    OBVIOUS
  <2>1. listing[c] \in Listing
    BY DEF GoogleInv
  <2>2. CASE listing'[c] = listing[c]
    BY <2>1, <2>2
  <2>3. CASE listing'[c] = [listing[c] EXCEPT !.status = "stale"]
    BY <2>1, <2>3, StatusNames DEF Listing, Statuses
  <2> QED BY <2>2, <2>3 DEF mark_stale_companies
<1>5. listing' \in [Listed -> Listing]
  BY <1>4 DEF mark_stale_companies
<1>6. \A c \in Listed : Accepted(c) \subseteq Accepted(c)'
  BY <1>1, AcceptedGrows
<1>7. x.at = "marked"
  BY <1>1 DEF Refresh
<1>8. ReplacedByAccepted' /\ EnrichedPlacesWereAccepted'
  <2>1. \A q \in Refreshes : refresh'[q] = refresh[q] \/ refresh'[q].at # "looking"
    BY <1>1, <1>7 DEF GoogleInv
  <2> QED BY <1>4, <1>6, <2>1, PlacesUntouched
<1> QED BY <1>3, <1>4, <1>5, <1>8 DEF mark_stale_companies, GoogleInv, ReviewIsQueued

\* A batch is chosen, of listed companies.
LEMMA BatchFetchKeeps ==
  ASSUME GoogleInv, NEW r \in Refreshes, fetch_eligible_companies(r)
  PROVE  GoogleInv'
<1>1. PICK B \in Batches :
        refresh' = [refresh EXCEPT ![r].at = IF B = {} THEN "done" ELSE "picked", ![r].left = B]
  BY DEF fetch_eligible_companies
<1> DEFINE x == [refresh[r] EXCEPT !.at = IF B = {} THEN "done" ELSE "picked", !.left = B]
<1>2. B \subseteq Listed
  BY DEF Batches, Eligible
<1>3. /\ refresh[r] \in Refresh /\ BatchInHand(refresh[r]) /\ refresh[r].at = "marked"
      /\ refresh' = [refresh EXCEPT ![r] = x]
  BY <1>1 DEF GoogleInv, fetch_eligible_companies
<1>4. x \in Refresh /\ BatchInHand(x) /\ x.at # "looking"
  BY <1>2, <1>3 DEF Refresh, BatchInHand
<1> QED BY <1>3, <1>4, OnlyTheRunMoves DEF fetch_eligible_companies

\* The rows of the batch are loaded.
LEMMA LoadKeeps ==
  ASSUME GoogleInv, NEW r \in Refreshes, LoadRows(r)
  PROVE  GoogleInv'
<1> DEFINE rows == [c \in refresh[r].left |-> listing[c]]
           x == [refresh[r] EXCEPT !.at = "looking", !.seen = rows, !.now = rows]
<1>1. /\ refresh[r] \in Refresh /\ BatchInHand(refresh[r]) /\ refresh[r].at = "picked"
      /\ refresh' = [refresh EXCEPT ![r] = x]
  BY DEF GoogleInv, LoadRows
<1>2. rows \in RowsOfSome /\ DOMAIN rows = refresh[r].left
  BY <1>1 DEF RowsOfSome, Refresh, GoogleInv
<1>3. x \in Refresh /\ BatchInHand(x) /\ x.seen = rows
  BY <1>1, <1>2 DEF Refresh, BatchInHand
<1> QED BY <1>1, <1>3, OnlyTheRunMoves DEF LoadRows

\* A company is looked up; its row is written in the session.
LEMMA ProcessKeeps ==
  ASSUME GoogleInv, NEW r \in Refreshes, NEW c \in Listed, NEW answer \in Answers,
         _process_company(r, c, answer)
  PROVE  GoogleInv'
<1> DEFINE old == refresh[r]
           status == evaluate_lookup(answer, fetch_reserved_place_ids(c))
           row == old.now[c]
           sets == can_set(row.status, status)
           new == IF sets THEN Written(row, status, answer.place) ELSE row
           sent == [d \in DOMAIN old.sent \cup {c} |-> IF d = c THEN status ELSE old.sent[d]]
           x == [old EXCEPT !.at = IF sets THEN @ ELSE "failed", !.left = @ \ {c},
                            !.now = [@ EXCEPT ![c] = new], !.sent = sent]
<1>1. old \in Refresh /\ BatchInHand(old) /\ old.at = "looking" /\ c \in old.left
  BY DEF GoogleInv, _process_company
<1>2. status \in Statuses /\ answer.place \in Places \cup {NoPlace}
  BY LookupHasStatus DEF fetch_reserved_place_ids, Answers
<1>3. PICK C \in SUBSET Listed : old.now \in [C -> Listing] /\ c \in C /\ DOMAIN old.sent \subseteq C
  BY <1>1 DEF Refresh, RowsOfSome, BatchInHand
<1>4. PICK S \in SUBSET Listed : old.sent \in [S -> Statuses]
  BY <1>1 DEF Refresh, StatusOfSome
<1>5. refresh' = [refresh EXCEPT ![r] = x]
  BY <1>1 DEF _process_company, GoogleInv
<1> HIDE DEF status
<1>6. /\ new \in Listing /\ (sets => new.status = status)
      /\ status # "enriched" => new.place = row.place
  <2>1. row \in Listing
    BY <1>3
  <2>2. status # "enriched" /\ sets => new.place = row.place
    BY <2>1 DEF Written, Listing
  <2> QED BY <1>2, <2>1, <2>2, WrittenTypes
<1>7. /\ x.at = IF sets THEN "looking" ELSE "failed"
      /\ x.left = old.left \ {c} /\ x.seen = old.seen
      /\ x.now = [old.now EXCEPT ![c] = new] /\ x.sent = sent
  <2> HIDE DEF new, sets, sent
  <2> QED BY <1>1 DEF Refresh
<1> HIDE DEF new, sets, sent
<1>8. x \in Refresh
  <2>1. [old.now EXCEPT ![c] = new] \in [C -> Listing]
    BY <1>3, <1>6
  <2>2. sent \in [S \cup {c} -> Statuses]
    BY <1>2, <1>4 DEF sent
  <2>3. [old.now EXCEPT ![c] = new] \in RowsOfSome /\ sent \in StatusOfSome
    BY <2>1, <2>2 DEF RowsOfSome, StatusOfSome
  <2> QED BY <1>1, <1>7, <2>3 DEF Refresh
<1>9. BatchInHand(x)
  <2>1. DOMAIN x.now = C /\ DOMAIN x.seen = C /\ DOMAIN x.sent = S \cup {c} /\ DOMAIN old.sent = S
    BY <1>1, <1>3, <1>4, <1>7 DEF BatchInHand, sent
  <2>2. ASSUME x.at = "looking", NEW d \in DOMAIN x.sent, x.now[d].status # x.seen[d].status
        PROVE  x.now[d].status = x.sent[d]
    <3>1. CASE d = c
      <4>1. sets
        BY <1>7, <2>2
      <4> QED BY <1>3, <1>6, <1>7, <3>1, <4>1 DEF sent
    <3>2. CASE d # c
      BY <1>1, <1>3, <1>7, <2>1, <2>2, <3>2 DEF BatchInHand, sent
    <3> QED BY <3>1, <3>2
  <2>3. ASSUME x.at = "looking", NEW d \in DOMAIN x.now
        PROVE  /\ d \in x.left => d \notin DOMAIN x.sent
               /\ d \notin DOMAIN x.sent => x.now[d].place = x.seen[d].place
               /\ d \in DOMAIN x.sent /\ x.sent[d] # "enriched" => x.now[d].place = x.seen[d].place
    <3>0. /\ d \in C
          /\ d \in old.left => d \notin S
          /\ d \notin S => old.now[d].place = old.seen[d].place
          /\ d \in S /\ old.sent[d] # "enriched" => old.now[d].place = old.seen[d].place
      BY <1>1, <1>3, <2>1, <2>3 DEF BatchInHand
    <3>1. CASE d = c
      BY <1>1, <1>3, <1>6, <1>7, <2>1, <3>0, <3>1 DEF sent
    <3>2. CASE d # c
      <4>1. x.now[d] = old.now[d] /\ (d \in S => x.sent[d] = old.sent[d])
        BY <1>3, <1>7, <2>1, <3>0, <3>2 DEF sent
      <4> QED BY <1>7, <2>1, <3>0, <3>2, <4>1
    <3> QED BY <3>1, <3>2
  <2> QED BY <1>1, <1>3, <1>7, <2>1, <2>2, <2>3 DEF BatchInHand
<1>10. \A d \in DOMAIN x.seen : x.seen[d] = refresh[r].seen[d]
  BY <1>7
<1> HIDE DEF x
<1> QED BY <1>1, <1>5, <1>7, <1>8, <1>9, <1>10, OnlyTheRunMoves DEF _process_company

\* What the flush of a batch makes of a company.
LEMMA FlushedTypes ==
  ASSUME GoogleInv, NEW r \in Refreshes, refresh[r].at = "looking"
  PROVE  /\ LookedUp(r) \subseteq Listed
         /\ Flushed(r) \in [Listed -> Listing]
         /\ \A c \in Listed : Flushed(r)[c].status = "review" =>
              listing[c].status = "review" \/ (c \in LookedUp(r) /\ refresh[r].sent[c] = "review")
         /\ \A c \in Listed : Flushed(r)[c].place # listing[c].place =>
              /\ c \in LookedUp(r) /\ refresh[r].sent[c] = "enriched"
              /\ Flushed(r)[c].place = refresh[r].now[c].place
         /\ \A c \in Listed : Flushed(r)[c].status = "enriched" =>
              \/ listing[c].status = "enriched"
              \/ /\ c \in LookedUp(r) /\ refresh[r].sent[c] = "enriched"
                 /\ \/ Flushed(r)[c].place = refresh[r].now[c].place
                    \/ refresh[r].now[c].place = refresh[r].seen[c].place
<1> DEFINE x == refresh[r]
<1>1. x \in Refresh /\ BatchInHand(x) /\ listing \in [Listed -> Listing]
  BY DEF GoogleInv
<1>2. PICK C \in SUBSET Listed : x.now \in [C -> Listing]
  BY <1>1 DEF Refresh, RowsOfSome
<1>3. /\ x.seen \in [C -> Listing] /\ LookedUp(r) \subseteq C
      /\ \A c \in LookedUp(r) : x.now[c].status # x.seen[c].status => x.now[c].status = x.sent[c]
      /\ \A c \in LookedUp(r) : x.sent[c] # "enriched" => x.now[c].place = x.seen[c].place
  BY <1>1, <1>2 DEF Refresh, RowsOfSome, BatchInHand, LookedUp
<1>4. ASSUME NEW c \in Listed
      PROVE  /\ Flushed(r)[c] \in Listing
             /\ Flushed(r)[c].status = "review" =>
                  listing[c].status = "review" \/ (c \in LookedUp(r) /\ x.sent[c] = "review")
             /\ Flushed(r)[c].place # listing[c].place =>
                  /\ c \in LookedUp(r) /\ x.sent[c] = "enriched"
                  /\ Flushed(r)[c].place = x.now[c].place
             /\ Flushed(r)[c].status = "enriched" =>
                  \/ listing[c].status = "enriched"
                  \/ /\ c \in LookedUp(r) /\ x.sent[c] = "enriched"
                     /\ \/ Flushed(r)[c].place = x.now[c].place
                        \/ x.now[c].place = x.seen[c].place
  <2>1. listing[c] \in Listing
    BY <1>1
  <2>2. CASE c \notin LookedUp(r)
    BY <2>1, <2>2 DEF Flushed
  <2>3. CASE c \in LookedUp(r)
    <3> DEFINE seen == x.seen[c]
               now == x.now[c]
               status == IF now.status # seen.status THEN now.status ELSE listing[c].status
               place == IF now.place # seen.place THEN now.place ELSE listing[c].place
               aged == listing[c].aged /\ x.sent[c] = "review"
    <3>1. now \in Listing /\ seen \in Listing
      BY <1>2, <1>3, <2>3
    <3>2. Flushed(r)[c] = [status |-> status, place |-> place, aged |-> aged]
      BY <2>3 DEF Flushed
    <3>3. status \in Statuses /\ place \in Places \cup {NoPlace} /\ aged \in BOOLEAN
      <4> HIDE DEF seen, now
      <4> QED BY <2>1, <3>1, ListingTypes
    <3>4. status = "review" => listing[c].status = "review" \/ x.sent[c] = "review"
      BY <1>3, <2>3
    <3>5. place # listing[c].place => x.sent[c] = "enriched" /\ place = now.place
      BY <1>3, <2>3
    <3>6. status = "enriched" =>
            \/ listing[c].status = "enriched"
            \/ x.sent[c] = "enriched" /\ (place = now.place \/ now.place = seen.place)
      BY <1>3, <2>3
    <3> HIDE DEF status, place, aged
    <3> QED BY <2>3, <3>2, <3>3, <3>4, <3>5, <3>6 DEF Listing, Statuses
  <2> QED BY <2>2, <2>3
<1>5. Flushed(r) \in [Listed -> Listing]
  <2>1. \E f : Flushed(r) = [c \in Listed |-> f[c]]
    <3>1. Flushed(r) = [c \in Listed |-> Flushed(r)[c]]
      BY DEF Flushed
    <3> QED BY <3>1
  <2> QED BY <2>1, <1>4
<1> QED BY <1>1, <1>2, <1>3, <1>4, <1>5

\* The batch is committed.
LEMMA BatchCommitKeeps ==
  ASSUME GoogleInv, NEW r \in Refreshes, CommitBatch(r)
  PROVE  GoogleInv'
<1> DEFINE x == [refresh[r] EXCEPT !.at = "done"]
<1>1. /\ refresh[r] \in Refresh /\ BatchInHand(refresh[r]) /\ refresh[r].at = "looking"
      /\ refresh' = [refresh EXCEPT ![r] = x] /\ listing' = Flushed(r)
  BY DEF GoogleInv, CommitBatch
<1>2. /\ x \in Refresh /\ BatchInHand(x)
      /\ x.at = "done" /\ x.sent = refresh[r].sent /\ x.now = refresh[r].now
  BY <1>1 DEF Refresh, BatchInHand
<1>3. refresh' \in [Refreshes -> Refresh] /\ \A q \in Refreshes : BatchInHand(refresh'[q])
  BY <1>1, <1>2, OneRunMoves
<1>4. /\ LookedUp(r) \subseteq Listed
      /\ Flushed(r) \in [Listed -> Listing]
      /\ \A c \in Listed : Flushed(r)[c].status = "review" =>
           listing[c].status = "review" \/ (c \in LookedUp(r) /\ refresh[r].sent[c] = "review")
  BY <1>1, FlushedTypes
<1>5. /\ \A c \in Listed : Accepted(c) \subseteq Accepted(c)'
      /\ \A c \in LookedUp(r) : refresh[r].sent[c] = "enriched" =>
           refresh[r].now[c].place \in Accepted(c)'
  <2>1. \A c \in Listed : Accepted(c) \subseteq Accepted(c)'
    BY <1>1, AcceptedGrows
  <2>2. refresh'[r] = x
    BY <1>1 DEF GoogleInv
  <2>3. \A c \in LookedUp(r) : refresh[r].sent[c] = "enriched" =>
          refresh[r].now[c].place \in Accepted(c)'
    BY <1>2, <2>2 DEF Accepted, LookedUp
  <2> QED BY <2>1, <2>3
<1>6. \A c \in Listed : listing'[c].place # listing[c].place => listing'[c].place \in Accepted(c)'
  BY <1>1, <1>5, FlushedTypes
<1>7. EnrichedPlacesWereAccepted'
  <2> SUFFICES ASSUME NEW c \in Listed, listing'[c].status = "enriched",
                      listing'[c].place = listing[c].place
               PROVE  listing'[c].place \in Accepted(c)'
    BY <1>6 DEF EnrichedPlacesWereAccepted
  <2>1. CASE listing[c].status = "enriched"
    BY <1>5, <2>1 DEF GoogleInv, EnrichedPlacesWereAccepted
  <2>2. CASE c \in LookedUp(r) /\ refresh[r].sent[c] = "enriched"
             /\ listing'[c].place = refresh[r].now[c].place
    BY <1>5, <2>2
  <2>3. CASE c \in LookedUp(r) /\ refresh[r].sent[c] = "enriched"
             /\ refresh[r].now[c].place = refresh[r].seen[c].place
    <3>1. CASE listing[c].place = refresh[r].seen[c].place
      BY <1>5, <2>3, <3>1
    <3>2. CASE listing[c].place # refresh[r].seen[c].place
      <4>1. c \in DOMAIN refresh[r].seen
        BY <1>1, <2>3 DEF BatchInHand, LookedUp
      <4> QED BY <1>1, <1>5, <3>2, <4>1 DEF GoogleInv, ReplacedByAccepted
    <3> QED BY <3>1, <3>2
  <2>4. \/ listing[c].status = "enriched"
        \/ /\ c \in LookedUp(r) /\ refresh[r].sent[c] = "enriched"
           /\ \/ listing'[c].place = refresh[r].now[c].place
              \/ refresh[r].now[c].place = refresh[r].seen[c].place
    BY <1>1, FlushedTypes
  <2> QED BY <2>1, <2>2, <2>3, <2>4
<1>8. ReplacedByAccepted'
  <2> SUFFICES ASSUME NEW q \in Refreshes, NEW c \in Listed, refresh'[q].at = "looking",
                      c \in DOMAIN refresh'[q].seen, listing'[c].place # refresh'[q].seen[c].place,
                      listing'[c].place = listing[c].place
               PROVE  listing'[c].place \in Accepted(c)'
    BY <1>6 DEF ReplacedByAccepted
  <2>1. refresh'[q] = refresh[q]
    BY <1>1, <1>2 DEF GoogleInv
  <2> QED BY <1>5, <2>1 DEF GoogleInv, ReplacedByAccepted
<1>9. ReviewIsQueued'
  BY <1>1, <1>4 DEF CommitBatch, ReviewIsQueued, persist_review_row, GoogleInv
<1>10. reviews' \subseteq Listed /\ logs' \subseteq Listed \X Refreshes
  BY <1>4 DEF CommitBatch, persist_review_row, GoogleInv
<1> QED BY <1>1, <1>3, <1>4, <1>7, <1>8, <1>9, <1>10 DEF GoogleInv

\* A commit that fails and a process that dies leave the tables alone.
LEMMA FailureKeeps ==
  ASSUME GoogleInv, NEW r \in Refreshes, CommitFails(r) \/ RefreshDies(r)
  PROVE  GoogleInv'
<1> DEFINE x == [refresh[r] EXCEPT !.at = IF CommitFails(r) THEN "failed" ELSE "dead"]
<1>1. refresh[r] \in Refresh /\ BatchInHand(refresh[r])
  BY DEF GoogleInv
<1>2. \A at \in {"failed", "dead"} :
        /\ [refresh[r] EXCEPT !.at = at] \in Refresh /\ BatchInHand([refresh[r] EXCEPT !.at = at])
        /\ [refresh[r] EXCEPT !.at = at].at = at
  BY <1>1 DEF Refresh, BatchInHand
<1>3. CASE CommitFails(r)
  BY <1>2, <1>3, OnlyTheRunMoves DEF CommitFails, GoogleInv
<1>4. CASE RefreshDies(r)
  BY <1>2, <1>4, OnlyTheRunMoves DEF RefreshDies, GoogleInv
<1> QED BY <1>3, <1>4

\* Days pass.
LEMMA GrowsOldKeeps ==
  ASSUME GoogleInv, NEW c \in Listed, GrowsOld(c)
  PROVE  GoogleInv'
<1>1. \A d \in Listed : /\ listing'[d] \in Listing /\ listing'[d].place = listing[d].place
                        /\ listing'[d].status = listing[d].status
  BY DEF GoogleInv, GrowsOld, Listing
<1>2. listing' \in [Listed -> Listing]
  BY <1>1 DEF GrowsOld, GoogleInv
<1>3. ReplacedByAccepted' /\ EnrichedPlacesWereAccepted'
  BY <1>1, PlacesUntouched DEF GrowsOld, Accepted, LookedUp
<1> QED BY <1>1, <1>2, <1>3 DEF GrowsOld, GoogleInv, ReviewIsQueued

\* One step of any run, or of time.
LEMMA GoogleInvStep ==
  ASSUME GoogleInv, [GoogleNext]_googleVars
  PROVE  GoogleInv'
<1>1. CASE UNCHANGED googleVars
  BY <1>1 DEF googleVars, GoogleInv, ReplacedByAccepted, EnrichedPlacesWereAccepted, Accepted, LookedUp,
              BatchInHand, ReviewIsQueued
<1> QED BY <1>1, MarkStaleKeeps, BatchFetchKeeps, LoadKeeps, ProcessKeeps, BatchCommitKeeps, FailureKeeps,
           GrowsOldKeeps DEF GoogleNext

GoogleSpec == GoogleInit /\ [][GoogleNext]_googleVars

\* The inductive invariant.
THEOREM GoogleInvariant == GoogleSpec => []GoogleInv
<1>1. GoogleInit => GoogleInv
  <2> SUFFICES ASSUME GoogleInit PROVE GoogleInv
    OBVIOUS
  <2>1. listing \in [Listed -> Listing]
    <3>1. Standings \subseteq Listing
      BY StatusNames DEF Standings, Listing, Statuses
    <3> QED BY <3>1 DEF GoogleInit
  <2>2. NoRows \in RowsOfSome /\ NoRows \in StatusOfSome /\ DOMAIN NoRows = {}
    <3>1. NoRows \in [{} -> Listing] /\ NoRows \in [{} -> Statuses]
      BY DEF NoRows
    <3> QED BY <3>1 DEF RowsOfSome, StatusOfSome
  <2>3. NewRefresh \in Refresh /\ BatchInHand(NewRefresh)
    BY <2>2 DEF NewRefresh, Refresh, BatchInHand
  <2>4. ReplacedByAccepted /\ EnrichedPlacesWereAccepted
    BY DEF GoogleInit, NewRefresh, Standings, ReplacedByAccepted, EnrichedPlacesWereAccepted
  <2> QED BY <2>1, <2>3, <2>4, StatusNames DEF GoogleInit, GoogleInv, ReviewIsQueued, Standings
<1>2. GoogleInv /\ [GoogleNext]_googleVars => GoogleInv'
  BY GoogleInvStep
<1>3. QED
  BY <1>1, <1>2, PTL DEF GoogleSpec

\* An enriched company has a place that a run accepted for it.
THEOREM PlacesWereAccepted == GoogleSpec => []EnrichedPlacesWereAccepted
<1>1. GoogleInv => EnrichedPlacesWereAccepted
  BY DEF GoogleInv
<1>2. QED
  BY <1>1, GoogleInvariant, PTL

\* Whoever is in review is in the queue.
THEOREM ReviewsQueued == GoogleSpec => []ReviewIsQueued
<1>1. GoogleInv => ReviewIsQueued
  BY DEF GoogleInv
<1>2. QED
  BY <1>1, GoogleInvariant, PTL

\* The invariant gives the type invariant.
THEOREM GoogleTypes == GoogleSpec => []GoogleTypeOK
<1>1. GoogleInv => GoogleTypeOK
  <2> SUFFICES ASSUME GoogleInv, NEW r \in Refreshes
               PROVE  /\ refresh[r].at \in {"new", "marked", "picked", "looking", "done",
                                            "failed", "dead"}
                      /\ refresh[r].left \cup LookedUp(r) \subseteq Listed
                      /\ \A c \in DOMAIN refresh[r].now : refresh[r].now[c] \in Listing
    BY DEF GoogleInv, GoogleTypeOK
  <2>1. refresh[r] \in Refresh
    BY DEF GoogleInv
  <2>2. PICK C \in SUBSET Listed : refresh[r].now \in [C -> Listing]
    BY <2>1 DEF Refresh, RowsOfSome
  <2>3. PICK D \in SUBSET Listed : refresh[r].sent \in [D -> Statuses]
    BY <2>1 DEF Refresh, StatusOfSome
  <2> QED
    BY <2>1, <2>2, <2>3 DEF Refresh, LookedUp
<1>2. QED
  BY <1>1, GoogleInvariant, PTL

(***************************************************************************)
(*                         Merges and their rollback                         *)
(***************************************************************************)
\* The columns of the tables.
CompanyTable == [Firms -> Firm \cup {NoOne}]
ReferenceColumn == [Rows -> Firms \cup {NoOne}]
Alias == [alias : Firms, canonical : Firms, merge : Nat \ {0}]

\* What the snapshots of the r-th merge leave out it has left alone but for the
\* aggregates, and what they hold was there, but the row it has inserted, for which
\* no aggregates were computed.
SnapshotsCover(r, m) ==
  /\ m.inserted \subseteq {NamedRow}
  /\ \A f \in m.inserted : m.before.company[f] = NoOne
  /\ \A f \in m.firms : m.before.company[f] # NoOne /\ m.after.company[f] # NoOne
  /\ \A f \in Firms \ (m.firms \cup m.inserted) : m.after.company[f] = m.before.company[f]
  /\ \A row \in Rows \ m.rows : m.after.ref[row] = m.before.ref[row]
  /\ {x \in m.after.aliases : x.merge # r} = m.before.aliases
  /\ m.before.company[NamedRow] = NoOne => m.after.counted = {}

\* Every column holds what it may, and the runs on record are runs.
TablesTyped ==
  /\ applicant \in [Permits -> {"group", "alike", "bridged"}]
  /\ company \in CompanyTable /\ ref \in ReferenceColumn /\ aliases \subseteq Alias
  /\ counted \subseteq Permits
  /\ merges \in Seq(Merge) /\ Len(merges) <= MaxMerges

\* The tables are typed, only the named row may be missing, and then has no
\* aggregates, every alias is of a run on
\* record, and the snapshots of every run cover what it changed.
MergeInv ==
  /\ TablesTyped
  /\ \A f \in Firms \ {NamedRow} : company[f] # NoOne
  /\ company[NamedRow] = NoOne => counted = {}
  /\ \A x \in aliases : x.merge \in 1..Len(merges)
  /\ \A r \in 1..Len(merges) : SnapshotsCover(r, merges[r])

\* The tables a merge finds are tables.
LEMMA NowIsTables == TablesTyped => Now \in Tables
  BY DEF TablesTyped, Now, Tables, CompanyTable, ReferenceColumn, Alias

\* A merge that touches only what it takes snapshots of keeps the invariant.
LEMMA AppliedKeeps ==
  ASSUME MergeInv, NEW firms \in CompanyTable, NEW refs \in ReferenceColumn,
         NEW from \in SUBSET Firms, NEW to \in Firms, NEW touched \in SUBSET Firms,
         NEW rows \in SUBSET Rows, NEW inserted \in SUBSET {NamedRow}, NEW count \in SUBSET Permits,
         Applied(firms, refs, from, to, touched, rows, inserted, count),
         company[NamedRow] = NoOne => count = {},
         firms[NamedRow] = NoOne => company[NamedRow] = NoOne,
         inserted \cap Exists = {},
         \A f \in Firms \ {NamedRow} : firms[f] # NoOne,
         \A f \in touched \cap Exists : firms[f] # NoOne,
         \A f \in Firms \ ((touched \cap Exists) \cup inserted) : firms[f] = company[f],
         \A row \in Rows \ rows : refs[row] = ref[row]
  PROVE  MergeInv'
<1> DEFINE after == [company |-> firms, ref |-> refs, aliases |-> aliases', counted |-> count]
           m == [status |-> "applied", firms |-> touched \cap Exists, rows |-> rows,
                 inserted |-> inserted, before |-> Now, after |-> after]
           new == {[alias |-> f, canonical |-> to, merge |-> Len(merges) + 1] : f \in from}
<1>1. /\ Len(merges) < MaxMerges /\ company' = firms /\ ref' = refs /\ counted' = count
      /\ applicant' = applicant /\ aliases' = aliases \cup new
      /\ merges' = Append(merges, m)
  BY DEF Applied
<1>2. /\ Len(merges) \in Nat /\ MaxMerges \in Nat /\ merges \in Seq(Merge)
      /\ aliases \subseteq Alias
  BY MergeAssumption DEF MergeInv, TablesTyped
<1>3. new \subseteq Alias
  BY <1>2 DEF Alias
<1>4. Now \in Tables /\ after \in Tables
  <2>1. Now \in Tables
    BY NowIsTables DEF MergeInv
  <2>2. aliases' \subseteq Alias
    BY <1>1, <1>2, <1>3
  <2> QED
    BY <2>1, <2>2 DEF Tables, CompanyTable, ReferenceColumn, Alias
<1>5. m \in Merge
  <2> HIDE DEF after
  <2>1. inserted \subseteq Firms
    BY MergeAssumption
  <2>2. touched \cap Exists \in SUBSET Firms
    OBVIOUS
  <2> QED
    BY <1>4, <2>1, <2>2 DEF Merge
<1>6. SnapshotsCover(Len(merges) + 1, m)
  <2>1. /\ m.inserted = inserted /\ m.firms = touched \cap Exists /\ m.rows = rows
        /\ m.before.company = company /\ m.before.ref = ref /\ m.before.aliases = aliases
        /\ m.after.company = firms /\ m.after.ref = refs /\ m.after.aliases = aliases'
        /\ m.after.counted = count
    BY DEF Now
  <2>2. {x \in aliases' : x.merge # Len(merges) + 1} = aliases
    <3>1. \A x \in aliases : x.merge # Len(merges) + 1
      BY <1>2 DEF MergeInv
    <3>2. \A x \in new : x.merge = Len(merges) + 1
      OBVIOUS
    <3> HIDE DEF new
    <3> QED
      BY <1>1, <3>1, <3>2
  <2>3. \A f \in inserted : company[f] = NoOne
    BY MergeAssumption DEF Exists
  <2>4. \A f \in touched \cap Exists : company[f] # NoOne
    BY DEF Exists
  <2> HIDE DEF m
  <2> QED
    BY <2>1, <2>2, <2>3, <2>4 DEF SnapshotsCover
<1> HIDE DEF m, after
<1>7. /\ merges' \in Seq(Merge) /\ Len(merges') = Len(merges) + 1
      /\ merges'[Len(merges) + 1] = m
      /\ \A i \in 1..Len(merges) : merges'[i] = merges[i]
  BY <1>1, <1>2, <1>5
<1>8. \A x \in aliases' : x.merge \in 1..Len(merges')
  <2>1. \A x \in aliases : x.merge \in 1..Len(merges)
    BY DEF MergeInv
  <2>2. \A x \in new : x.merge = Len(merges) + 1
    OBVIOUS
  <2> HIDE DEF new
  <2> QED
    BY <1>1, <1>2, <1>7, <2>1, <2>2
<1>9. \A i \in 1..Len(merges') : SnapshotsCover(i, merges'[i])
  <2>1. \A i \in 1..Len(merges) : SnapshotsCover(i, merges[i])
    BY DEF MergeInv
  <2>2. \A i \in 1..Len(merges') : i \in 1..Len(merges) \/ i = Len(merges) + 1
    BY <1>2, <1>7
  <2> QED
    BY <1>6, <1>7, <2>1, <2>2
<1>10. TablesTyped'
  <2>1. aliases' \subseteq Alias
    BY <1>1, <1>2, <1>3
  <2>2. applicant' \in [Permits -> {"group", "alike", "bridged"}]
    BY <1>1 DEF MergeInv, TablesTyped
  <2>3. Len(merges') <= MaxMerges
    BY <1>1, <1>2, <1>7
  <2> QED
    BY <1>1, <1>7, <2>1, <2>2, <2>3 DEF TablesTyped
<1>11. /\ \A f \in Firms \ {NamedRow} : company'[f] # NoOne
       /\ company'[NamedRow] = NoOne => counted' = {}
  BY <1>1
<1>12. (\A r \in 1..Len(merges) : SnapshotsCover(r, merges[r]))'
  BY <1>9 DEF SnapshotsCover
<1> QED
  BY <1>8, <1>10, <1>11, <1>12 DEF MergeInv

\* The remap yields references, and changes none of those it does not take.
LEMMA RemapTypes ==
  ASSUME TablesTyped, NEW from \in SUBSET Firms, NEW to \in Firms,
         NEW refs \in remap_company_foreign_keys(from, to)
  PROVE  /\ refs \in ReferenceColumn
         /\ \A row \in Rows \ Referring(from, ref) : refs[row] = ref[row]
<1>1. PICK moved \in SUBSET BidOutcomes :
        refs = [row \in Rows |-> IF ref[row] \in from /\ row \in Permits \cup Awards \cup moved
                                 THEN to ELSE ref[row]]
  BY DEF remap_company_foreign_keys
<1> QED
  BY <1>1 DEF TablesTyped, ReferenceColumn, Referring

\* What the remap leaves at a row it takes the references from is an outcome, and
\* the row it takes them to has an outcome then.
LEMMA RemapTakesAlong ==
  ASSUME TablesTyped, NEW from \in SUBSET Firms, NEW to \in Firms \ from,
         NEW refs \in remap_company_foreign_keys(from, to),
         NEW row \in Rows, refs[row] \in from
  PROVE  row \in BidOutcomes /\ \E o \in BidOutcomes : refs[o] = to
<1> DEFINE movable == BidOutcomes \cap Referring(from, ref)
           chosen == IF BidOutcomes \cap Referring({to}, ref) # {} \/ movable = {} THEN {{}}
                     ELSE {{o} : o \in movable}
<1>1. PICK moved \in chosen :
        refs = [r \in Rows |-> IF ref[r] \in from /\ r \in Permits \cup Awards \cup moved
                               THEN to ELSE ref[r]]
  BY DEF remap_company_foreign_keys
<1>2. \A r \in Rows : refs[r] = IF ref[r] \in from /\ r \in Permits \cup Awards \cup moved
                                THEN to ELSE ref[r]
  BY <1>1
<1>3. ref[row] \in from /\ row \notin Permits \cup Awards \cup moved
  BY <1>2
<1>4. row \in BidOutcomes
  BY <1>3 DEF Rows
<1>5. row \in movable
  BY <1>3, <1>4 DEF Referring
<1>6. CASE BidOutcomes \cap Referring({to}, ref) # {}
  <2>1. PICK o \in BidOutcomes : o \in Rows /\ ref[o] = to
    BY <1>6 DEF Referring
  <2>2. refs[o] = to
    BY <1>2, <2>1
  <2> QED
    BY <1>4, <2>2
<1>7. CASE BidOutcomes \cap Referring({to}, ref) = {}
  <2>1. PICK o \in movable : moved = {o}
    BY <1>1, <1>5, <1>7
  <2>2. o \in BidOutcomes /\ o \in Rows /\ ref[o] \in from
    BY <2>1 DEF Referring
  <2>3. refs[o] = to
    BY <1>2, <2>1, <2>2
  <2> QED
    BY <1>4, <2>2, <2>3
<1> QED
  BY <1>6, <1>7

\* The company rows that become aliases are Firms, and so are those they point at.
LEMMA FirmRows ==
  /\ NamedRow \in Firms /\ Winner \in Firms /\ OldPrimary \in Firms
  /\ Group \subseteq Firms /\ Alike \subseteq Firms /\ Bridged \subseteq Firms
  /\ Bidders \subseteq Firms
  /\ Canonical \in Firm /\ Standalone \in Firm
  /\ [role |-> "person", canonical |-> NoOne] \in Firm
  /\ \A to \in Firms : AliasOf(to) \in Firm
  BY MergeAssumption DEF Canonical, Standalone, AliasOf, Firm

\* What the merge of a DBA group is made of.
Assigned == {p \in Permits : applicant[p] = "group"}
Create == company[NamedRow] = NoOne
Planned == IF Create THEN OldPrimary ELSE NamedRow
AssignedRefs(refs) ==
  [row \in Rows |-> IF row \in Assigned /\ ref[row] # Planned THEN Planned ELSE refs[row]]
MergedFirms ==
  [f \in Firms |->
     CASE f = NamedRow -> Canonical [] f \in Group -> AliasOf(NamedRow)
       [] f \in Persons -> [role |-> "person", canonical |-> NoOne]
       [] OTHER -> Standalone]

\* The merge of a DBA group, of these parts.
LEMMA MergePlanIs ==
  ApplyMergePlan <=>
    \E refs \in remap_company_foreign_keys(Group, NamedRow) :
      Applied(MergedFirms, AssignedRefs(refs), Group, NamedRow, Firms,
              Assigned \cup Referring(Group, ref), IF Create THEN {NamedRow} ELSE {},
              IF Create THEN {} ELSE counted)
  BY DEF ApplyMergePlan, Assigned, Create, Planned, AssignedRefs, MergedFirms

\* The merge of a DBA group takes a snapshot of every company.
LEMMA MergePlanKeeps == MergeInv /\ ApplyMergePlan => MergeInv'
<1> SUFFICES ASSUME MergeInv, ApplyMergePlan PROVE MergeInv'
  OBVIOUS
<1> DEFINE inserted == IF Create THEN {NamedRow} ELSE {}
           rows == Assigned \cup Referring(Group, ref)
           count == IF Create THEN {} ELSE counted
<1>1. PICK refs \in remap_company_foreign_keys(Group, NamedRow) :
        Applied(MergedFirms, AssignedRefs(refs), Group, NamedRow, Firms, rows, inserted, count)
  BY MergePlanIs
<1>2. TablesTyped
  BY DEF MergeInv
<1>3. refs \in ReferenceColumn /\ \A row \in Rows \ Referring(Group, ref) : refs[row] = ref[row]
  BY <1>2, FirmRows, RemapTypes
<1>4. \A f \in Firms : MergedFirms[f] \in Firm
  <2> TAKE f \in Firms
  <2>1. MergedFirms[f] = CASE f = NamedRow -> Canonical [] f \in Group -> AliasOf(NamedRow)
                           [] f \in Persons -> [role |-> "person", canonical |-> NoOne]
                           [] OTHER -> Standalone
    BY Zenon DEF MergedFirms
  <2> QED
    BY <2>1, FirmRows
<1>5. MergedFirms \in CompanyTable
  BY <1>4 DEF MergedFirms, CompanyTable
<1>6. Planned \in Firms
  BY FirmRows DEF Planned
<1>7. AssignedRefs(refs) \in ReferenceColumn
  BY <1>3, <1>6 DEF AssignedRefs, ReferenceColumn
<1>8. \A row \in Rows \ rows : AssignedRefs(refs)[row] = ref[row]
  BY <1>3 DEF AssignedRefs
<1>9. rows \subseteq Rows
  BY DEF Assigned, Referring, Rows
<1>10. \A f \in Firms : MergedFirms[f] # NoOne
  BY <1>4, NoOneIsNoFirm
<1>11. inserted \cap Exists = {} /\ inserted \subseteq {NamedRow}
  BY DEF Create, Exists
<1>12. Firms \ ((Firms \cap Exists) \cup inserted) = {}
  BY DEF MergeInv, Exists, Create
<1>13. \A f \in Firms \ ((Firms \cap Exists) \cup inserted) : MergedFirms[f] = company[f]
  BY <1>12
<1>14. count \in SUBSET Permits /\ (company[NamedRow] = NoOne => count = {})
  BY <1>2 DEF Create, TablesTyped
<1> HIDE DEF inserted, rows, count
<1> QED
  BY <1>1, <1>5, <1>7, <1>8, <1>9, <1>10, <1>11, <1>13, <1>14, FirmRows, AppliedKeeps

\* What the merge by parsed identity is made of.
AlikeFirms(members, to) ==
  [f \in Firms |-> IF f = to THEN Canonical
                   ELSE IF f \in members \ {to} THEN AliasOf(to) ELSE company[f]]

\* The merge by parsed identity, of these parts.
LEMMA ParsedIdentityIs ==
  ASSUME NEW members, NEW to, ApplyParsedIdentity(members, to)
  PROVE  /\ members \subseteq Alike \cap Exists /\ to \in members
         /\ \E refs \in remap_company_foreign_keys(members \ {to}, to) :
              Applied(AlikeFirms(members, to), refs, members \ {to}, to, members,
                      Referring(members \ {to}, ref), {}, counted)
  BY DEF ApplyParsedIdentity, AlikeFirms

\* It takes a snapshot of the members it changes.
LEMMA ParsedIdentityKeeps ==
  ASSUME MergeInv, NEW members, NEW to, ApplyParsedIdentity(members, to)
  PROVE  MergeInv'
<1> DEFINE from == members \ {to}
<1>1. members \subseteq Alike \cap Exists /\ to \in members
  BY ParsedIdentityIs
<1>2. PICK refs \in remap_company_foreign_keys(from, to) :
        Applied(AlikeFirms(members, to), refs, from, to, members, Referring(from, ref), {}, counted)
  BY ParsedIdentityIs
<1>3. TablesTyped /\ company \in CompanyTable
  BY DEF MergeInv, TablesTyped
<1>4. from \in SUBSET Firms /\ to \in Firms /\ members \in SUBSET Firms
  BY <1>1, FirmRows
<1>5. refs \in ReferenceColumn /\ \A row \in Rows \ Referring(from, ref) : refs[row] = ref[row]
  BY <1>3, <1>4, RemapTypes
<1>6. AlikeFirms(members, to) \in CompanyTable
  BY <1>3, <1>4, FirmRows DEF AlikeFirms, CompanyTable
<1>7. \A f \in members : AlikeFirms(members, to)[f] # NoOne
  BY <1>4, FirmRows, NoOneIsNoFirm DEF AlikeFirms
<1>8. \A f \in Firms \ members : AlikeFirms(members, to)[f] = company[f]
  BY <1>1 DEF AlikeFirms
<1>9. members \cap Exists = members
  BY <1>1
<1>10. \A f \in Firms \ {NamedRow} : AlikeFirms(members, to)[f] # NoOne
  BY <1>7, <1>8 DEF MergeInv
<1>11. Referring(from, ref) \in SUBSET Rows
  BY DEF Referring
<1>12. /\ counted \in SUBSET Permits /\ (company[NamedRow] = NoOne => counted = {})
       /\ AlikeFirms(members, to)[NamedRow] = NoOne => company[NamedRow] = NoOne
  BY <1>7, <1>8, FirmRows DEF MergeInv, TablesTyped
<1> HIDE DEF from
<1> QED
  BY <1>2, <1>4, <1>5, <1>6, <1>7, <1>8, <1>9, <1>10, <1>11, <1>12, AppliedKeeps

\* What the bridge is made of.
BridgedFirms == [f \in Firms |-> IF f \in Bridged THEN AliasOf(NamedRow) ELSE company[f]]

\* The bridge, of these parts.
LEMMA BridgeIs ==
  ASSUME ApplyBridge
  PROVE  /\ NamedRow \in Exists
         /\ \E refs \in remap_company_foreign_keys(Bridged, NamedRow) :
              Applied(BridgedFirms, refs, Bridged, NamedRow, Bridged \cup {NamedRow},
                      Referring(Bridged, ref), {}, Counted(refs))
  BY DEF ApplyBridge, BridgedFirms

\* It takes a snapshot of the bridged rows, which are all there.
LEMMA ManualBridgeKeeps == MergeInv /\ ApplyBridge => MergeInv'
<1> SUFFICES ASSUME MergeInv, ApplyBridge PROVE MergeInv'
  OBVIOUS
<1> DEFINE touched == Bridged \cup {NamedRow}
<1>1. NamedRow \in Exists
  BY BridgeIs
<1>2. PICK refs \in remap_company_foreign_keys(Bridged, NamedRow) :
        Applied(BridgedFirms, refs, Bridged, NamedRow, touched, Referring(Bridged, ref), {}, Counted(refs))
  BY BridgeIs
<1>3. TablesTyped /\ company \in CompanyTable
  BY DEF MergeInv, TablesTyped
<1>4. Bridged \in SUBSET Firms /\ NamedRow \in Firms /\ touched \in SUBSET Firms
  BY FirmRows
<1>5. refs \in ReferenceColumn /\ \A row \in Rows \ Referring(Bridged, ref) : refs[row] = ref[row]
  BY <1>3, <1>4, RemapTypes
<1>6. BridgedFirms \in CompanyTable
  BY <1>3, <1>4, FirmRows DEF BridgedFirms, CompanyTable
<1>7. touched \cap Exists = touched
  BY <1>1, <1>4, MergeAssumption DEF MergeInv, Exists
<1>8. \A f \in Firms \ {NamedRow} : BridgedFirms[f] # NoOne
  BY <1>4, FirmRows, NoOneIsNoFirm DEF BridgedFirms, MergeInv
<1>9. BridgedFirms[NamedRow] # NoOne
  BY <1>1, <1>4, FirmRows, NoOneIsNoFirm DEF BridgedFirms, Exists
<1>10. \A f \in Firms \ touched : BridgedFirms[f] = company[f]
  BY DEF BridgedFirms
<1>11. \A f \in touched : BridgedFirms[f] # NoOne
  BY <1>4, <1>8, <1>9
<1>12. Referring(Bridged, ref) \in SUBSET Rows
  BY DEF Referring
<1>13. Counted(refs) \in SUBSET Permits /\ company[NamedRow] # NoOne
  BY <1>1 DEF Counted, Exists
<1> HIDE DEF touched
<1> QED
  BY <1>2, <1>4, <1>5, <1>6, <1>7, <1>8, <1>10, <1>11, <1>12, <1>13, AppliedKeeps

\* What the rollback of the r-th merge makes of the tables.
RestoredFirms(r) ==
  [f \in Firms |-> IF f \in merges[r].inserted THEN NoOne
                   ELSE IF f \in merges[r].firms /\ f \in Exists
                   THEN merges[r].before.company[f] ELSE company[f]]
RestoredRefs(r) ==
  [row \in Rows |-> IF row \in merges[r].rows THEN merges[r].before.ref[row] ELSE ref[row]]
AliasesLeft(r) == {x \in aliases : x.merge # r}

\* The rollback, of these parts.
LEMMA RollbackIs ==
  ASSUME NEW r, Rollback(r)
  PROVE  /\ merges[r].status = "applied"
         /\ company' = RestoredFirms(r) /\ ref' = RestoredRefs(r)
         /\ aliases' = AliasesLeft(r) /\ applicant' = applicant
         /\ counted' = IF RestoredFirms(r)[NamedRow] = NoOne THEN {} ELSE counted
         /\ merges' = [merges EXCEPT ![r].status = "rolled_back"]
  BY DEF Rollback, RestoredFirms, RestoredRefs, AliasesLeft

\* A rollback changes of the runs only the status of its own.
LEMMA RollbackMarks ==
  ASSUME TablesTyped, NEW r \in DOMAIN merges, Rollback(r)
  PROVE  /\ merges' \in Seq(Merge) /\ Len(merges') = Len(merges)
         /\ \A i \in 1..Len(merges) :
              /\ merges'[i].inserted = merges[i].inserted
              /\ merges'[i].firms = merges[i].firms /\ merges'[i].rows = merges[i].rows
              /\ merges'[i].before = merges[i].before /\ merges'[i].after = merges[i].after
              /\ i # r => merges'[i] = merges[i]
<1>1. merges \in Seq(Merge) /\ r \in 1..Len(merges) /\ Len(merges) \in Nat
  BY DEF TablesTyped
<1>2. merges' = [merges EXCEPT ![r] = [merges[r] EXCEPT !.status = "rolled_back"]]
  BY RollbackIs
<1>3. merges[r] \in Merge
  BY <1>1
<1>4. [merges[r] EXCEPT !.status = "rolled_back"] \in Merge
  BY <1>3 DEF Merge
<1>5. merges' \in Seq(Merge) /\ Len(merges') = Len(merges)
  BY <1>1, <1>2, <1>4
<1>6. \A i \in 1..Len(merges) :
        merges'[i] = IF i = r THEN [merges[r] EXCEPT !.status = "rolled_back"] ELSE merges[i]
  BY <1>1, <1>2
<1>7. /\ [merges[r] EXCEPT !.status = "rolled_back"].inserted = merges[r].inserted
      /\ [merges[r] EXCEPT !.status = "rolled_back"].firms = merges[r].firms
      /\ [merges[r] EXCEPT !.status = "rolled_back"].rows = merges[r].rows
      /\ [merges[r] EXCEPT !.status = "rolled_back"].before = merges[r].before
      /\ [merges[r] EXCEPT !.status = "rolled_back"].after = merges[r].after
  BY <1>3 DEF Merge
<1> QED
  BY <1>5, <1>6, <1>7

\* A rollback keeps the invariant: its snapshots are of tables, and of rows that were
\* there.
LEMMA RollbackKeeps ==
  ASSUME MergeInv, NEW r \in DOMAIN merges, Rollback(r)
  PROVE  MergeInv'
<1> DEFINE m == merges[r]
<1>1. TablesTyped /\ company \in CompanyTable /\ ref \in ReferenceColumn /\ aliases \subseteq Alias
  BY DEF MergeInv, TablesTyped
<1>2. r \in 1..Len(merges) /\ m \in Merge
  BY DEF MergeInv, TablesTyped
<1>3. SnapshotsCover(r, m)
  BY <1>2 DEF MergeInv
<1>4. m.before.company \in CompanyTable /\ m.before.ref \in ReferenceColumn
  <2>1. m.before \in Tables
    BY <1>2 DEF Merge
  <2> HIDE DEF m
  <2> QED
    BY <2>1 DEF Tables, CompanyTable, ReferenceColumn
<1>5. /\ merges' \in Seq(Merge) /\ Len(merges') = Len(merges)
      /\ \A i \in 1..Len(merges) :
           /\ merges'[i].inserted = merges[i].inserted
           /\ merges'[i].firms = merges[i].firms /\ merges'[i].rows = merges[i].rows
           /\ merges'[i].before = merges[i].before /\ merges'[i].after = merges[i].after
  BY <1>1, RollbackMarks
<1>6. /\ company' = RestoredFirms(r) /\ ref' = RestoredRefs(r)
      /\ aliases' = AliasesLeft(r) /\ applicant' = applicant
      /\ counted' = IF company'[NamedRow] = NoOne THEN {} ELSE counted
  BY RollbackIs
<1>7. company' \in CompanyTable
  BY <1>1, <1>4, <1>6 DEF RestoredFirms, CompanyTable
<1>8. ref' \in ReferenceColumn
  BY <1>1, <1>4, <1>6 DEF RestoredRefs, ReferenceColumn
<1>9. aliases' \subseteq aliases
  BY <1>6 DEF AliasesLeft
<1>10. TablesTyped'
  BY <1>1, <1>5, <1>6, <1>7, <1>8, <1>9 DEF TablesTyped
<1>11. /\ \A f \in Firms \ {NamedRow} : company'[f] # NoOne
       /\ company'[NamedRow] = NoOne => counted' = {}
  BY <1>3, <1>6 DEF RestoredFirms, SnapshotsCover, MergeInv
<1>12. \A x \in aliases' : x.merge \in 1..Len(merges')
  BY <1>5, <1>9 DEF MergeInv
<1>13. (\A i \in 1..Len(merges) : SnapshotsCover(i, merges[i]))'
  <2>1. \A i \in 1..Len(merges) : SnapshotsCover(i, merges[i])
    BY DEF MergeInv
  <2> QED
    BY <1>5, <2>1 DEF SnapshotsCover
<1> QED
  BY <1>10, <1>11, <1>12, <1>13 DEF MergeInv

\* The matching of awards, the import of permits and an outcome change references
\* only, and only to companies.
LEMMA MatchAwardsKeeps == MergeInv /\ MatchAwards => MergeInv'
<1> SUFFICES ASSUME MergeInv, MatchAwards PROVE MergeInv'
  OBVIOUS
<1>1. TablesTyped'
  BY FirmRows DEF MergeInv, TablesTyped, MatchAwards, ReferenceColumn, CompanyTable, Exists
<1>2. (\A r \in 1..Len(merges) : SnapshotsCover(r, merges[r]))'
  BY DEF MergeInv, MatchAwards, SnapshotsCover
<1> QED
  BY <1>1, <1>2 DEF MergeInv, MatchAwards

\* Whom an applicant resolves to is a company that is there.
LEMMA PrimaryIsFirm ==
  ASSUME TablesTyped, NEW named \in SUBSET Firms,
         NEW f \in _pick_primary_id(Exists \cap named)
  PROVE  f \in Firms /\ company[f] # NoOne
<1>1. \A g \in Exists \cap named :
        (IF company[g].role = "alias" /\ company[g].canonical \in Exists
         THEN company[g].canonical ELSE g) \in Exists
  OBVIOUS
<1> QED
  BY <1>1 DEF _pick_primary_id, Exists

\* The rows of the names of an applicant are companies.
LEMMA CandidatesAreFirms ==
  ASSUME TablesTyped, NEW p \in Permits, NEW named \in Candidates(p)
  PROVE  named \in SUBSET Firms
<1>1. applicant[p] \in {"group", "alike", "bridged"}
  BY DEF TablesTyped
<1>2. CASE applicant[p] = "group"
  <2>1. Candidates(p) = {Group \cup {NamedRow}}
    BY <1>2 DEF Candidates
  <2> QED
    BY <2>1, FirmRows
<1>3. CASE applicant[p] = "alike"
  <2>1. Candidates(p) = {Alike}
    BY <1>3 DEF Candidates
  <2> QED
    BY <2>1, FirmRows
<1>4. CASE applicant[p] = "bridged"
  <2>1. Candidates(p) = {{g} : g \in Bridged}
    BY <1>4 DEF Candidates
  <2> QED
    BY <2>1, FirmRows
<1> QED
  BY <1>1, <1>2, <1>3, <1>4

\* An import links the permit to a company that is there.
LEMMA ImportPermitKeeps ==
  ASSUME MergeInv, NEW p \in Permits, ImportPermit(p) PROVE MergeInv'
<1>0. PICK named \in Candidates(p) :
        \E f \in _pick_primary_id(Exists \cap named) : ref' = [ref EXCEPT ![p] = f]
  BY DEF ImportPermit
<1>1. PICK f \in _pick_primary_id(Exists \cap named) : ref' = [ref EXCEPT ![p] = f]
  BY <1>0
<1>3. named \in SUBSET Firms
  BY CandidatesAreFirms DEF MergeInv
<1>4. f \in Firms
  BY <1>3, PrimaryIsFirm DEF MergeInv
<1>5. TablesTyped'
  BY <1>1, <1>4 DEF MergeInv, TablesTyped, ImportPermit, ReferenceColumn, CompanyTable
<1>6. (\A r \in 1..Len(merges) : SnapshotsCover(r, merges[r]))'
  BY DEF MergeInv, ImportPermit, SnapshotsCover
<1> QED
  BY <1>5, <1>6 DEF MergeInv, ImportPermit

\* Aggregates are computed of companies that are there.
LEMMA PopulateKeeps == MergeInv /\ PopulateCompanies => MergeInv'
<1> SUFFICES ASSUME MergeInv, PopulateCompanies PROVE MergeInv'
  OBVIOUS
<1>1. PICK found \in [Permits -> Firms] :
        /\ \A p \in Permits : \E named \in Candidates(p) :
             found[p] \in _pick_primary_id(Exists \cap named)
        /\ ref' = [row \in Rows |-> IF row \in Permits THEN found[row] ELSE ref[row]]
        /\ counted' = IF Counted(found) = {} THEN counted ELSE Counted(found)
  BY DEF PopulateCompanies
<1>2. ASSUME NEW p \in Permits, NEW named \in Candidates(p) PROVE named \in SUBSET Firms
  BY CandidatesAreFirms DEF MergeInv
<1>3. \A p \in Permits : company[found[p]] # NoOne
  BY <1>1, <1>2, PrimaryIsFirm DEF MergeInv
<1>4. counted' \subseteq Permits /\ (company[NamedRow] = NoOne => counted' = {})
  BY <1>1, <1>3 DEF Counted, MergeInv, TablesTyped
<1>5. ref' \in ReferenceColumn
  BY <1>1 DEF ReferenceColumn, MergeInv, TablesTyped
<1>6. TablesTyped'
  BY <1>4, <1>5 DEF MergeInv, TablesTyped, PopulateCompanies, CompanyTable
<1>7. (\A r \in 1..Len(merges) : SnapshotsCover(r, merges[r]))'
  BY DEF MergeInv, PopulateCompanies, SnapshotsCover
<1> QED
  BY <1>4, <1>6, <1>7 DEF MergeInv, PopulateCompanies

\* An outcome is of a company that bids.
LEMMA RecordOutcomeKeeps ==
  ASSUME MergeInv, NEW o \in BidOutcomes, NEW f \in Bidders, RecordOutcome(o, f)
  PROVE  MergeInv'
<1>1. f \in Firms
  BY FirmRows
<1>2. TablesTyped'
  BY <1>1 DEF MergeInv, TablesTyped, RecordOutcome, ReferenceColumn, CompanyTable
<1>3. (\A r \in 1..Len(merges) : SnapshotsCover(r, merges[r]))'
  BY DEF MergeInv, RecordOutcome, SnapshotsCover
<1> QED
  BY <1>2, <1>3 DEF MergeInv, RecordOutcome

\* Before any merge there is nothing to take back.
LEMMA InitMerge == MergeInit => MergeInv
<1> SUFFICES ASSUME MergeInit PROVE MergeInv
  OBVIOUS
<1>1. company \in CompanyTable /\ \A f \in Firms \ {NamedRow} : company[f] # NoOne
  BY FirmRows, NoOneIsNoFirm DEF MergeInit, CompanyTable
<1>2. ref \in ReferenceColumn /\ aliases = {} /\ counted = {} /\ merges = <<>>
  BY DEF MergeInit, ReferenceColumn
<1>3. merges \in Seq(Merge) /\ Len(merges) = 0 /\ Len(merges) <= MaxMerges
  BY <1>2, MergeAssumption
<1> QED
  BY <1>1, <1>2, <1>3 DEF MergeInit, MergeInv, TablesTyped

\* Every step keeps the invariant.
LEMMA StepMerge == MergeInv /\ [MergeNext]_mergeVars => MergeInv'
<1> SUFFICES ASSUME MergeInv, [MergeNext]_mergeVars PROVE MergeInv'
  OBVIOUS
<1>1. CASE ApplyMergePlan
  BY <1>1, MergePlanKeeps
<1>2. CASE ApplyBridge
  BY <1>2, ManualBridgeKeeps
<1>3. CASE \E members \in SUBSET Alike, to \in Alike : ApplyParsedIdentity(members, to)
  BY <1>3, ParsedIdentityKeeps
<1>4. CASE \E r \in DOMAIN merges : Rollback(r)
  BY <1>4, RollbackKeeps
<1>5. CASE MatchAwards
  BY <1>5, MatchAwardsKeeps
<1>6. CASE PopulateCompanies \/ \E p \in Permits : ImportPermit(p)
  BY <1>6, PopulateKeeps, ImportPermitKeeps
<1>7. CASE \E o \in BidOutcomes, f \in Bidders : RecordOutcome(o, f)
  BY <1>7, RecordOutcomeKeeps
<1>8. CASE UNCHANGED mergeVars
  <2>1. TablesTyped'
    BY <1>8 DEF MergeInv, TablesTyped, mergeVars
  <2>2. (\A r \in 1..Len(merges) : SnapshotsCover(r, merges[r]))'
    BY <1>8 DEF MergeInv, mergeVars, SnapshotsCover
  <2> QED
    BY <1>8, <2>1, <2>2 DEF MergeInv, mergeVars
<1> QED
  BY <1>1, <1>2, <1>3, <1>4, <1>5, <1>6, <1>7, <1>8 DEF MergeNext

\* The merges alone.
MergeSpec == MergeInit /\ [][MergeNext]_mergeVars

\* The inductive invariant: the tables are tables, no row but the inserted one goes,
\* and every merge on record has taken snapshots of all that it changed but the aggregates.
THEOREM MergeInvariant == MergeSpec => []MergeInv
<1>1. MergeInit => MergeInv
  BY InitMerge
<1>2. MergeInv /\ [MergeNext]_mergeVars => MergeInv'
  BY StepMerge
<1> QED
  BY <1>1, <1>2, PTL DEF MergeSpec

\* The invariant gives the type invariant.
THEOREM MergesAreTyped == MergeSpec => []MergeTypeOK
<1>1. MergeInv => MergeTypeOK
  <2> SUFFICES ASSUME MergeInv PROVE MergeTypeOK
    OBVIOUS
  <2>1. \A r \in DOMAIN merges : merges[r] \in Merge
    BY DEF MergeInv, TablesTyped
  <2> QED
    BY <2>1, NowIsTables DEF MergeInv, TablesTyped, MergeTypeOK
<1> QED
  BY <1>1, MergeInvariant, PTL

\* A merge appends its run and leaves those before it as they are.
LEMMA AppliedAppends ==
  ASSUME TablesTyped, NEW firms, NEW refs, NEW from, NEW to, NEW touched, NEW rows,
         NEW inserted, NEW count, Applied(firms, refs, from, to, touched, rows, inserted, count)
  PROVE  /\ \A r \in DOMAIN merges : merges'[r] = merges[r]
         /\ merges'[Len(merges')].inserted = inserted
         /\ ref' = refs
         /\ \A x \in aliases' \ aliases : x.alias \in from /\ x.canonical = to
<1> DEFINE m == [status |-> "applied", firms |-> touched \cap Exists, rows |-> rows,
                 inserted |-> inserted, before |-> Now,
                 after |-> [company |-> company', ref |-> ref', aliases |-> aliases',
                            counted |-> counted']]
<1>1. merges' = Append(merges, m) /\ ref' = refs
  BY DEF Applied
<1>2. aliases' = aliases \cup
        {[alias |-> f, canonical |-> to, merge |-> Len(merges) + 1] : f \in from}
  BY DEF Applied
<1>3. m.inserted = inserted
  OBVIOUS
<1> HIDE DEF m
<1>4. merges \in Seq(Merge)
  BY DEF TablesTyped
<1>5. \A r \in DOMAIN merges : merges'[r] = merges[r]
  BY <1>1, <1>4
<1>6. merges'[Len(merges')] = m
  BY <1>1, <1>4
<1> QED
  BY <1>1, <1>2, <1>3, <1>5, <1>6

\* Only a rollback changes the status of a run.
LEMMA OnlyRollbackMarks ==
  ASSUME TablesTyped, [MergeNext]_mergeVars, NEW r \in DOMAIN merges,
         merges'[r].status # merges[r].status
  PROVE  Rollback(r)
<1>1. CASE ApplyMergePlan
  BY <1>1, MergePlanIs, AppliedAppends
<1>2. CASE ApplyBridge
  BY <1>2, BridgeIs, AppliedAppends
<1>3. CASE \E members \in SUBSET Alike, to \in Alike : ApplyParsedIdentity(members, to)
  BY <1>3, ParsedIdentityIs, AppliedAppends
<1>4. CASE \E q \in DOMAIN merges : Rollback(q)
  <2>1. PICK q \in DOMAIN merges : Rollback(q)
    BY <1>4
  <2>2. r \in 1..Len(merges)
    BY DEF TablesTyped
  <2>3. r = q
    BY <2>1, <2>2, RollbackMarks
  <2> QED
    BY <2>1, <2>3
<1>5. CASE MatchAwards
  BY <1>5 DEF MatchAwards
<1>6. CASE PopulateCompanies \/ \E p \in Permits : ImportPermit(p)
  BY <1>6 DEF ImportPermit, PopulateCompanies
<1>7. CASE \E o \in BidOutcomes, f \in Bidders : RecordOutcome(o, f)
  BY <1>7 DEF RecordOutcome
<1>8. CASE UNCHANGED mergeVars
  BY <1>8 DEF mergeVars
<1> QED
  BY <1>1, <1>2, <1>3, <1>4, <1>5, <1>6, <1>7, <1>8 DEF MergeNext

\* A rollback that finds the tables as the merge left them restores those before it,
\* but the aggregates.
LEMMA RollbackUndoes ==
  ASSUME MergeInv, NEW r \in DOMAIN merges, Rollback(r), Now = merges[r].after
  PROVE  Now' = [merges[r].before EXCEPT !.counted = merges[r].after.counted]
<1> DEFINE m == merges[r]
<1>1. r \in 1..Len(merges) /\ m \in Merge
  BY DEF MergeInv, TablesTyped
<1>2. SnapshotsCover(r, m)
  BY <1>1 DEF MergeInv
<1>3. m.before \in Tables /\ m.inserted \subseteq Firms /\ m.firms \subseteq Firms
  BY <1>1 DEF Merge
<1>4. /\ m.after.company = company /\ m.after.ref = ref /\ m.after.aliases = aliases
      /\ m.after.counted = counted
  BY DEF Now
<1>5. /\ company' = RestoredFirms(r) /\ ref' = RestoredRefs(r) /\ aliases' = AliasesLeft(r)
      /\ counted' = IF company'[NamedRow] = NoOne THEN {} ELSE counted
  BY RollbackIs
<1>6. m.before.company \in CompanyTable /\ m.before.ref \in ReferenceColumn
  <2> HIDE DEF m
  <2> QED
    BY <1>3 DEF Tables, CompanyTable, ReferenceColumn
<1>7. company' = m.before.company
  <2>1. \A f \in Firms : RestoredFirms(r)[f] = m.before.company[f]
    <3> TAKE f \in Firms
    <3>1. CASE f \in m.inserted
      BY <1>2, <3>1 DEF SnapshotsCover, RestoredFirms
    <3>2. CASE f \notin m.inserted /\ f \in m.firms
      <4>1. f \in Exists
        BY <1>2, <1>4, <3>2 DEF SnapshotsCover, Exists
      <4> QED
        BY <3>2, <4>1 DEF RestoredFirms
    <3>3. CASE f \notin m.inserted /\ f \notin m.firms
      BY <1>2, <1>4, <3>3 DEF SnapshotsCover, RestoredFirms
    <3> QED
      BY <3>1, <3>2, <3>3
  <2> QED
    BY <1>5, <1>6, <2>1 DEF RestoredFirms, CompanyTable
<1>8. ref' = m.before.ref
  <2>1. \A row \in Rows : RestoredRefs(r)[row] = m.before.ref[row]
    BY <1>2, <1>4 DEF SnapshotsCover, RestoredRefs
  <2> QED
    BY <1>5, <1>6, <2>1 DEF RestoredRefs, ReferenceColumn
<1>9. aliases' = m.before.aliases
  BY <1>2, <1>4, <1>5 DEF SnapshotsCover, AliasesLeft
<1>10. counted' = m.after.counted
  BY <1>2, <1>4, <1>5, <1>7 DEF SnapshotsCover
<1>11. [m.before EXCEPT !.counted = m.after.counted] =
         [company |-> m.before.company, ref |-> m.before.ref, aliases |-> m.before.aliases,
          counted |-> m.after.counted]
  <2> HIDE DEF m
  <2> QED
    BY <1>3 DEF Tables
<1>12. Now' = [company |-> company', ref |-> ref', aliases |-> aliases', counted |-> counted']
  BY DEF Now
<1> QED
  BY <1>7, <1>8, <1>9, <1>10, <1>11, <1>12

\* Whatever merges came and went in between, a rollback that finds the tables as its
\* merge left them puts back what the merge found, but the aggregates it recomputed.
THEOREM RollbackRestores == MergeSpec => RollbackRestoresTheTables
<1>1. ASSUME MergeInv, [MergeNext]_mergeVars
      PROVE  [\A r \in DOMAIN merges :
                merges'[r].status # merges[r].status /\ Now = merges[r].after
                  => Now' = [merges[r].before EXCEPT !.counted = merges[r].after.counted]]_mergeVars
  <2>1. TablesTyped
    BY <1>1 DEF MergeInv
  <2> QED
    BY <1>1, <2>1, OnlyRollbackMarks, RollbackUndoes
<1> QED
  BY <1>1, MergeInvariant, PTL DEF MergeSpec, RollbackRestoresTheTables

\* What a merge into another row leaves at an alias.
LEMMA AppliedTakesAlong ==
  ASSUME TablesTyped, NEW firms, NEW from \in SUBSET Firms, NEW to \in Firms \ from,
         NEW refs \in remap_company_foreign_keys(from, to),
         NEW touched, NEW rows, NEW inserted, NEW count,
         Applied(firms, refs, from, to, touched, rows, inserted, count),
         NEW x \in aliases' \ aliases, NEW row \in Rows, ref'[row] = x.alias
  PROVE  row \in BidOutcomes /\ \E o \in BidOutcomes : ref'[o] = x.canonical
<1>1. ref' = refs /\ x.alias \in from /\ x.canonical = to
  BY AppliedAppends
<1> QED
  BY <1>1, RemapTakesAlong

\* What a merge leaves at an alias: what the properties say of it.
LeftBehind(x, row) ==
  \/ row \in Permits /\ merges'[Len(merges')].inserted # {} /\ x.alias = OldPrimary
  \/ row \in BidOutcomes /\ \E o \in BidOutcomes : ref'[o] = x.canonical

\* The merge of a DBA group assigns permits besides.
LEMMA MergePlanTakesAlong ==
  ASSUME TablesTyped, ApplyMergePlan,
         NEW x \in aliases' \ aliases, NEW row \in Rows, ref'[row] = x.alias
  PROVE  LeftBehind(x, row)
<1> DEFINE inserted == IF Create THEN {NamedRow} ELSE {}
<1>1. PICK refs \in remap_company_foreign_keys(Group, NamedRow) :
        Applied(MergedFirms, AssignedRefs(refs), Group, NamedRow, Firms,
                Assigned \cup Referring(Group, ref), inserted, IF Create THEN {} ELSE counted)
  BY MergePlanIs
<1>2. /\ merges'[Len(merges')].inserted = inserted /\ ref' = AssignedRefs(refs)
      /\ x.alias \in Group /\ x.canonical = NamedRow
  BY <1>1, AppliedAppends
<1>3. \A r \in Rows : ref'[r] = IF r \in Assigned /\ ref[r] # Planned
                                THEN Planned ELSE refs[r]
  BY <1>2 DEF AssignedRefs
<1>4. CASE row \in Assigned /\ ref[row] # Planned
  <2>1. x.alias = Planned
    BY <1>3, <1>4
  <2>2. Create /\ Planned = OldPrimary
    BY <1>2, <2>1, MergeAssumption DEF Planned
  <2>3. row \in Permits
    BY <1>4 DEF Assigned
  <2> QED
    BY <1>2, <2>1, <2>2, <2>3 DEF LeftBehind
<1>5. CASE ~(row \in Assigned /\ ref[row] # Planned)
  <2>1. refs[row] \in Group
    BY <1>2, <1>3, <1>5
  <2>2. NamedRow \in Firms \ Group /\ Group \in SUBSET Firms
    BY FirmRows, MergeAssumption
  <2>3. row \in BidOutcomes /\ \E o \in BidOutcomes : refs[o] = NamedRow
    BY <1>1, <2>1, <2>2, RemapTakesAlong
  <2>4. PICK o \in BidOutcomes : refs[o] = NamedRow
    BY <2>3
  <2>5. o \in Rows /\ o \notin Assigned
    BY MergeAssumption DEF Rows, Assigned
  <2>6. ref'[o] = x.canonical
    BY <1>2, <1>3, <2>4, <2>5
  <2> QED
    BY <2>3, <2>6 DEF LeftBehind
<1> QED
  BY <1>4, <1>5

\* No merge leaves a reference at an alias, but outcomes where the canonical row has
\* one and permits assigned to the primary of a plan that inserts a row.
THEOREM MergesTakeAlong == MergeSpec => MergesTakeReferencesAlong
<1>1. ASSUME MergeInv, [MergeNext]_mergeVars,
             NEW x \in aliases' \ aliases, NEW row \in Rows, ref'[row] = x.alias
      PROVE  LeftBehind(x, row)
  <2>1. TablesTyped
    BY <1>1 DEF MergeInv
  <2>2. CASE ApplyMergePlan
    BY <1>1, <2>1, <2>2, MergePlanTakesAlong
  <2>3. CASE ApplyBridge
    <3>1. Bridged \in SUBSET Firms /\ NamedRow \in Firms \ Bridged
      BY FirmRows, MergeAssumption
    <3>2. PICK refs \in remap_company_foreign_keys(Bridged, NamedRow) :
            Applied(BridgedFirms, refs, Bridged, NamedRow, Bridged \cup {NamedRow},
                    Referring(Bridged, ref), {}, Counted(refs))
      BY <2>3, BridgeIs
    <3> QED
      BY <1>1, <2>1, <3>1, <3>2, AppliedTakesAlong DEF LeftBehind
  <2>4. CASE \E members \in SUBSET Alike, to \in Alike : ApplyParsedIdentity(members, to)
    <3>1. PICK members \in SUBSET Alike, to \in Alike : ApplyParsedIdentity(members, to)
      BY <2>4
    <3>2. members \ {to} \in SUBSET Firms /\ to \in Firms \ (members \ {to})
      BY <3>1, FirmRows
    <3>3. PICK refs \in remap_company_foreign_keys(members \ {to}, to) :
            Applied(AlikeFirms(members, to), refs, members \ {to}, to, members,
                    Referring(members \ {to}, ref), {}, counted)
      BY <3>1, ParsedIdentityIs
    <3> QED
      BY <1>1, <2>1, <3>2, <3>3, AppliedTakesAlong DEF LeftBehind
  <2>5. CASE \E r \in DOMAIN merges : Rollback(r)
    BY <1>1, <2>5, RollbackIs DEF AliasesLeft
  <2>6. CASE aliases' = aliases
    BY <1>1, <2>6
  <2> QED
    BY <1>1, <2>2, <2>3, <2>4, <2>5, <2>6
    DEF MergeNext, MatchAwards, PopulateCompanies, ImportPermit, RecordOutcome, mergeVars
<1>2. MergeInv /\ [MergeNext]_mergeVars =>
        [\A x \in aliases' \ aliases, row \in Rows :
           ref'[row] = x.alias =>
             \/ row \in Permits /\ merges'[Len(merges')].inserted # {} /\ x.alias = OldPrimary
             \/ row \in BidOutcomes /\ \E o \in BidOutcomes : ref'[o] = x.canonical]_mergeVars
  BY <1>1 DEF LeftBehind
<1> QED
  BY <1>2, MergeInvariant, PTL DEF MergeSpec, MergesTakeReferencesAlong
===============================================================================
