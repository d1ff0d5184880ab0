----------------------------- MODULE Records_proofs -----------------------------
(***************************************************************************)
(* What the records keep to, for every number of writers, agents, attempts, *)
(* proposals, dispatches, passes and deaths: the arena's collaboration      *)
(* access, refinement journal with its memory adapters, event segment,      *)
(* artifacts, job ledger and verifier; a dispatched change, and the grading *)
(* of a card; the joule wallet and the cost ledger.                         *)
(***************************************************************************)
EXTENDS ArenaAccess, ArenaRefinement, ArenaStore, ArenaVerdict, ChangeDeploy, WorkGrading,
        JouleWallet, CostLedger, TLAPS,
        FiniteSetTheorems, WellFoundedInduction


-----------------------------------------------------------------------------
(* Collaboration access. *)

\* Leases number the attempts; an owner is, or was, one of a lease of its attempt.
AccessShape ==
    /\ leased \in [Attempt -> Nat] /\ DOMAIN owner = Attempt /\ count \in Nat
    /\ \A l \in active : l[1] \in Attempt /\ l[2] <= leased[l[1]] /\ l[2] \in Nat
    /\ \A o \in binding : o.lease[1] \in Attempt /\ o.by \in Peer
    /\ \A x \in Attempt : owner[x] # Unowned => owner[x].lease[1] = x /\ owner[x].by \in Peer

\* A lease that ended is over: its number is not given again.
LeasesEnd ==
    \A e \in ended : /\ e.lease \notin active /\ e.at \in Nat
                     /\ e.lease[1] \in Attempt => e.lease[2] \in Nat /\ e.lease[2] <= leased[e.lease[1]]

Begun == inbox \cup built \cup calls

\* Calls, under way or with their effect, are numbered apart.
Numbered ==
    /\ \A m \in Begun : m.n \in Nat /\ m.n < count
    /\ \A m, k \in Begun : m.n = k.n => m = k

\* Whoever passed the owner check for an attempt is the owner it keeps.
OwnedBy(x, by) == x \in Attempt /\ owner[x] # Unowned /\ owner[x].by = by

Voiced == \A m \in Begun : OwnedBy(m.attempt, m.by)

\* A call for an attempt whose lease has ended passed its check before.
Lapsed ==
    \A e \in ended, m \in Begun : owner[m.attempt].lease = e.lease => m.n < e.at

AccessInv == AccessShape /\ LeasesEnd /\ Numbered /\ Voiced /\ Lapsed

\* An attempt keeps its owner: no step takes it from whoever has it.
LEMMA OwnersStay ==
  ASSUME AccessShape, [AccessNext]_accessVars
  PROVE  \A x \in Attempt : owner[x] # Unowned => owner'[x] = owner[x]
<1>1. CASE UNCHANGED owner
  BY <1>1
<1>2. ASSUME NEW o \in binding, Bind(o)
      PROVE  \A x \in Attempt : owner[x] # Unowned => owner'[x] = owner[x]
  <2>1. PICK y : y = o.lease[1]
    OBVIOUS
  <2>2. owner' = IF owner[y] = Unowned \/ owner[y] = o THEN [owner EXCEPT ![y] = o] ELSE owner
    BY <1>2, <2>1 DEF Bind, Bindable
  <2> QED BY <2>2 DEF AccessShape
<1> QED BY <1>1, <1>2 DEF AccessNext, LeaseAdmits, LeaseEnds, BindChecks, Grant, Revoke,
                          CallChecks, Send, Build, accessVars

\* Leases stay of their attempt, whoever is bound to them.
LEMMA ShapeStays ==
  ASSUME AccessShape, [AccessNext]_accessVars PROVE AccessShape'
<1>1. ASSUME NEW x \in Attempt, LeaseAdmits(x) PROVE AccessShape'
  <2>1. /\ leased' = [leased EXCEPT ![x] = leased[x] + 1] /\ leased[x] \in Nat
        /\ active' = active \cup {<<x, leased[x] + 1>>} /\ UNCHANGED <<owner, binding, count>>
    BY <1>1 DEF LeaseAdmits, AccessShape
  <2>2. leased' \in [Attempt -> Nat] /\ \A y \in Attempt : leased[y] <= leased'[y]
    BY <2>1 DEF AccessShape
  <2>3. ASSUME NEW l \in active PROVE l[1] \in Attempt /\ l[2] \in Nat /\ l[2] <= leased'[l[1]]
    <3>1. l[1] \in Attempt /\ l[2] \in Nat /\ l[2] <= leased[l[1]]
      BY <2>3 DEF AccessShape
    <3>2. leased[l[1]] \in Nat /\ leased'[l[1]] \in Nat /\ leased[l[1]] <= leased'[l[1]]
      BY <2>2, <3>1 DEF AccessShape
    <3> QED BY <3>1, <3>2
  <2>4. leased[x] + 1 \in Nat /\ leased[x] + 1 <= leased'[x]
    BY <2>1 DEF AccessShape
  <2>5. \A l \in active' : l[1] \in Attempt /\ l[2] <= leased'[l[1]] /\ l[2] \in Nat
    BY <2>1, <2>3, <2>4
  <2> QED BY <2>1, <2>2, <2>5 DEF AccessShape
<1>2. ASSUME NEW l \in active, LeaseEnds(l) PROVE AccessShape'
  BY <1>2 DEF LeaseEnds, AccessShape
<1>3. ASSUME NEW l \in active, NEW by \in Peer, BindChecks(l, by) PROVE AccessShape'
  BY <1>3 DEF BindChecks, AccessShape
<1>4. ASSUME NEW o \in binding, Bind(o) PROVE AccessShape'
  <2>1. PICK y : y = o.lease[1]
    OBVIOUS
  <2>2. /\ owner' = IF owner[y] = Unowned \/ owner[y] = o THEN [owner EXCEPT ![y] = o] ELSE owner
        /\ binding' = binding \ {o} /\ UNCHANGED <<active, leased, count>>
        /\ y \in Attempt /\ o.by \in Peer
    BY <1>4, <2>1 DEF Bind, Bindable, AccessShape
  <2>3. DOMAIN owner' = Attempt
    BY <2>2 DEF AccessShape
  <2>4. \A x \in Attempt : owner'[x] # Unowned => owner'[x].lease[1] = x /\ owner'[x].by \in Peer
    BY <2>1, <2>2 DEF AccessShape
  <2> QED BY <2>2, <2>3, <2>4 DEF AccessShape
<1>5. ASSUME NEW op, NEW by, NEW to, NEW x, CallChecks(op, by, to, x) PROVE AccessShape'
  BY <1>5 DEF CallChecks, AccessShape
<1>6. CASE UNCHANGED <<active, leased, owner, binding, count>>
  BY <1>6 DEF AccessShape
<1> QED BY <1>1, <1>2, <1>3, <1>4, <1>5, <1>6
        DEF AccessNext, Grant, Revoke, Send, Build, accessVars

\* What a call that passes its check adds, and that its owner's lease is active.
LEMMA CallBegins ==
  ASSUME NEW op, NEW by, NEW to, NEW x \in Attempt, CallChecks(op, by, to, x)
  PROVE  \E new : /\ new.n = count /\ new.attempt = x /\ new.by = by
                  /\ Begun' = Begun \cup {new} /\ count' = count + 1
                  /\ OwnedBy(x, by) /\ owner[x].lease \in active
                  /\ UNCHANGED <<active, leased, owner, ended>>
<1> DEFINE new == [op |-> op, by |-> by, to |-> to, attempt |-> x, n |-> count]
<1>1. new.n = count /\ new.attempt = x /\ new.by = by
  OBVIOUS
<1>2. Begun' = Begun \cup {new}
  BY DEF CallChecks, Begun
<1>3. /\ count' = count + 1 /\ UNCHANGED <<active, leased, owner, ended>>
      /\ OwnedBy(x, by) /\ owner[x].lease \in active
  BY DEF CallChecks, Owns, OwnedBy
<1> QED BY <1>1, <1>2, <1>3

\* Every other step begins no call.
LEMMA OthersBeginNone ==
  ASSUME [AccessNext]_accessVars,
         ~ \E op \in {"send", "build"}, by, to \in Peer, x \in Attempt : CallChecks(op, by, to, x)
  PROVE  Begun' \subseteq Begun /\ count' = count
<1>1. ASSUME NEW m \in calls, Send(m) PROVE Begun' \subseteq Begun /\ count' = count
  BY <1>1 DEF Send, Begun
<1>2. ASSUME NEW m \in calls, Build(m) PROVE Begun' \subseteq Begun /\ count' = count
  BY <1>2 DEF Build, Begun
<1> QED BY <1>1, <1>2
        DEF AccessNext, LeaseAdmits, LeaseEnds, BindChecks, Bind, Grant, Revoke, accessVars, Begun

\* No lease comes back.
LEMMA EndsStay ==
  ASSUME AccessInv, [AccessNext]_accessVars PROVE LeasesEnd'
<1>1. ASSUME NEW x \in Attempt, LeaseAdmits(x) PROVE LeasesEnd'
  <2>1. /\ leased' = [leased EXCEPT ![x] = leased[x] + 1] /\ leased \in [Attempt -> Nat]
        /\ active' = active \cup {<<x, leased[x] + 1>>} /\ ended' = ended
    BY <1>1 DEF LeaseAdmits, AccessInv, AccessShape
  <2>2. \A y \in Attempt : leased[y] \in Nat /\ leased'[y] \in Nat /\ leased[y] <= leased'[y]
    BY <2>1
  <2>3. ASSUME NEW e \in ended
        PROVE  /\ e.lease \notin active' /\ e.at \in Nat
               /\ e.lease[1] \in Attempt => e.lease[2] \in Nat /\ e.lease[2] <= leased'[e.lease[1]]
    <3>1. /\ e.lease \notin active /\ e.at \in Nat
          /\ e.lease[1] \in Attempt => e.lease[2] \in Nat /\ e.lease[2] <= leased[e.lease[1]]
      BY <2>3 DEF AccessInv, LeasesEnd
    <3>2. e.lease # <<x, leased[x] + 1>>
      BY <2>2, <3>1
    <3> QED BY <2>1, <2>2, <3>1, <3>2
  <2> QED BY <2>1, <2>3 DEF LeasesEnd
<1>2. ASSUME NEW l \in active, LeaseEnds(l) PROVE LeasesEnd'
  BY <1>2 DEF LeaseEnds, LeasesEnd, AccessInv, AccessShape
<1>3. CASE UNCHANGED <<active, leased, ended>>
  BY <1>3 DEF LeasesEnd, AccessInv
<1> QED BY <1>1, <1>2, <1>3
        DEF AccessNext, BindChecks, Bind, Grant, Revoke, CallChecks, Send, Build, accessVars

\* Calls stay numbered apart, and whoever speaks for an attempt stays its owner.
LEMMA CallsStay ==
  ASSUME AccessInv, [AccessNext]_accessVars PROVE Numbered' /\ Voiced'
<1>1. count \in Nat /\ Numbered /\ Voiced
  BY DEF AccessInv, AccessShape
<1>2. \A x, by : OwnedBy(x, by) => OwnedBy(x, by)'
  BY OwnersStay DEF AccessInv, OwnedBy
<1>3. CASE Begun' \subseteq Begun /\ count' = count
  BY <1>1, <1>2, <1>3 DEF Numbered, Voiced
<1>4. ASSUME NEW op, NEW by, NEW to, NEW x \in Attempt, CallChecks(op, by, to, x)
      PROVE  Numbered' /\ Voiced'
  <2>1. PICK new : /\ new.n = count /\ new.attempt = x /\ new.by = by
                   /\ Begun' = Begun \cup {new} /\ count' = count + 1 /\ OwnedBy(x, by)
    BY <1>4, CallBegins
  <2>2. \A m \in Begun : m.n \in Nat /\ m.n < count' /\ m.n # new.n
    BY <1>1, <2>1 DEF Numbered
  <2>3. new.n \in Nat /\ new.n < count'
    BY <1>1, <2>1
  <2>4. Numbered'
    BY <1>1, <2>1, <2>2, <2>3 DEF Numbered
  <2>5. Voiced'
    BY <1>1, <1>2, <2>1 DEF Voiced
  <2> QED BY <2>4, <2>5
<1> QED BY <1>3, <1>4, OthersBeginNone

\* A lease that ends does so after the calls that passed their check; later
\* ones need a lease that is active.
LEMMA LapsedStays ==
  ASSUME AccessInv, [AccessNext]_accessVars PROVE Lapsed'
<1>1. \A m \in Begun : owner'[m.attempt] = owner[m.attempt]
  BY OwnersStay DEF AccessInv, Voiced, OwnedBy
<1>2. CASE Begun' \subseteq Begun /\ ended' = ended
  BY <1>1, <1>2 DEF AccessInv, Lapsed
<1>3. ASSUME NEW l \in active, LeaseEnds(l) PROVE Lapsed'
  <2>1. Begun' = Begun
    BY <1>3 DEF LeaseEnds, Begun
  <2>2. ended' = ended \cup {[lease |-> l, at |-> count]}
    BY <1>3 DEF LeaseEnds
  <2>3. \A m \in Begun : m.n < [lease |-> l, at |-> count].at
    BY DEF AccessInv, Numbered
  <2> QED BY <1>1, <2>1, <2>2, <2>3 DEF AccessInv, Lapsed
<1>4. ASSUME NEW op, NEW by, NEW to, NEW x \in Attempt, CallChecks(op, by, to, x) PROVE Lapsed'
  <2>1. PICK new : /\ new.attempt = x /\ Begun' = Begun \cup {new} /\ owner[x].lease \in active
                   /\ UNCHANGED <<owner, ended>>
    BY <1>4, CallBegins
  <2>2. \A e \in ended : owner[new.attempt].lease # e.lease
    BY <2>1 DEF AccessInv, LeasesEnd
  <2> QED BY <2>1, <2>2 DEF AccessInv, Lapsed
<1>5. \/ \E l \in active : LeaseEnds(l)
      \/ \E op \in {"send", "build"}, by, to \in Peer, x \in Attempt : CallChecks(op, by, to, x)
      \/ ended' = ended
  BY DEF AccessNext, LeaseAdmits, BindChecks, Bind, Grant, Revoke, Send, Build, accessVars
<1> QED BY <1>2, <1>3, <1>4, <1>5, OthersBeginNone

\* Only the calls that were past the owner check when the lease of an attempt
\* ended take effect after it, and an attempt speaks with one voice: for every
\* number of agents, attempts, leases and calls, however these race with binds,
\* revocations and ends of leases (CollaborationAccess.send, reproduce, mutate,
\* bind, require_owner).
THEOREM AccessAlwaysFollowsLeases == AccessSpec => []AccessFollowsLeases
<1>1. AccessInit => AccessInv
  BY DEF AccessInit, AccessInv, AccessShape, LeasesEnd, Begun, Numbered, Voiced, Lapsed
<1>2. AccessInv /\ [AccessNext]_accessVars => AccessInv'
  BY ShapeStays, EndsStay, CallsStay, LapsedStays DEF AccessInv
<1>3. AccessInv => AccessFollowsLeases
  <2> SUFFICES ASSUME AccessInv PROVE AccessFollowsLeases
    OBVIOUS
  <2>1. Effects \subseteq Begun /\ Effects \cup calls = Begun
    BY DEF Effects, Begun
  <2>2. AccessTypeOK
    BY <2>1 DEF AccessInv, AccessShape, Numbered, AccessTypeOK
  <2>3. OneVoicePerAttempt
    BY <2>1 DEF AccessInv, Voiced, OwnedBy, OneVoicePerAttempt
  <2>4. EndedStaysEnded
    BY <2>1 DEF AccessInv, Lapsed, EndedStaysEnded
  <2> QED BY <2>2, <2>3, <2>4 DEF AccessFollowsLeases
<1> QED BY <1>1, <1>2, <1>3, PTL DEF AccessSpec

-----------------------------------------------------------------------------
(* The refinement journal and the memory adapters. *)

Content == Proposal \cup {Original}

Receipt == [prior : Content \cup {"none"}, result : Content \cup {"none"}]

State == {"proposed", "canary_authorized", "rejected", "canary_passed", "canary_failed",
          "approved", "promotion_authorized", "promoted", "rollback_authorized", "rolled_back"}

Event == [to : State, by : Agent \cup Adapter \cup {"anyone"}, kinds : SUBSET Kind,
          receipt : Receipt]

Call == [step : {"idle", "mutate", "record"}, p : Proposal \cup {"none"},
         op : {"promote", "rollback", "none"}, prior : Content \cup {"none"},
         receipt : Receipt]

Operation == {"promote", "rollback"} \X Proposal

RefineShape ==
    /\ proposals \subseteq Proposal
    /\ events \in [Proposal -> Seq(Event)]
    /\ memory \in Content
    /\ DOMAIN answers \subseteq Operation
    /\ \A k \in DOMAIN answers : answers[k] \in [prior : Content, result : Content]
    /\ applied \in Seq(Operation)
    /\ adapter \in [Adapter -> Call]
    /\ \A p \in Proposal : events[p] # <<>> => p \in proposals

\* What the journal holds of a proposal that came as far as each state.
Passed(p) == \E i \in DOMAIN events[p] : events[p][i].to = "canary_passed"
Approved(p) ==
    \E i \in DOMAIN events[p] : events[p][i].to = "approved" /\ events[p][i].by # Proposer[p]
Evidenced(p) ==
    \E i \in DOMAIN events[p] :
        /\ events[p][i].to = "promotion_authorized"
        /\ events[p][i].by \in Approvers \ {Proposer[p]}
        /\ {"verified", "canary", "approval"} \subseteq events[p][i].kinds
        /\ p \in Executable => "security" \in events[p][i].kinds

Reverting == {"rollback_authorized", "rolled_back"}
Done == {"promoted"} \cup Reverting
Released == {"promotion_authorized"} \cup Done
Approving == {"approved"} \cup Released
Canaried == {"canary_passed"} \cup Approving

JournalGoverned ==
    \A p \in Proposal :
        /\ StateOf(p) \in Canaried => Passed(p)
        /\ StateOf(p) \in Approving => Approved(p)
        /\ StateOf(p) \in Released => Evidenced(p)

\* The journal has a promotion, or a rollback, when the state says so.
RecordedSince ==
    \A p \in Proposal :
        /\ StateOf(p) \in Done => \E i \in DOMAIN events[p] : events[p][i].to = "promoted"
        /\ StateOf(p) = "rolled_back" =>
             \E i \in DOMAIN events[p] : events[p][i].to = "rolled_back"

\* A receipt in the journal is the service's answer.
TrueEvent(p, e) ==
    /\ e.to = "promoted" =>
         <<"promote", p>> \in DOMAIN answers /\ e.receipt = answers[<<"promote", p>>]
    /\ e.to = "rolled_back" =>
         /\ <<"rollback", p>> \in DOMAIN answers
         /\ e.receipt.result = answers[<<"rollback", p>>].result

RecordedTruly == \A p \in Proposal : \A i \in DOMAIN events[p] : TrueEvent(p, events[p][i])

\* The service: a content is there only since its promotion, a promotion's
\* answer names another content as the one before, and a rollback's result is
\* that one.
ServiceTrue ==
    /\ \A p \in Proposal : memory = p => <<"promote", p>> \in DOMAIN answers
    /\ \A p \in Proposal : <<"promote", p>> \in DOMAIN answers =>
         /\ answers[<<"promote", p>>].prior # p
         /\ \A q \in Proposal : answers[<<"promote", p>>].prior = q =>
              <<"promote", q>> \in DOMAIN answers
    /\ \A p \in Proposal : <<"rollback", p>> \in DOMAIN answers =>
         /\ <<"promote", p>> \in DOMAIN answers
         /\ answers[<<"rollback", p>>].result = answers[<<"promote", p>>].prior

\* Every operation the service performed has its answer, and was of a released
\* proposal.
AppliedKnown ==
    /\ \A i \in DOMAIN applied :
         applied[i] \in DOMAIN answers /\ StateOf(applied[i][2]) \in Released
    /\ AppliedOnce

\* An adapter works on a released proposal, and carries the service's answer.
CallOK(c) ==
    c.step # "idle" =>
        /\ c.p \in Proposal /\ c.op \in {"promote", "rollback"}
        /\ StateOf(c.p) \in (IF c.op = "promote" THEN Released ELSE Reverting)
        /\ c.step = "record" =>
             /\ <<c.op, c.p>> \in DOMAIN answers
             /\ c.receipt.result = answers[<<c.op, c.p>>].result
             /\ c.op = "promote" => c.receipt = answers[<<c.op, c.p>>]

AdaptersTrue == \A a \in Adapter : CallOK(adapter[a])

RefineInv ==
    /\ RefineShape /\ JournalGoverned /\ RecordedSince /\ RecordedTruly
    /\ ServiceTrue /\ AppliedKnown /\ AdaptersTrue

\* The states of a proposal only move on: what was released stays released.
LEMMA FollowsOn ==
  ASSUME NEW s \in State \cup {"none"}, NEW to \in Follows[s]
  PROVE  /\ to \in State
         /\ to \in Canaried => to = "canary_passed" \/ s \in Canaried
         /\ to \in Approving => to = "approved" \/ s \in Approving
         /\ to \in Released => to = "promotion_authorized" \/ s \in Released
         /\ to \in Done => to = "promoted" \/ s \in Done
         /\ s \in Released => to \in Released
         /\ s \in Reverting => to \in Reverting
  BY DEF Follows, State, Canaried, Approving, Released, Done, Reverting

\* The state of a proposal is the last event's.
LEMMA StateIs ==
  ASSUME RefineShape, NEW p \in Proposal
  PROVE  /\ StateOf(p) \in State \cup {"none"}
         /\ events[p] = <<>> => StateOf(p) = "none"
<1>1. events[p] \in Seq(Event)
  BY DEF RefineShape
<1>2. CASE events[p] # <<>>
  <2>1. Len(events[p]) \in Nat \ {0} /\ events[p] \in [1..Len(events[p]) -> Event]
    BY <1>1, <1>2
  <2>2. events[p][Len(events[p])] \in Event
    BY <2>1
  <2> QED BY <1>2, <2>2 DEF StateOf, Last, Event
<1> QED BY <1>2 DEF StateOf

\* One more event of p: the others stay where they are and it is the last.
Extended(p, e) ==
    /\ events' \in [Proposal -> Seq(Event)]
    /\ \A q \in Proposal \ {p} : events'[q] = events[q] /\ StateOf(q)' = StateOf(q)
    /\ \A i \in DOMAIN events[p] : i \in DOMAIN events'[p] /\ events'[p][i] = events[p][i]
    /\ \E n \in DOMAIN events'[p] :
         events'[p][n] = e /\ DOMAIN events'[p] = DOMAIN events[p] \cup {n}
    /\ StateOf(p)' = e.to
    /\ events'[p] # <<>>

\* Appending an event extends the journal.
LEMMA AppendedExtends ==
  ASSUME RefineShape, NEW p \in Proposal, NEW e \in Event,
         events' = [events EXCEPT ![p] = Append(@, e)]
  PROVE  Extended(p, e)
<1>1. events[p] \in Seq(Event) /\ Len(events[p]) \in Nat
  BY DEF RefineShape
<1>2. events'[p] = Append(events[p], e)
  BY DEF RefineShape
<1>3. \A q \in Proposal \ {p} : events'[q] = events[q]
  BY DEF RefineShape
<1>4. /\ events'[p] \in Seq(Event) /\ Len(events'[p]) = Len(events[p]) + 1
      /\ events'[p][Len(events[p]) + 1] = e
      /\ \A i \in 1..Len(events[p]) : events'[p][i] = events[p][i]
  BY <1>1, <1>2
<1>5. events' \in [Proposal -> Seq(Event)]
  BY <1>4 DEF RefineShape
<1>6. \A q \in Proposal \ {p} : StateOf(q)' = StateOf(q)
  BY <1>3 DEF StateOf
<1>7. DOMAIN events[p] = 1..Len(events[p]) /\ DOMAIN events'[p] = 1..(Len(events[p]) + 1)
  BY <1>1, <1>4
<1>8. events'[p] # <<>>
  BY <1>1, <1>4
<1>9. StateOf(p)' = e.to
  BY <1>4, <1>8 DEF StateOf, Last
<1>10. \A i \in DOMAIN events[p] : i \in DOMAIN events'[p] /\ events'[p][i] = events[p][i]
  BY <1>1, <1>4, <1>7
<1>11. /\ Len(events[p]) + 1 \in DOMAIN events'[p]
       /\ DOMAIN events'[p] = DOMAIN events[p] \cup {Len(events[p]) + 1}
  BY <1>1, <1>7
<1> QED BY <1>3, <1>4, <1>5, <1>6, <1>8, <1>9, <1>10, <1>11 DEF Extended

\* An event that carries what its state asks for.
Justified(p, e) ==
    /\ e.to \in Follows[StateOf(p)]
    /\ e.to = "approved" => e.by # Proposer[p]
    /\ e.to = "promotion_authorized" =>
         /\ e.by \in Approvers \ {Proposer[p]}
         /\ {"verified", "canary", "approval"} \subseteq e.kinds
         /\ p \in Executable => "security" \in e.kinds
    /\ TrueEvent(p, e)

\* A justified event keeps the journal governed and true, and everyone who
\* works on a released proposal keeps working on one.
LEMMA EventKeeps ==
  ASSUME RefineInv, NEW p \in Proposal, NEW e \in Event, Extended(p, e), Justified(p, e),
         UNCHANGED service
  PROVE  /\ JournalGoverned' /\ RecordedSince' /\ RecordedTruly' /\ ServiceTrue' /\ AppliedKnown'
         /\ \A c : CallOK(c) => CallOK(c)'
<1>1. StateOf(p) \in State \cup {"none"} /\ RefineShape
  BY StateIs DEF RefineInv
<1>2. /\ e.to \in State
      /\ e.to \in Canaried => e.to = "canary_passed" \/ StateOf(p) \in Canaried
      /\ e.to \in Approving => e.to = "approved" \/ StateOf(p) \in Approving
      /\ e.to \in Released => e.to = "promotion_authorized" \/ StateOf(p) \in Released
      /\ e.to \in Done => e.to = "promoted" \/ StateOf(p) \in Done
      /\ StateOf(p) \in Released => e.to \in Released
      /\ StateOf(p) \in Reverting => e.to \in Reverting
  BY <1>1, FollowsOn DEF Justified
<1>3. PICK n \in DOMAIN events'[p] :
        events'[p][n] = e /\ DOMAIN events'[p] = DOMAIN events[p] \cup {n}
  BY DEF Extended
<1>4. /\ \A q \in Proposal \ {p} : events'[q] = events[q] /\ StateOf(q)' = StateOf(q)
      /\ \A i \in DOMAIN events[p] : i \in DOMAIN events'[p] /\ events'[p][i] = events[p][i]
      /\ StateOf(p)' = e.to
  BY DEF Extended
<1>5. ASSUME NEW q \in Proposal
      PROVE  /\ StateOf(q)' \in Canaried => Passed(q)'
             /\ StateOf(q)' \in Approving => Approved(q)'
             /\ StateOf(q)' \in Released => Evidenced(q)'
  <2>1. CASE q # p
    BY <1>4, <1>5, <2>1 DEF RefineInv, JournalGoverned, Passed, Approved, Evidenced
  <2>2. CASE q = p
    <3>1. /\ Passed(p) => Passed(p)'
          /\ Approved(p) => Approved(p)'
          /\ Evidenced(p) => Evidenced(p)'
      BY <1>4 DEF Passed, Approved, Evidenced
    <3>2. /\ e.to = "canary_passed" => Passed(p)'
          /\ e.to = "approved" => Approved(p)'
          /\ e.to = "promotion_authorized" => Evidenced(p)'
      BY <1>3 DEF Passed, Approved, Evidenced, Justified
    <3> QED BY <1>2, <1>4, <2>2, <3>1, <3>2 DEF RefineInv, JournalGoverned
  <2> QED BY <2>1, <2>2
<1>6. ASSUME NEW q \in Proposal
      PROVE  /\ StateOf(q)' \in Done => \E i \in DOMAIN events'[q] : events'[q][i].to = "promoted"
             /\ StateOf(q)' = "rolled_back" =>
                  \E i \in DOMAIN events'[q] : events'[q][i].to = "rolled_back"
  <2>1. CASE q # p
    BY <1>4, <1>6, <2>1 DEF RefineInv, RecordedSince
  <2>2. CASE q = p
    BY <1>2, <1>3, <1>4, <2>2 DEF RefineInv, RecordedSince
  <2> QED BY <2>1, <2>2
<1>7. UNCHANGED answers /\ UNCHANGED memory /\ UNCHANGED applied
  BY DEF service
<1>8. ASSUME NEW q \in Proposal, NEW i \in DOMAIN events'[q]
      PROVE  TrueEvent(q, events[q][i])'
  <2>1. CASE i \in DOMAIN events[q] /\ events'[q][i] = events[q][i]
    <3>1. TrueEvent(q, events[q][i])
      BY <2>1 DEF RefineInv, RecordedTruly
    <3> QED BY <1>7, <2>1, <3>1 DEF TrueEvent
  <2>2. CASE q = p /\ events'[q][i] = e
    BY <1>7, <2>2 DEF TrueEvent, Justified
  <2> QED BY <1>3, <1>4, <1>8, <2>1, <2>2
<1>9. \A q \in Proposal : /\ StateOf(q) \in Released => StateOf(q)' \in Released
                          /\ StateOf(q) \in Reverting => StateOf(q)' \in Reverting
  BY <1>2, <1>4
<1>10. AppliedKnown'
  <2>1. \A i \in DOMAIN applied : applied[i][2] \in Proposal
    <3>1. applied \in Seq(Operation)
      BY <1>1 DEF RefineShape
    <3>2. \A i \in DOMAIN applied : applied[i] \in Operation
      BY <3>1
    <3> QED BY <3>2 DEF Operation
  <2> QED BY <1>7, <1>9, <2>1 DEF RefineInv, AppliedKnown, AppliedOnce
<1>11. \A c : CallOK(c) => CallOK(c)'
  BY <1>7, <1>9 DEF CallOK
<1>12. ServiceTrue'
  BY <1>7 DEF RefineInv, ServiceTrue
<1> QED BY <1>5, <1>6, <1>8, <1>10, <1>11, <1>12 DEF JournalGoverned, RecordedSince, RecordedTruly

\* A step that leaves the journal and the service alone keeps what is known of
\* them and of every call.
LEMMA CallsKeep ==
  ASSUME RefineInv, UNCHANGED <<events, service>>
  PROVE  /\ JournalGoverned' /\ RecordedSince' /\ RecordedTruly' /\ ServiceTrue' /\ AppliedKnown'
         /\ \A c : CallOK(c) => CallOK(c)'
<1>1. \A p : StateOf(p)' = StateOf(p)
  BY DEF StateOf
<1>2. UNCHANGED answers /\ UNCHANGED memory /\ UNCHANGED applied
  BY DEF service
<1>3. JournalGoverned' /\ RecordedSince' /\ RecordedTruly'
  BY <1>1, <1>2 DEF RefineInv, JournalGoverned, Passed, Approved, Evidenced, RecordedSince,
                    RecordedTruly, TrueEvent
<1>4. ServiceTrue' /\ AppliedKnown'
  BY <1>1, <1>2 DEF RefineInv, ServiceTrue, AppliedKnown, AppliedOnce
<1>5. \A c : CallOK(c) => CallOK(c)'
  BY <1>1, <1>2 DEF CallOK
<1> QED BY <1>3, <1>4, <1>5

\* A decision in the journal: who may take it and what it carries.
LEMMA DecisionKeeps ==
  ASSUME RefineInv, NEW p \in Proposal, NEW e \in Event, Extended(p, e), Justified(p, e),
         UNCHANGED <<service, adapter>>, proposals \subseteq proposals',
         proposals' \subseteq Proposal, p \in proposals'
  PROVE  RefineInv'
<1>1. /\ JournalGoverned' /\ RecordedSince' /\ RecordedTruly' /\ ServiceTrue' /\ AppliedKnown'
      /\ \A c : CallOK(c) => CallOK(c)'
  BY EventKeeps DEF service
<1>2. AdaptersTrue'
  BY <1>1 DEF RefineInv, AdaptersTrue
<1>3. RefineShape'
  <2>1. events' \in [Proposal -> Seq(Event)]
    BY DEF Extended
  <2>2. \A q \in Proposal : events'[q] # <<>> => q \in proposals'
    BY DEF Extended, RefineInv, RefineShape
  <2> QED BY <2>1, <2>2 DEF RefineInv, RefineShape, service
<1> QED BY <1>1, <1>2, <1>3 DEF RefineInv

\* The journal's own calls: propose, decide, authorize, record a canary.
LEMMA JournalCallsKeep ==
  ASSUME RefineInv, NEW p \in Proposal,
         \/ Propose(p) \/ ProposeDies(p)
         \/ \E passed \in BOOLEAN : RecordCanary(p, passed)
         \/ \E by \in Agent :
              \/ \E to \in {"canary_authorized", "approved", "rejected", "rollback_authorized"} :
                   Decide(p, by, to)
              \/ \E kinds \in {Kind, Kind \ {"security"}, {"reward"}} :
                   AuthorizePromotion(p, by, kinds)
  PROVE  RefineInv'
<1>1. RefineShape /\ NoReceipt \in Receipt /\ Proposer[p] \in Agent
  BY RefinementAssumption DEF RefineInv, NoReceipt, Receipt
<1>2. ASSUME Propose(p) PROVE RefineInv'
  <2> DEFINE e == [to |-> "proposed", by |-> Proposer[p], kinds |-> {}, receipt |-> NoReceipt]
  <2>1. e \in Event /\ e.to = "proposed"
    BY <1>1 DEF Event, State
  <2>2. events[p] = <<>>
    BY <1>1, <1>2 DEF Propose, RefineShape
  <2>3. Append(events[p], e) = <<e>>
    BY <2>2
  <2>4. events' = [events EXCEPT ![p] = Append(@, e)]
    BY <1>2, <2>3 DEF Propose
  <2> HIDE DEF e
  <2>5. Extended(p, e)
    BY <1>1, <2>1, <2>4, AppendedExtends
  <2>6. StateOf(p) = "none"
    BY <1>1, <2>2, StateIs
  <2>7. Justified(p, e)
    BY <2>1, <2>6 DEF Justified, TrueEvent, Follows
  <2> QED BY <1>1, <1>2, <2>1, <2>5, <2>7, DecisionKeeps DEF Propose, RefineShape
<1>3. ASSUME ProposeDies(p) PROVE RefineInv'
  <2>1. UNCHANGED <<events, service, adapter>> /\ proposals' = proposals \cup {p}
    BY <1>3 DEF ProposeDies
  <2>2. RefineShape'
    BY <1>1, <2>1 DEF RefineShape, service
  <2> QED BY <2>1, <2>2, CallsKeep DEF RefineInv, AdaptersTrue
<1>4. ASSUME NEW e \in Event, p \in proposals, UNCHANGED <<proposals, service, adapter>>,
             events' = [events EXCEPT ![p] = Append(@, e)], Justified(p, e)
      PROVE  RefineInv'
  <2>1. Extended(p, e)
    BY <1>1, <1>4, AppendedExtends
  <2> QED BY <1>1, <1>4, <2>1, DecisionKeeps DEF RefineShape
<1>5. ASSUME NEW passed \in BOOLEAN, RecordCanary(p, passed) PROVE RefineInv'
  <2> DEFINE to == IF passed THEN "canary_passed" ELSE "canary_failed"
             e == [to |-> to, by |-> "anyone", kinds |-> {}, receipt |-> NoReceipt]
  <2>1. e \in Event /\ e.to = to
    BY <1>1 DEF Event, State
  <2>2. to \in {"canary_passed", "canary_failed"}
    OBVIOUS
  <2>3. /\ p \in proposals /\ UNCHANGED <<proposals, service, adapter>>
        /\ events' = [events EXCEPT ![p] = Append(@, e)] /\ to \in Follows[StateOf(p)]
    BY <1>5 DEF RecordCanary, Records
  <2> HIDE DEF e, to
  <2>4. Justified(p, e)
    BY <2>1, <2>2, <2>3 DEF Justified, TrueEvent
  <2> QED BY <1>4, <2>1, <2>3, <2>4
<1>6. ASSUME NEW by \in Agent,
             NEW to \in {"canary_authorized", "approved", "rejected", "rollback_authorized"},
             Decide(p, by, to)
      PROVE  RefineInv'
  <2> DEFINE e == [to |-> to, by |-> by, kinds |-> {}, receipt |-> NoReceipt]
  <2>1. e \in Event /\ e.to = to /\ e.by = by
    BY <1>1, <1>6 DEF Event, State
  <2>2. /\ p \in proposals /\ UNCHANGED <<proposals, service, adapter>>
        /\ events' = [events EXCEPT ![p] = Append(@, e)] /\ to \in Follows[StateOf(p)]
        /\ by # Proposer[p]
    BY <1>6 DEF Decide, Records, Independent
  <2> HIDE DEF e
  <2>3. Justified(p, e)
    BY <1>6, <2>1, <2>2 DEF Justified, TrueEvent
  <2> QED BY <1>4, <2>1, <2>2, <2>3
<1>7. ASSUME NEW by \in Agent, NEW kinds \in SUBSET Kind, AuthorizePromotion(p, by, kinds)
      PROVE  RefineInv'
  <2> DEFINE e == [to |-> "promotion_authorized", by |-> by, kinds |-> kinds, receipt |-> NoReceipt]
  <2>1. e \in Event /\ e.to = "promotion_authorized" /\ e.by = by /\ e.kinds = kinds
    BY <1>1, <1>7 DEF Event, State
  <2>2. /\ p \in proposals /\ UNCHANGED <<proposals, service, adapter>>
        /\ events' = [events EXCEPT ![p] = Append(@, e)]
        /\ "promotion_authorized" \in Follows[StateOf(p)]
        /\ by \in Approvers \ {Proposer[p]} /\ Governed(p, kinds)
    BY <1>7 DEF AuthorizePromotion, Records, Independent
  <2> HIDE DEF e
  <2>3. Justified(p, e)
    BY <2>1, <2>2 DEF Justified, TrueEvent, Governed
  <2> QED BY <1>4, <2>1, <2>2, <2>3
<1>8. {"reward"} \in SUBSET Kind /\ Kind \in SUBSET Kind /\ Kind \ {"security"} \in SUBSET Kind
  BY DEF Kind
<1> QED BY <1>2, <1>3, <1>5, <1>6, <1>7, <1>8

\* The receipt of a promotion in the journal is the service's answer.
LEMMA PromotedReceipt ==
  ASSUME RefineInv, NEW p \in Proposal, StateOf(p) \in Done
  PROVE  /\ <<"promote", p>> \in DOMAIN answers
         /\ ReceiptOf(p, "promoted") = answers[<<"promote", p>>]
<1> DEFINE i == CHOOSE i \in DOMAIN events[p] : events[p][i].to = "promoted"
<1>1. i \in DOMAIN events[p] /\ events[p][i].to = "promoted"
  BY DEF RefineInv, RecordedSince
<1>2. ReceiptOf(p, "promoted") = events[p][i].receipt
  BY DEF ReceiptOf
<1> HIDE DEF i
<1> QED BY <1>1, <1>2 DEF RefineInv, RecordedTruly, TrueEvent

\* So is the result a recorded rollback names.
LEMMA RolledBackReceipt ==
  ASSUME RefineInv, NEW p \in Proposal, StateOf(p) = "rolled_back"
  PROVE  /\ <<"rollback", p>> \in DOMAIN answers
         /\ ReceiptOf(p, "rolled_back").result = answers[<<"rollback", p>>].result
<1> DEFINE i == CHOOSE i \in DOMAIN events[p] : events[p][i].to = "rolled_back"
<1>1. i \in DOMAIN events[p] /\ events[p][i].to = "rolled_back"
  BY DEF RefineInv, RecordedSince
<1>2. ReceiptOf(p, "rolled_back") = events[p][i].receipt
  BY DEF ReceiptOf
<1> HIDE DEF i
<1> QED BY <1>1, <1>2 DEF RefineInv, RecordedTruly, TrueEvent

\* A step of one adapter that changes neither journal nor service.
LEMMA AdapterAlone ==
  ASSUME RefineInv, NEW a \in Adapter, NEW c \in Call, CallOK(c),
         adapter' = [adapter EXCEPT ![a] = c], UNCHANGED <<journalState, service>>
  PROVE  RefineInv'
<1>1. UNCHANGED <<proposals, events, service>>
  BY DEF journalState
<1>2. RefineShape'
  BY <1>1 DEF RefineInv, RefineShape, service
<1>3. \A b \in Adapter : CallOK(adapter'[b])
  BY DEF RefineInv, RefineShape, AdaptersTrue
<1>4. AdaptersTrue'
  BY <1>1, <1>3, CallsKeep DEF AdaptersTrue
<1> QED BY <1>1, <1>2, <1>4, CallsKeep DEF RefineInv

\* Idle is a call that promises nothing.
LEMMA IdleCall == Idle \in Call /\ CallOK(Idle)
  BY DEF Idle, Call, CallOK, NoReceipt, Receipt

\* An adapter starts on what the journal has released.
LEMMA StartsKeep ==
  ASSUME RefineInv, NEW a \in Adapter, NEW op \in {"promote", "rollback"}, NEW p \in Proposal,
         AdapterStarts(a, op, p)
  PROVE  RefineInv'
<1> DEFINE c == [step |-> "mutate", p |-> p, op |-> op,
                 prior |-> IF op = "promote" THEN memory ELSE ReceiptOf(p, "promoted").result,
                 receipt |-> NoReceipt]
<1>1. adapter' = [adapter EXCEPT ![a] = c] /\ UNCHANGED <<journalState, service>>
  BY DEF AdapterStarts
<1>2. StateOf(p) \in (IF op = "promote" THEN Released ELSE Reverting)
  BY DEF AdapterStarts, Authorized, Released, Reverting
<1>3. op = "rollback" => ReceiptOf(p, "promoted").result \in Content
  BY <1>2, PromotedReceipt DEF RefineInv, RefineShape, Done
<1>4. c.prior \in Content
  BY <1>3 DEF RefineInv, RefineShape
<1>5. c \in Call
  BY <1>4 DEF Call, NoReceipt, Receipt
<1>6. c.step = "mutate" /\ c.p = p /\ c.op = op
  OBVIOUS
<1> HIDE DEF c
<1>7. CallOK(c)
  BY <1>2, <1>6 DEF CallOK
<1> QED BY <1>1, <1>5, <1>7, AdapterAlone

\* The service answers with the content before the change.
Answer(c) == [prior |-> memory, result |-> NewContent(c)]

\* What the service does with a key it has not seen.
Performs(c) ==
    /\ memory' = NewContent(c)
    /\ answers' = WithAnswer(<<c.op, c.p>>, Answer(c))
    /\ applied' = Append(applied, <<c.op, c.p>>)

\* A first change of the memory keeps what is known of the service.
LEMMA PerformKeeps ==
  ASSUME RefineInv, NEW c \in Call, c.step = "mutate", CallOK(c),
         <<c.op, c.p>> \notin DOMAIN answers, Performs(c), UNCHANGED journalState
  PROVE  /\ ServiceTrue' /\ AppliedKnown' /\ RecordedTruly' /\ JournalGoverned' /\ RecordedSince'
         /\ memory' \in Content
         /\ DOMAIN answers' \subseteq Operation
         /\ \A k \in DOMAIN answers' : answers'[k] \in [prior : Content, result : Content]
         /\ applied' \in Seq(Operation)
         /\ DOMAIN answers' = DOMAIN answers \cup {<<c.op, c.p>>}
         /\ \A k \in DOMAIN answers : answers'[k] = answers[k]
         /\ answers'[<<c.op, c.p>>] = Answer(c)
<1>1. /\ c.p \in Proposal /\ c.op \in {"promote", "rollback"}
      /\ StateOf(c.p) \in (IF c.op = "promote" THEN Released ELSE Reverting)
      /\ RefineShape /\ ServiceTrue /\ AppliedKnown
  BY DEF CallOK, RefineInv
<1> DEFINE key == <<c.op, c.p>>
<1>2. /\ DOMAIN answers' = DOMAIN answers \cup {key}
      /\ \A k \in DOMAIN answers : answers'[k] = answers[k]
      /\ answers'[key] = Answer(c)
  BY DEF Performs, WithAnswer
<1>3. key \in Operation
  BY <1>1 DEF Operation
<1>4. /\ c.op = "promote" => NewContent(c) = c.p
      /\ c.op = "rollback" =>
           /\ <<"promote", c.p>> \in DOMAIN answers
           /\ NewContent(c) = answers[<<"promote", c.p>>].prior
  BY <1>1, PromotedReceipt DEF NewContent, Done
<1>5. NewContent(c) \in Content
  BY <1>1, <1>4 DEF RefineShape, Content
<1>6. Answer(c) \in [prior : Content, result : Content]
  BY <1>1, <1>5 DEF Answer, RefineShape
<1>7. /\ memory' \in Content
      /\ DOMAIN answers' \subseteq Operation
      /\ \A k \in DOMAIN answers' : answers'[k] \in [prior : Content, result : Content]
  BY <1>1, <1>2, <1>3, <1>5, <1>6 DEF RefineShape, Performs
<1>8. applied' \in Seq(Operation) /\ Len(applied) \in Nat /\ applied \in Seq(Operation)
  BY <1>1, <1>3 DEF RefineShape, Performs
<1>9. /\ UNCHANGED events /\ \A p : StateOf(p)' = StateOf(p)
  BY DEF journalState, StateOf
<1>10. AppliedKnown'
  <2>1. /\ DOMAIN applied = 1..Len(applied) /\ DOMAIN applied' = 1..(Len(applied) + 1)
        /\ \A i \in 1..Len(applied) : applied'[i] = applied[i]
        /\ applied'[Len(applied) + 1] = key
    BY <1>3, <1>8 DEF Performs
  <2>2. PICK n : n = Len(applied) + 1
    OBVIOUS
  <2>3. /\ DOMAIN applied' = DOMAIN applied \cup {n}
        /\ \A i \in DOMAIN applied : applied'[i] = applied[i]
        /\ applied'[n] = key
    BY <1>8, <2>1, <2>2
  <2>4. \A i \in DOMAIN applied' : applied'[i] \in DOMAIN answers'
    BY <1>1, <1>2, <2>3 DEF AppliedKnown
  <2>5. key[2] = c.p /\ StateOf(c.p) \in Released
    BY <1>1 DEF Released, Reverting, Done
  <2>6. ASSUME NEW i \in DOMAIN applied' PROVE StateOf(applied[i][2])' \in Released
    <3>1. StateOf(applied'[i][2]) \in Released
      BY <1>1, <2>3, <2>5 DEF AppliedKnown
    <3> QED BY <1>9, <3>1 DEF StateOf
  <2>7. \A i \in DOMAIN applied : applied[i] # key
    BY <1>1 DEF AppliedKnown
  <2>8. AppliedOnce'
    BY <1>1, <2>3, <2>7 DEF AppliedKnown, AppliedOnce
  <2> QED BY <2>4, <2>6, <2>8 DEF AppliedKnown
<1>11. RecordedTruly'
  <2>1. ASSUME NEW p \in Proposal, NEW i \in DOMAIN events[p] PROVE TrueEvent(p, events[p][i])'
    <3>1. TrueEvent(p, events[p][i])
      BY DEF RefineInv, RecordedTruly
    <3> QED BY <1>2, <1>9, <3>1 DEF TrueEvent
  <2> QED BY <1>9, <2>1 DEF RecordedTruly
<1>12. JournalGoverned' /\ RecordedSince'
  BY <1>9 DEF RefineInv, JournalGoverned, Passed, Approved, Evidenced, RecordedSince
<1>13. \A p \in Proposal : <<"promote", p>> \in DOMAIN answers => <<"promote", p>> \in DOMAIN answers'
  BY <1>2
<1>14. \A p \in Proposal : memory' = p => <<"promote", p>> \in DOMAIN answers'
  <2>1. CASE c.op = "promote"
    BY <1>2, <1>4, <2>1 DEF Performs
  <2>2. CASE c.op = "rollback"
    BY <1>1, <1>4, <1>13, <2>2 DEF Performs, ServiceTrue
  <2> QED BY <1>1, <2>1, <2>2
<1>15. ASSUME NEW p \in Proposal, <<"promote", p>> \in DOMAIN answers'
       PROVE  /\ answers'[<<"promote", p>>].prior # p
              /\ \A q \in Proposal : answers'[<<"promote", p>>].prior = q =>
                   <<"promote", q>> \in DOMAIN answers'
  <2>1. CASE <<"promote", p>> \in DOMAIN answers
    BY <1>1, <1>2, <1>13, <1>15, <2>1 DEF ServiceTrue
  <2>2. CASE <<"promote", p>> \notin DOMAIN answers
    <3>1. <<"promote", p>> = key
      BY <1>2, <1>15, <2>2
    <3>2. answers'[<<"promote", p>>].prior = memory
      BY <1>2, <3>1 DEF Answer
    <3>3. memory # p
      BY <1>1, <2>2 DEF ServiceTrue
    <3> QED BY <1>1, <1>13, <3>2, <3>3 DEF ServiceTrue
  <2> QED BY <2>1, <2>2
<1>16. ASSUME NEW p \in Proposal, <<"rollback", p>> \in DOMAIN answers'
       PROVE  /\ <<"promote", p>> \in DOMAIN answers'
              /\ answers'[<<"rollback", p>>].result = answers'[<<"promote", p>>].prior
  <2>1. CASE <<"rollback", p>> \in DOMAIN answers
    BY <1>1, <1>2, <1>16, <2>1 DEF ServiceTrue
  <2>2. CASE <<"rollback", p>> \notin DOMAIN answers
    <3>1. <<"rollback", p>> = key
      BY <1>2, <1>16, <2>2
    <3>2. c.op = "rollback" /\ c.p = p
      BY <3>1
    <3>3. answers'[<<"rollback", p>>].result = NewContent(c)
      BY <1>2, <3>1 DEF Answer
    <3> QED BY <1>2, <1>4, <3>2, <3>3
  <2> QED BY <2>1, <2>2
<1>17. ServiceTrue'
  BY <1>14, <1>15, <1>16 DEF ServiceTrue
<1> QED BY <1>2, <1>7, <1>8, <1>10, <1>11, <1>12, <1>17

\* The call that has its answer.
Carrying(c, answer) ==
    [c EXCEPT !.step = "record",
              !.receipt = [prior |-> PriorIn(answer, c), result |-> answer.result]]

\* It carries the answer itself, since an answer names what was there before.
LEMMA CarriesAnswer ==
  ASSUME NEW c \in Call, NEW answer \in [prior : Content, result : Content]
  PROVE  /\ Carrying(c, answer) \in Call
         /\ Carrying(c, answer).step = "record"
         /\ Carrying(c, answer).p = c.p /\ Carrying(c, answer).op = c.op
         /\ Carrying(c, answer).receipt = answer
<1>1. answer.prior # "none" /\ answer.prior \in Content /\ answer.result \in Content
  BY RefinementAssumption DEF Content
<1>2. PriorIn(answer, c) = answer.prior
  BY <1>1 DEF PriorIn
<1>3. [prior |-> answer.prior, result |-> answer.result] = answer
  OBVIOUS
<1>4. answer \in Receipt
  BY <1>1 DEF Receipt
<1> QED BY <1>2, <1>3, <1>4 DEF Carrying, Call

\* compare_and_set and restore: answered before, performed now, or refused.
LEMMA MutatesKeep ==
  ASSUME ReportsPrior, RefineInv, NEW a \in Adapter, AdapterMutates(a) PROVE RefineInv'
<1> DEFINE c == adapter[a]
           key == <<c.op, c.p>>
<1>1. /\ c \in Call /\ CallOK(c) /\ c.step = "mutate" /\ UNCHANGED journalState
      /\ adapter \in [Adapter -> Call]
  BY DEF RefineInv, RefineShape, AdaptersTrue, AdapterMutates
<1>2. CASE /\ key \in DOMAIN answers /\ UNCHANGED service
           /\ adapter' = [adapter EXCEPT ![a] = Carrying(c, answers[key])]
  <2>1. answers[key] \in [prior : Content, result : Content]
    BY <1>2 DEF RefineInv, RefineShape
  <2> DEFINE d == Carrying(c, answers[key])
  <2>2. d \in Call /\ d.step = "record" /\ d.p = c.p /\ d.op = c.op /\ d.receipt = answers[key]
    BY <1>1, <2>1, CarriesAnswer
  <2>3. adapter' = [adapter EXCEPT ![a] = d]
    BY <1>2
  <2> HIDE DEF d
  <2>4. CallOK(d)
    BY <1>1, <1>2, <2>2 DEF CallOK
  <2> QED BY <1>1, <1>2, <2>2, <2>3, <2>4, AdapterAlone
<1>3. CASE /\ key \notin DOMAIN answers /\ Performs(c)
           /\ adapter' = [adapter EXCEPT ![a] = Carrying(c, Answer(c))]
  <2>1. /\ ServiceTrue' /\ AppliedKnown' /\ RecordedTruly' /\ JournalGoverned' /\ RecordedSince'
        /\ memory' \in Content
        /\ DOMAIN answers' \subseteq Operation
        /\ \A k \in DOMAIN answers' : answers'[k] \in [prior : Content, result : Content]
        /\ applied' \in Seq(Operation)
        /\ DOMAIN answers' = DOMAIN answers \cup {key}
        /\ \A k \in DOMAIN answers : answers'[k] = answers[k]
        /\ answers'[key] = Answer(c)
    BY <1>1, <1>3, PerformKeeps
  <2> DEFINE d == Carrying(c, Answer(c))
  <2>2. d \in Call /\ d.step = "record" /\ d.p = c.p /\ d.op = c.op /\ d.receipt = answers'[key]
    <3>1. Answer(c) \in [prior : Content, result : Content]
      BY <2>1
    <3> QED BY <1>1, <2>1, <3>1, CarriesAnswer
  <2>3. adapter' = [adapter EXCEPT ![a] = d]
    BY <1>3
  <2> HIDE DEF d
  <2>4. adapter' \in [Adapter -> Call]
    BY <1>1, <2>2, <2>3
  <2>5. RefineShape'
    BY <1>1, <2>1, <2>4 DEF RefineInv, RefineShape, journalState
  <2>6. \A p : StateOf(p)' = StateOf(p)
    BY <1>1 DEF journalState, StateOf
  <2>7. ASSUME NEW b \in Adapter, b # a PROVE CallOK(adapter[b])'
    <3>1. adapter'[b] = adapter[b] /\ CallOK(adapter[b])
      BY <1>1, <2>3, <2>7 DEF RefineInv, AdaptersTrue
    <3> QED BY <2>1, <2>6, <3>1 DEF CallOK
  <2>8. CallOK(adapter[a])'
    <3>1. adapter'[a] = d
      BY <1>1, <2>3
    <3>2. /\ c.p \in Proposal /\ c.op \in {"promote", "rollback"}
          /\ StateOf(c.p) \in (IF c.op = "promote" THEN Released ELSE Reverting)
      BY <1>1 DEF CallOK
    <3>3. key \in DOMAIN answers'
      BY <2>1
    <3> QED BY <2>2, <2>6, <3>1, <3>2, <3>3 DEF CallOK
  <2> QED BY <2>1, <2>5, <2>7, <2>8 DEF RefineInv, AdaptersTrue
<1>4. CASE UNCHANGED service /\ adapter' = [adapter EXCEPT ![a] = Idle]
  BY <1>1, <1>4, IdleCall, AdapterAlone
<1>5. \/ /\ key \in DOMAIN answers /\ UNCHANGED service
         /\ adapter' = [adapter EXCEPT ![a] = Carrying(c, answers[key])]
      \/ /\ key \notin DOMAIN answers /\ Performs(c)
         /\ adapter' = [adapter EXCEPT ![a] = Carrying(c, Answer(c))]
      \/ UNCHANGED service /\ adapter' = [adapter EXCEPT ![a] = Idle]
  <2>1. CASE key \in DOMAIN answers
    BY <1>1, <2>1 DEF AdapterMutates, Answered, Key, KeyOf, Carrying
  <2>2. CASE key \notin DOMAIN answers /\ memory = c.prior
    BY <1>1, <2>2 DEF AdapterMutates, Answered, Key, KeyOf, Carrying, Performs, Answer, Reports
  <2>3. CASE key \notin DOMAIN answers /\ memory # c.prior
    BY <1>1, <2>3 DEF AdapterMutates, Answered, Key, KeyOf
  <2> QED BY <2>1, <2>2, <2>3
<1> QED BY <1>2, <1>3, <1>4, <1>5

\* The receipt is recorded, or another adapter recorded it first.
LEMMA RecordsKeep ==
  ASSUME RefineInv, NEW a \in Adapter, AdapterRecords(a) PROVE RefineInv'
<1> DEFINE c == adapter[a]
           to == IF c.op = "promote" THEN "promoted" ELSE "rolled_back"
           e == [to |-> to, by |-> a, kinds |-> {}, receipt |-> c.receipt]
<1>1. /\ c \in Call /\ CallOK(c) /\ c.step = "record" /\ adapter \in [Adapter -> Call]
      /\ adapter' = [adapter EXCEPT ![a] = Idle] /\ UNCHANGED <<proposals, service>>
  BY DEF RefineInv, RefineShape, AdaptersTrue, AdapterRecords
<1>2. CASE UNCHANGED events
  BY <1>1, <1>2, IdleCall, AdapterAlone DEF journalState
<1>3. CASE to \in Follows[StateOf(c.p)]
  <2>1. /\ c.p \in Proposal /\ c.op \in {"promote", "rollback"}
        /\ <<c.op, c.p>> \in DOMAIN answers
        /\ c.receipt.result = answers[<<c.op, c.p>>].result
        /\ c.op = "promote" => c.receipt = answers[<<c.op, c.p>>]
    BY <1>1 DEF CallOK
  <2>2. e \in Event /\ e.to = to /\ e.receipt = c.receipt
    BY <1>1 DEF Event, State, Call
  <2>3. events' = [events EXCEPT ![c.p] = Append(@, e)] /\ c.p \in proposals
    BY <1>1, <1>3 DEF AdapterRecords, Records
  <2>4. Justified(c.p, e)
    <3> HIDE DEF e
    <3>1. TrueEvent(c.p, e)
      BY <2>1, <2>2 DEF TrueEvent
    <3> QED BY <1>3, <2>2, <3>1 DEF Justified
  <2> HIDE DEF e
  <2>5. Extended(c.p, e)
    BY <2>1, <2>2, <2>3, AppendedExtends DEF RefineInv
  <2>6. /\ JournalGoverned' /\ RecordedSince' /\ RecordedTruly' /\ ServiceTrue' /\ AppliedKnown'
        /\ \A d : CallOK(d) => CallOK(d)'
    BY <1>1, <2>1, <2>2, <2>4, <2>5, EventKeeps
  <2>7. \A b \in Adapter : CallOK(adapter'[b])
    BY <1>1, IdleCall DEF RefineInv, AdaptersTrue
  <2>8. AdaptersTrue'
    BY <2>6, <2>7 DEF AdaptersTrue
  <2>9. RefineShape'
    <3>1. events' \in [Proposal -> Seq(Event)]
      BY <2>5 DEF Extended
    <3>2. \A q \in Proposal : events'[q] # <<>> => q \in proposals'
      BY <1>1, <2>3, <2>5 DEF Extended, RefineInv, RefineShape
    <3>3. adapter' \in [Adapter -> Call]
      BY <1>1, IdleCall
    <3> QED BY <1>1, <3>1, <3>2, <3>3 DEF RefineInv, RefineShape, service
  <2> QED BY <2>6, <2>8, <2>9 DEF RefineInv
<1> QED BY <1>2, <1>3 DEF AdapterRecords

\* Every step keeps the invariant.
LEMMA RefineNextKeeps ==
  ASSUME ReportsPrior, RefineInv, [RefineNext]_refineVars PROVE RefineInv'
<1>1. ASSUME NEW a \in Adapter, AdapterDies(a) PROVE RefineInv'
  <2>1. adapter' = [adapter EXCEPT ![a] = Idle] /\ UNCHANGED <<journalState, service>>
    BY <1>1 DEF AdapterDies
  <2> QED BY <2>1, IdleCall, AdapterAlone
<1>2. ASSUME NEW a \in Adapter, AdapterNext(a) PROVE RefineInv'
  BY <1>2, StartsKeep, MutatesKeep, RecordsKeep DEF AdapterNext
<1>3. CASE UNCHANGED refineVars
  <2>1. UNCHANGED <<proposals, events, service, adapter>>
    BY <1>3 DEF refineVars, journalState
  <2>2. RefineShape'
    BY <2>1 DEF RefineInv, RefineShape, service
  <2> QED BY <2>1, <2>2, CallsKeep DEF RefineInv, AdaptersTrue
<1> QED BY <1>1, <1>2, <1>3, JournalCallsKeep DEF RefineNext

\* What the invariant says of the memory.
LEMMA RefineInvImplies ==
  ASSUME RefineInv PROVE RefinementIsGoverned
<1>1. RefineTypeOK
  <2>1. ASSUME NEW p \in Proposal, events[p] # <<>>
        PROVE  p \in proposals /\ StateOf(p) \in DOMAIN Follows
    <3>1. StateOf(p) \in State \cup {"none"}
      BY StateIs DEF RefineInv
    <3> QED BY <2>1, <3>1 DEF RefineInv, RefineShape, State, Follows
  <2>2. \A a \in Adapter : adapter[a].step \in {"idle", "mutate", "record"}
    BY DEF RefineInv, RefineShape, Call
  <2> QED BY <2>1, <2>2 DEF RefineTypeOK, RefineInv, RefineShape, Content
<1>2. MemoryIsGoverned
  <2>1. ASSUME NEW i \in DOMAIN applied
        PROVE  /\ Passed(applied[i][2]) /\ Approved(applied[i][2]) /\ Evidenced(applied[i][2])
    <3>1. applied[i] \in Operation
      BY DEF RefineInv, RefineShape
    <3>2. applied[i][2] \in Proposal
      BY <3>1 DEF Operation
    <3>3. StateOf(applied[i][2]) \in Released
      BY DEF RefineInv, AppliedKnown
    <3> QED BY <3>2, <3>3 DEF RefineInv, JournalGoverned, Canaried, Approving
  <2> QED BY <2>1 DEF MemoryIsGoverned, HasEvent, Passed, Approved, Evidenced
<1>3. AppliedOnce
  BY DEF RefineInv, AppliedKnown
<1>4. RollbackRestores
  <2>1. ASSUME NEW p \in Proposal, StateOf(p) = "rolled_back"
        PROVE  /\ ReceiptOf(p, "rolled_back").result = ReceiptOf(p, "promoted").prior
               /\ ReceiptOf(p, "rolled_back").result # p
    <3>1. StateOf(p) \in Done
      BY <2>1 DEF Done, Reverting
    <3> QED BY <2>1, <3>1, PromotedReceipt, RolledBackReceipt DEF RefineInv, ServiceTrue
  <2> QED BY <2>1 DEF RollbackRestores
<1> QED BY <1>1, <1>2, <1>3, <1>4 DEF RefinementIsGoverned

\* When the memory service names the content before a change, every change of
\* the memory was approved by another agent on full evidence, was applied once
\* and is rolled back to what was there before, for any number of proposals,
\* adapters and deaths between the change and its record
\* (RuntimeSKMemoryAdapter.promote, rollback; RefinementJournal._transition).
THEOREM RefinementStaysGoverned == ReportsPrior => (RefineSpec => []RefinementIsGoverned)
<1> SUFFICES ASSUME ReportsPrior PROVE RefineSpec => []RefinementIsGoverned
  OBVIOUS
<1>1. RefineInit => RefineInv
  <2> SUFFICES ASSUME RefineInit PROVE RefineInv
    OBVIOUS
  <2>1. /\ \A p \in Proposal : events[p] = <<>> /\ StateOf(p) = "none"
        /\ events \in [Proposal -> Seq(Event)]
    BY DEF RefineInit, StateOf
  <2>2. DOMAIN answers = {} /\ applied = <<>> /\ DOMAIN applied = {} /\ memory = Original
    BY DEF RefineInit
  <2>3. adapter \in [Adapter -> Call] /\ AdaptersTrue
    BY IdleCall DEF RefineInit, AdaptersTrue
  <2>4. RefineShape
    BY <2>1, <2>2, <2>3 DEF RefineInit, RefineShape, Content
  <2>5. JournalGoverned /\ RecordedSince
    BY <2>1 DEF JournalGoverned, RecordedSince, Canaried, Approving, Released, Done, Reverting
  <2>6. RecordedTruly
    BY <2>1 DEF RecordedTruly
  <2>7. ServiceTrue /\ AppliedKnown
    BY <2>2, RefinementAssumption DEF ServiceTrue, AppliedKnown, AppliedOnce
  <2> QED BY <2>3, <2>4, <2>5, <2>6, <2>7 DEF RefineInv
<1>2. RefineInv /\ [RefineNext]_refineVars => RefineInv'
  BY RefineNextKeeps
<1>3. RefineInv => RefinementIsGoverned
  BY RefineInvImplies
<1> QED BY <1>1, <1>2, <1>3, PTL DEF RefineSpec

-----------------------------------------------------------------------------
(* The event segment, the artifacts and the job ledger. *)

SegmentRow == [seq : Nat, prior : Nat, id : Nat]

\* Row by row: its place as sequence and the identity before as prior.
RowLinks(i) ==
    /\ lines[i].seq = i
    /\ lines[i].prior = (IF i = 1 THEN 0 ELSE lines[i - 1].id)
    /\ lines[i].id \in 1 .. (serial - 1)

SegmentInv ==
    /\ lines \in Seq(SegmentRow) /\ Len(lines) <= MaxRows
    /\ cut.kind \in {"none", "part"} /\ DOMAIN next = Writer
    /\ serial \in Nat \ {0}
    /\ \A i \in 1 .. Len(lines) : RowLinks(i)
    /\ \A r \in acked : r.seq \in 1 .. Len(lines) /\ lines[r.seq] = r

ArtifactInv ==
    /\ temp \in [Putter -> {"none", "part", "whole", "left"}]
    /\ artifact \in {"none", "whole"} /\ stored \subseteq Putter
    /\ stored # {} => artifact = "whole"

Outcome == {"ok", "failed"}

\* Completed invocations whose row no ended line of the ledger is.
Lost ==
    {j \in JobRunner : \/ Returned(j) /\ <<j, "ok">> \notin ledger
                       \/ Alerted(j) /\ <<j, "failed">> \notin ledger}

\* A tail is paid for by the kill that left it, until the row it swallows is.
TailOwed == IF tail = Uncut THEN 0 ELSE 1

JobInv ==
    /\ job \in [JobRunner -> {"idle", "ok", "failed", "returned", "alerting", "raised", "cut off"}]
    /\ ledger \subseteq JobRunner \X Outcome
    /\ tail.kind = "row" => tail.row \in JobRunner \X Outcome
    /\ IsFiniteSet(Lost) /\ Cardinality(Lost) + TailOwed <= kills

StoreInv == SegmentInv /\ ArtifactInv /\ JobInv /\ kills \in 0 .. MaxKills

\* The prior a reader computes for row i of a sequence of rows.
LEMMA PriorAt ==
  ASSUME NEW rows \in Seq(SegmentRow), NEW i \in 1 .. (Len(rows) + 1)
  PROVE  PriorOf(SubSeq(rows, 1, i - 1)) = IF i = 1 THEN 0 ELSE rows[i - 1].id
<1>1. Len(rows) \in Nat /\ i \in Nat /\ i - 1 \in Nat /\ i - 1 <= Len(rows)
  OBVIOUS
<1>2. Len(SubSeq(rows, 1, i - 1)) = i - 1
  BY <1>1
<1>3. CASE i = 1
  <2>1. SubSeq(rows, 1, i - 1) = <<>>
    BY <1>3
  <2> QED BY <1>3, <2>1 DEF PriorOf
<1>4. CASE i # 1
  <2>1. SubSeq(rows, 1, i - 1) # <<>>
    BY <1>1, <1>2, <1>4
  <2>2. SubSeq(rows, 1, i - 1)[i - 1] = rows[i - 1]
    BY <1>1, <1>4
  <2> QED BY <1>2, <1>4, <2>1, <2>2 DEF PriorOf, Last
<1> QED BY <1>3, <1>4

\* A reader's chain is the rows' links.
LEMMA ChainedIs ==
  ASSUME SegmentInv PROVE Rows = lines /\ Chained(Rows)
<1>1. Rows = lines
  BY DEF SegmentInv, Rows
<1>2. lines \in Seq(SegmentRow) /\ DOMAIN lines = 1 .. Len(lines) /\ Len(lines) \in Nat
  BY DEF SegmentInv
<1>3. ASSUME NEW i \in DOMAIN lines
      PROVE  lines[i].seq = i /\ lines[i].prior = PriorOf(SubSeq(lines, 1, i - 1))
  <2>1. i \in 1 .. (Len(lines) + 1) /\ RowLinks(i)
    BY <1>2, <1>3 DEF SegmentInv
  <2>2. PriorOf(SubSeq(lines, 1, i - 1)) = IF i = 1 THEN 0 ELSE lines[i - 1].id
    BY <1>2, <2>1, PriorAt
  <2> QED BY <2>1, <2>2 DEF RowLinks
<1> QED BY <1>1, <1>3 DEF Chained

\* A committed row continues the chain: it was compared with the end of the
\* segment under the lock.
LEMMA RowContinues ==
  ASSUME SegmentInv, NEW n, Matches(n), Len(lines) < MaxRows,
         lines' = Append(lines, RowOf(n)), serial' = serial + 1,
         cut'.kind \in {"none", "part"}, DOMAIN next' = Writer,
         acked' \subseteq acked \cup {RowOf(n)}
  PROVE  SegmentInv'
<1>1. Rows = lines /\ lines \in Seq(SegmentRow) /\ Len(lines) \in Nat /\ serial \in Nat \ {0}
  BY ChainedIs DEF SegmentInv
<1>p. PICK m \in Nat : m = Len(lines) + 1
  BY <1>1
<1>2. PriorOf(lines) = IF m = 1 THEN 0 ELSE lines[m - 1].id
  <2>1. CASE lines = <<>>
    BY <1>1, <1>p, <2>1 DEF PriorOf
  <2>2. CASE lines # <<>>
    <3>1. Len(lines) # 0
      BY <1>1, <2>2
    <3> QED BY <1>1, <1>p, <2>2, <3>1 DEF PriorOf, Last
  <2> QED BY <2>1, <2>2
<1>3. n.seq = m /\ n.prior = IF m = 1 THEN 0 ELSE lines[m - 1].id
  BY <1>1, <1>2, <1>p DEF Matches
<1>4. ASSUME NEW i \in 1 .. Len(lines)
      PROVE  lines[i] \in SegmentRow /\ lines[i].id \in Nat /\ RowLinks(i)
  <2>1. lines[i] \in SegmentRow
    BY <1>1, <1>4
  <2>2. lines[i].id \in Nat
    BY <2>1 DEF SegmentRow
  <2> QED BY <1>4, <2>1, <2>2 DEF SegmentInv
<1>5. n.prior \in Nat
  <2>1. CASE m = 1
    BY <1>3, <2>1
  <2>2. CASE m # 1
    <3>1. m - 1 \in 1 .. Len(lines)
      BY <1>1, <1>p, <2>2
    <3> QED BY <1>3, <1>4, <2>2, <3>1
  <2> QED BY <2>1, <2>2
<1> DEFINE new == RowOf(n)
<1>6. new \in SegmentRow /\ new.seq = m /\ new.prior = n.prior /\ new.id = serial
  BY <1>1, <1>3, <1>5 DEF RowOf, SegmentRow
<1>7. lines' = Append(lines, new)
  OBVIOUS
<1> HIDE DEF new
<1>8. /\ lines' \in Seq(SegmentRow) /\ Len(lines') = m /\ lines'[m] = new
      /\ \A i \in 1 .. Len(lines) : lines'[i] = lines[i]
  BY <1>1, <1>6, <1>7, <1>p
<1>9. ASSUME NEW i \in 1 .. m PROVE RowLinks(i)'
  <2>1. CASE i \in 1 .. Len(lines)
    <3>1. RowLinks(i) /\ lines'[i] = lines[i]
      BY <1>4, <1>8, <2>1
    <3>2. i # 1 => i - 1 \in 1 .. Len(lines)
      BY <1>1, <2>1
    <3>3. i # 1 => lines'[i - 1] = lines[i - 1]
      BY <1>8, <3>2
    <3>4. lines[i].id \in 1 .. serial
      BY <1>1, <3>1 DEF RowLinks
    <3>5. serial' - 1 = serial
      BY <1>1
    <3> QED BY <3>1, <3>3, <3>4, <3>5 DEF RowLinks
  <2>2. CASE i = m
    <3>1. m # 1 => lines'[m - 1] = lines[m - 1]
      <4>1. m # 1 => m - 1 \in 1 .. Len(lines)
        BY <1>1, <1>p
      <4> QED BY <1>8, <4>1
    <3>2. serial \in 1 .. (serial' - 1)
      BY <1>1
    <3> QED BY <1>3, <1>6, <1>8, <2>2, <3>1, <3>2 DEF RowLinks
  <2> QED BY <1>1, <1>9, <1>p, <2>1, <2>2
<1>10. ASSUME NEW r \in acked' PROVE r.seq \in 1 .. m /\ lines'[r.seq] = r
  <2>1. CASE r \in acked
    <3>1. r.seq \in 1 .. Len(lines) /\ lines[r.seq] = r
      BY <2>1 DEF SegmentInv
    <3> QED BY <1>1, <1>8, <1>p, <3>1
  <2>2. CASE r = new
    BY <1>1, <1>6, <1>8, <1>p, <2>2
  <2> QED BY <1>10, <2>1, <2>2 DEF new
<1>11. m <= MaxRows /\ serial' \in Nat \ {0}
  BY <1>1, <1>p, StoreAssumption
<1> QED BY <1>8, <1>9, <1>10, <1>11 DEF SegmentInv

\* Without a new row nothing committed changes.
LEMMA RowsRemain ==
  ASSUME SegmentInv, UNCHANGED <<lines, acked>>, cut'.kind \in {"none", "part"},
         DOMAIN next' = Writer, serial' \in {serial, serial + 1}
  PROVE  SegmentInv'
<1>1. serial \in Nat \ {0} /\ serial' \in Nat \ {0}
  BY DEF SegmentInv
<1>2. ASSUME NEW i \in 1 .. Len(lines) PROVE RowLinks(i)'
  <2>1. RowLinks(i)
    BY <1>2 DEF SegmentInv
  <2>2. lines[i].id \in 1 .. (serial' - 1)
    BY <1>1, <2>1 DEF RowLinks
  <2> QED BY <2>1, <2>2 DEF RowLinks
<1> QED BY <1>1, <1>2 DEF SegmentInv

\* Writers that race for a sequence and are killed in their write keep the
\* chain, when a kill cannot cut exactly the newline of a row.
LEMMA SegmentKeeps ==
  ASSUME ~NewlineLost, SegmentInv, kills \in 0 .. MaxKills, SegmentNext
  PROVE  SegmentInv' /\ kills' \in 0 .. MaxKills
<1>1. Uncut.kind = "none"
  BY DEF Uncut
<1>2. ASSUME NEW w \in Writer, ReadSegment(w) PROVE SegmentInv' /\ kills' \in 0 .. MaxKills
  <2>1. UNCHANGED <<lines, acked, cut, serial, kills>> /\ DOMAIN next' = Writer
    BY <1>2 DEF ReadSegment, SegmentInv
  <2> QED BY <2>1, RowsRemain DEF SegmentInv
<1>3. ASSUME NEW w \in Writer, AppendEvent(w) PROVE SegmentInv' /\ kills' \in 0 .. MaxKills
  <2>1. DOMAIN next' = Writer /\ cut' = Uncut /\ kills' = kills /\ Len(lines) < MaxRows
    BY <1>3 DEF AppendEvent, SegmentInv
  <2>2. CASE Matches(next[w])
    <3>1. /\ lines' = Append(lines, RowOf(next[w])) /\ serial' = serial + 1
          /\ acked' = acked \cup {RowOf(next[w])}
      BY <1>3, <2>2 DEF AppendEvent, CutOff
    <3> QED BY <1>1, <2>1, <2>2, <3>1, RowContinues
  <2>3. CASE ~Matches(next[w])
    <3>1. UNCHANGED <<lines, acked, serial>>
      BY <1>3, <2>3 DEF AppendEvent, CutOff
    <3> QED BY <1>1, <2>1, <3>1, RowsRemain
  <2> QED BY <2>2, <2>3
<1>4. ASSUME NEW w \in Writer, NEW r \in Remains, AppendKilled(w, r)
      PROVE  SegmentInv' /\ kills' \in 0 .. MaxKills
  <2>1. r \in {"none", "part", "all"}
    BY <1>4 DEF Remains
  <2>2. /\ DOMAIN next' = Writer /\ Len(lines) < MaxRows /\ Matches(next[w])
        /\ serial' = serial + 1 /\ acked' = acked
    BY <1>4 DEF AppendKilled, SegmentInv
  <2>3. cut'.kind \in {"none", "part"}
    BY <1>1, <1>4, <2>1 DEF AppendKilled
  <2>4. kills' \in 0 .. MaxKills
    BY <1>4, StoreAssumption DEF AppendKilled, Kill
  <2>5. CASE r = "all"
    <3>1. lines' = Append(lines, RowOf(next[w]))
      BY <1>4, <2>5 DEF AppendKilled, CutOff
    <3> QED BY <2>2, <2>3, <2>4, <3>1, RowContinues
  <2>6. CASE r # "all"
    <3>1. UNCHANGED lines
      BY <1>4, <2>6 DEF AppendKilled, CutOff
    <3> QED BY <2>2, <2>3, <2>4, <3>1, RowsRemain
  <2> QED BY <2>5, <2>6
<1> QED BY <1>2, <1>3, <1>4 DEF SegmentNext

\* Putters that race and are killed keep the artifact whole.
LEMMA ArtifactKeeps ==
  ASSUME ArtifactInv, kills \in 0 .. MaxKills, ArtifactNext
  PROVE  ArtifactInv' /\ kills' \in 0 .. MaxKills
<1>1. ASSUME NEW p \in Putter, PutKilled(p) PROVE ArtifactInv' /\ kills' \in 0 .. MaxKills
  <2>1. kills' \in 0 .. MaxKills
    BY <1>1, StoreAssumption DEF PutKilled, Kill
  <2> QED BY <1>1, <2>1 DEF PutKilled, ArtifactInv
<1>2. ASSUME NEW p \in Putter,
             \/ PutStarts(p) \/ PutFinds(p) \/ PutWrites(p) \/ PutLinks(p) \/ PutRefused(p)
      PROVE  ArtifactInv' /\ kills' \in 0 .. MaxKills
  BY <1>2 DEF PutStarts, PutFinds, PutWrites, PutLinks, PutRefused, ArtifactInv
<1> QED BY <1>1, <1>2 DEF ArtifactNext

\* Who is lost stays within a finite set, and the count follows.
LEMMA LostWithin ==
  ASSUME NEW S, IsFiniteSet(S), NEW T, T \subseteq S
  PROVE  IsFiniteSet(T) /\ Cardinality(T) \in Nat /\ Cardinality(S) \in Nat /\ Cardinality(T) <= Cardinality(S)
BY FS_Subset, FS_CardinalityType

\* The rows written keep their shape.
LEMMA WritesKeep ==
  ASSUME JobInv, NEW j \in JobRunner, NEW written, job[j] \in Outcome, JobWrites(j, written)
  PROVE  /\ ledger' \subseteq JobRunner \X Outcome /\ ledger \subseteq ledger'
         /\ tail'.kind = "row" => tail'.row \in JobRunner \X Outcome
         /\ written = "all" => /\ tail' = Uncut
                               /\ tail = Uncut => <<j, job[j]>> \in ledger'
<1>6. <<j, job[j]>> \in JobRunner \X Outcome
  OBVIOUS
<1>1. PICK row : row = <<j, job[j]>> /\ row \in JobRunner \X Outcome
  BY <1>6, Zenon
<1>2. /\ ledger' = IF written = "all" /\ tail = Uncut THEN ledger \cup {row} ELSE ledger
      /\ tail' = CASE written = "none" -> tail
                   [] written = "all" -> Uncut
                   [] OTHER -> [kind |-> IF tail = Uncut THEN written ELSE "part", row |-> row]
  BY <1>1 DEF JobWrites
<1>3. CASE written = "none"
  BY <1>2, <1>3 DEF JobInv
<1>4. CASE written = "all"
  BY <1>1, <1>2, <1>4 DEF JobInv, Uncut
<1>5. CASE written \notin {"none", "all"}
  BY <1>1, <1>2, <1>5 DEF JobInv
<1> QED BY <1>3, <1>4, <1>5

\* A cut-off write costs at most one later invocation its row.
LEMMA JobKeeps ==
  ASSUME JobInv, kills \in 0 .. MaxKills, JobNext PROVE JobInv' /\ kills' \in 0 .. MaxKills
<1>a. IsFiniteSet(Lost) /\ Cardinality(Lost) + TailOwed <= kills
  BY DEF JobInv
<1>b. kills \in Nat /\ MaxKills \in Nat /\ TailOwed \in {0, 1}
  BY StoreAssumption DEF TailOwed
<1>c. Cardinality(Lost) \in Nat
  BY <1>a, FS_CardinalityType
<1>1. /\ kills \in Nat /\ IsFiniteSet(Lost) /\ Cardinality(Lost) \in Nat
      /\ Cardinality(Lost) + TailOwed <= kills /\ TailOwed \in {0, 1}
  BY <1>a, <1>b, <1>c
<1>2. ASSUME NEW j \in JobRunner, JobAlerted(j) \/ \E ok \in BOOLEAN : JobOperates(j, ok)
      PROVE  JobInv' /\ kills' \in 0 .. MaxKills
  <2>1. /\ UNCHANGED <<ledger, tail, kills>>
        /\ job' \in [JobRunner -> {"idle", "ok", "failed", "returned", "alerting", "raised", "cut off"}]
        /\ \A k \in JobRunner : (Returned(k)' <=> Returned(k)) /\ (Alerted(k)' <=> Alerted(k))
    BY <1>2 DEF JobAlerted, JobOperates, JobInv, Returned, Alerted
  <2>2. Lost' = Lost
    BY <2>1 DEF Lost
  <2>3. TailOwed' = TailOwed
    BY <2>1 DEF TailOwed
  <2> QED BY <1>1, <2>1, <2>2, <2>3 DEF JobInv
<1>3. ASSUME NEW j \in JobRunner, JobLedgered(j) PROVE JobInv' /\ kills' \in 0 .. MaxKills
  <2>1. /\ job[j] \in Outcome /\ JobWrites(j, "all") /\ UNCHANGED kills
        /\ job' \in [JobRunner -> {"idle", "ok", "failed", "returned", "alerting", "raised", "cut off"}]
        /\ job'[j] = (IF job[j] = "ok" THEN "returned" ELSE "alerting")
        /\ \A k \in JobRunner \ {j} : job'[k] = job[k]
    BY <1>3 DEF JobLedgered, JobInv, Outcome
  <2>2. /\ ledger' \subseteq JobRunner \X Outcome /\ ledger \subseteq ledger' /\ tail' = Uncut
        /\ tail'.kind = "row" => tail'.row \in JobRunner \X Outcome
        /\ tail = Uncut => <<j, job[j]>> \in ledger'
    BY <2>1, WritesKeep
  <2>3. Lost' \subseteq Lost \cup {j}
    BY <2>1, <2>2 DEF Lost, Returned, Alerted
  <2>4. ASSUME tail = Uncut PROVE j \notin Lost'
    BY <2>1, <2>2, <2>4 DEF Lost, Returned, Alerted, Outcome
  <2>5. TailOwed' = 0
    BY <2>2 DEF TailOwed
  <2>6. /\ IsFiniteSet(Lost \cup {j}) /\ Cardinality(Lost \cup {j}) \in Nat
        /\ Cardinality(Lost \cup {j}) <= Cardinality(Lost) + 1
    <3>1. /\ IsFiniteSet(Lost \cup {j})
          /\ Cardinality(Lost \cup {j}) = IF j \in Lost THEN Cardinality(Lost) ELSE Cardinality(Lost) + 1
      BY <1>a, FS_AddElement
    <3> QED BY <1>1, <3>1
  <2>7. CASE tail = Uncut
    <3>1. Lost' \subseteq Lost
      BY <2>3, <2>4, <2>7
    <3>2. IsFiniteSet(Lost') /\ Cardinality(Lost') \in Nat /\ Cardinality(Lost') <= Cardinality(Lost)
      BY <1>1, <3>1, LostWithin
    <3>3. Cardinality(Lost') + TailOwed' <= kills
      BY <1>1, <2>5, <3>2
    <3> QED BY <2>1, <2>2, <3>2, <3>3 DEF JobInv
  <2>8. CASE tail # Uncut
    <3>1. IsFiniteSet(Lost') /\ Cardinality(Lost') \in Nat
          /\ Cardinality(Lost') <= Cardinality(Lost \cup {j})
      BY <2>3, <2>6, LostWithin
    <3>2. TailOwed = 1
      BY <2>8 DEF TailOwed
    <3>3. Cardinality(Lost') + TailOwed' <= kills
      BY <1>1, <2>5, <2>6, <3>1, <3>2
    <3> QED BY <2>1, <2>2, <3>1, <3>3 DEF JobInv
  <2> QED BY <2>7, <2>8
<1>4. ASSUME NEW j \in JobRunner, NEW written, JobCutOff(j, written)
      PROVE  JobInv' /\ kills' \in 0 .. MaxKills
  <2>1. /\ job[j] \in Outcome /\ JobWrites(j, written) /\ job'[j] = "cut off"
        /\ job' \in [JobRunner -> {"idle", "ok", "failed", "returned", "alerting", "raised", "cut off"}]
        /\ \A k \in JobRunner \ {j} : job'[k] = job[k]
    BY <1>4 DEF JobCutOff, JobInv, Outcome
  <2>2. kills < MaxKills /\ kills' = kills + 1
    BY <1>4 DEF JobCutOff, Kill
  <2>8. kills' = kills + 1 /\ kills' \in 0 .. MaxKills
    BY <1>b, <2>2
  <2>3. /\ ledger' \subseteq JobRunner \X Outcome /\ ledger \subseteq ledger'
        /\ tail'.kind = "row" => tail'.row \in JobRunner \X Outcome
    BY <2>1, WritesKeep
  <2>4. Lost' \subseteq Lost
    BY <2>1, <2>3 DEF Lost, Returned, Alerted
  <2>5. IsFiniteSet(Lost') /\ Cardinality(Lost') \in Nat /\ Cardinality(Lost') <= Cardinality(Lost)
    BY <1>1, <2>4, LostWithin
  <2>6. TailOwed' \in {0, 1}
    BY DEF TailOwed
  <2>7. Cardinality(Lost') + TailOwed' <= kills'
    BY <1>1, <2>8, <2>5, <2>6
  <2> QED BY <2>1, <2>8, <2>3, <2>5, <2>7 DEF JobInv
<1> QED BY <1>2, <1>3, <1>4 DEF JobNext

\* The segment is one chain with every acknowledged event at its place, an
\* artifact is whole and every write of the job ledger that was cut off costs at
\* most one completed job its row, for every number of writers, rows, jobs and
\* kills, unless a kill can cut exactly the newline of a segment's row
\* (ArenaStore.append_event, put_artifact; ArenaJobService.run).
THEOREM StoreStaysWhole == ~NewlineLost => (StoreSpec => []StoreIsWhole)
<1> SUFFICES ASSUME ~NewlineLost PROVE StoreSpec => []StoreIsWhole
  OBVIOUS
<1>1. StoreInit => StoreInv
  <2> SUFFICES ASSUME StoreInit PROVE StoreInv
    OBVIOUS
  <2>1. SegmentInv
    BY StoreAssumption DEF StoreInit, SegmentInv, Uncut
  <2>2. ArtifactInv
    BY DEF StoreInit, ArtifactInv
  <2>3. JobInv
    <3>1. Lost = {}
      BY DEF StoreInit, Lost, Returned, Alerted
    <3>2. TailOwed = 0 /\ kills = 0 /\ tail.kind = "none"
      BY DEF StoreInit, TailOwed, Uncut
    <3> QED BY <3>1, <3>2, FS_EmptySet DEF StoreInit, JobInv
  <2> QED BY <2>1, <2>2, <2>3, StoreAssumption DEF StoreInit, StoreInv
<1>2. StoreInv /\ [SegmentNext \/ ArtifactNext \/ JobNext]_storeVars => StoreInv'
  <2> SUFFICES ASSUME StoreInv, [SegmentNext \/ ArtifactNext \/ JobNext]_storeVars
               PROVE  StoreInv'
    OBVIOUS
  <2>1. UNCHANGED segment => SegmentInv'
    BY DEF StoreInv, SegmentInv, RowLinks, segment
  <2>2. UNCHANGED artifacts => ArtifactInv'
    BY DEF StoreInv, ArtifactInv, artifacts
  <2>3. ASSUME UNCHANGED jobLedger, kills' \in Nat, kills <= kills' PROVE JobInv'
    <3>1. Lost' = Lost /\ TailOwed' = TailOwed
      BY <2>3 DEF jobLedger, Lost, TailOwed, Returned, Alerted
    <3>2. IsFiniteSet(Lost) /\ Cardinality(Lost) + TailOwed <= kills
      BY DEF StoreInv, JobInv
    <3>3. TailOwed \in {0, 1} /\ kills \in Nat
      BY StoreAssumption DEF StoreInv, TailOwed
    <3>4. Cardinality(Lost) \in Nat
      BY <3>2, FS_CardinalityType
    <3>5. Cardinality(Lost') + TailOwed' <= kills' /\ IsFiniteSet(Lost')
      BY <2>3, <3>1, <3>2, <3>3, <3>4
    <3> QED BY <2>3, <3>5 DEF StoreInv, JobInv, jobLedger
  <2>4. CASE SegmentNext
    <3>1. UNCHANGED <<artifacts, jobLedger>>
      BY <2>4 DEF SegmentNext, ReadSegment, AppendEvent, AppendKilled
    <3>2. kills' \in Nat /\ kills <= kills'
      BY <2>4, StoreAssumption DEF StoreInv, SegmentNext, ReadSegment, AppendEvent, AppendKilled, Kill
    <3> QED BY <2>2, <2>3, <2>4, <3>1, <3>2, SegmentKeeps DEF StoreInv
  <2>5. CASE ArtifactNext
    <3>1. UNCHANGED <<segment, jobLedger>>
      BY <2>5 DEF ArtifactNext, PutStarts, PutFinds, PutWrites, PutLinks, PutKilled, PutRefused
    <3>2. kills' \in Nat /\ kills <= kills'
      BY <2>5, StoreAssumption
      DEF StoreInv, ArtifactNext, PutStarts, PutFinds, PutWrites, PutLinks, PutKilled, PutRefused, Kill
    <3> QED BY <2>1, <2>3, <2>5, <3>1, <3>2, ArtifactKeeps DEF StoreInv
  <2>6. CASE JobNext
    <3>1. UNCHANGED <<segment, artifacts>>
      BY <2>6 DEF JobNext, JobOperates, JobLedgered, JobAlerted, JobCutOff
    <3> QED BY <2>1, <2>2, <2>6, <3>1, JobKeeps DEF StoreInv
  <2>7. CASE UNCHANGED storeVars
    <3>1. kills' = kills /\ kills \in Nat
      BY <2>7, StoreAssumption DEF StoreInv, storeVars
    <3> QED BY <2>1, <2>2, <2>3, <2>7, <3>1 DEF StoreInv, storeVars
  <2> QED BY <2>4, <2>5, <2>6, <2>7
<1>3. StoreInv => StoreIsWhole
  <2> SUFFICES ASSUME StoreInv PROVE StoreIsWhole
    OBVIOUS
  <2>1. Rows = lines /\ LogStaysReadable
    BY ChainedIs DEF StoreInv, LogStaysReadable
  <2>2. DOMAIN lines = 1 .. Len(lines)
    BY DEF StoreInv, SegmentInv
  <2>3. AckedStays
    BY <2>1, <2>2 DEF StoreInv, SegmentInv, AckedStays
  <2>4. StoreTypeOK
    <3>1. \A i \in DOMAIN lines : lines[i].id \in 1 .. (serial - 1)
      BY <2>2 DEF StoreInv, SegmentInv, RowLinks
    <3>2. JobStatus \subseteq JobRunner \X {"ok", "failed"}
      BY DEF StoreInv, JobInv, JobStatus, Outcome
    <3> QED BY <3>1, <3>2 DEF StoreInv, SegmentInv, ArtifactInv, StoreTypeOK
  <2>5. ArtifactsWhole
    BY DEF StoreInv, ArtifactInv, ArtifactsWhole
  <2>6. LostRowsAreBounded
    <3>1. Unlisted \subseteq Lost
      BY DEF Unlisted, Lost, JobStatus
    <3>2. /\ Cardinality(Unlisted) \in Nat /\ Cardinality(Lost) \in Nat
          /\ Cardinality(Unlisted) <= Cardinality(Lost)
      BY <3>1, LostWithin DEF StoreInv, JobInv
    <3>3. Cardinality(Lost) + TailOwed <= kills
      BY DEF StoreInv, JobInv
    <3>4. TailOwed \in {0, 1} /\ kills \in Nat
      BY StoreAssumption DEF StoreInv, TailOwed
    <3> QED BY <3>2, <3>3, <3>4 DEF LostRowsAreBounded
  <2> QED BY <2>1, <2>3, <2>4, <2>5, <2>6 DEF StoreIsWhole
<1> QED BY <1>1, <1>2, <1>3, PTL DEF StoreSpec

-----------------------------------------------------------------------------
(* The verifier. *)

Answer3 == {"passed", "failed", "error"}

\* Until there is a verdict nothing has raised, and the controls asked for have
\* told good from bad.
Undecided ==
    /\ Range(controls) \cap {"error"} = {}
    /\ \A i \in DOMAIN trials : trials[i].ran
    /\ Len(trials) < Repetitions
    /\ Len(controls) = 3 => ControlsHold(controls)

VerdictInv ==
    /\ controls \in Seq(Answer3) /\ Len(controls) <= 3
    /\ trials \in Seq(Trial) /\ Len(trials) <= Repetitions
    /\ verdict \in {"none", "valid", "invalid", "inconclusive"}
    /\ verdict = "none" => Undecided
    /\ ValidIsEarned /\ FailureIsInconclusive

\* The three controls, as the property names them.
LEMMA ControlsAre ==
  ASSUME NEW cs \in Seq(Answer3), Len(cs) = 3, ControlsHold(cs)
  PROVE  cs = <<"passed", "failed", "failed">>
<1>1. cs[1] = "passed" /\ cs[2] = "failed" /\ cs[3] = "failed"
  BY DEF ControlsHold
<1> QED BY <1>1

\* A control that raises, or tells nothing, ends the verification undecided.
LEMMA ControlKeeps ==
  ASSUME VerdictInv, NEW o \in Answer3, RunControl(o) PROVE VerdictInv'
<1>1. /\ verdict = "none" /\ Undecided /\ controls \in Seq(Answer3) /\ Len(controls) < 3
      /\ controls' = Append(controls, o) /\ UNCHANGED <<claim, trials>>
      /\ verdict' = IF \/ o = "error"
                       \/ Len(controls') = 3 /\ ~ControlsHold(controls')
                      THEN "inconclusive" ELSE "none"
  BY DEF VerdictInv, RunControl, Control
<1>2. /\ controls' \in Seq(Answer3) /\ Len(controls') = Len(controls) + 1 /\ Len(controls) \in Nat
      /\ Len(controls') <= 3
  BY <1>1
<1>3. Range(controls') = Range(controls) \cup {o}
  <2>1. /\ DOMAIN controls' = DOMAIN controls \cup {Len(controls) + 1}
        /\ \A i \in DOMAIN controls : controls'[i] = controls[i]
        /\ controls'[Len(controls) + 1] = o
    BY <1>1, <1>2
  <2> QED BY <2>1 DEF Range
<1>4. verdict' \in {"none", "inconclusive"}
  BY <1>1
<1>5. verdict' = "none" => Undecided'
  BY <1>1, <1>2, <1>3 DEF Undecided
<1>6. FailureIsInconclusive'
  <2>1. verdict' = "none" => "error" \notin Range(controls') /\ \A i \in DOMAIN trials' : trials'[i].ran
    BY <1>5 DEF Undecided
  <2> QED BY <1>4, <2>1 DEF FailureIsInconclusive
<1>7. ValidIsEarned'
  BY <1>4 DEF ValidIsEarned
<1> QED BY <1>1, <1>2, <1>4, <1>5, <1>6, <1>7 DEF VerdictInv

\* A trial that did not run decides nothing; after the last one every trial ran
\* and, if the submission is valid, was clean.
LEMMA TrialKeeps ==
  ASSUME VerdictInv, NEW t \in Trial, RunTrial(t) PROVE VerdictInv'
<1>1. /\ verdict = "none" /\ claim /\ Undecided /\ trials \in Seq(Trial)
      /\ RequireControls => Len(controls) = 3
      /\ trials' = Append(trials, t) /\ UNCHANGED <<claim, controls>>
      /\ verdict' = IF ~t.ran THEN "inconclusive"
                    ELSE IF Len(trials') = Repetitions THEN Concluded(trials') ELSE "none"
  BY DEF VerdictInv, RunTrial, Control
<1>n. PICK n \in Nat : n = Len(trials) + 1 /\ n <= Repetitions /\ Repetitions \in Nat
  BY <1>1, VerdictAssumption DEF Undecided
<1>2. /\ trials' \in Seq(Trial) /\ Len(trials') = n
      /\ DOMAIN trials' = DOMAIN trials \cup {n} /\ trials'[n] = t
      /\ \A i \in DOMAIN trials : trials'[i] = trials[i]
  BY <1>1, <1>n
<1>3. t.ran \in BOOLEAN
  BY DEF Trial
<1>4. t.ran => \A i \in DOMAIN trials' : trials'[i].ran
  BY <1>1, <1>2 DEF Undecided
<1>5. CASE ~t.ran
  <2>1. verdict' = "inconclusive"
    BY <1>1, <1>5
  <2> QED BY <1>1, <1>2, <1>n, <2>1 DEF VerdictInv, ValidIsEarned, FailureIsInconclusive
<1>6. CASE t.ran /\ n # Repetitions
  <2>1. verdict' = "none" /\ n < Repetitions
    BY <1>1, <1>2, <1>6, <1>n
  <2>2. Undecided'
    BY <1>1, <1>2, <1>4, <1>6, <2>1 DEF Undecided
  <2>3. ValidIsEarned' /\ FailureIsInconclusive'
    BY <2>1, <2>2 DEF Undecided, ValidIsEarned, FailureIsInconclusive
  <2> QED BY <1>1, <1>2, <1>n, <2>1, <2>2, <2>3 DEF VerdictInv
<1>7. CASE t.ran /\ n = Repetitions
  <2>1. verdict' = Concluded(trials')
    BY <1>1, <1>2, <1>7
  <2>2. /\ Concluded(trials') \in {"valid", "invalid"}
        /\ Concluded(trials') = "valid" => \A i \in DOMAIN trials' : trials'[i].clean
    BY DEF Concluded
  <2>3. FailureIsInconclusive'
    BY <1>1, <1>4, <1>7 DEF FailureIsInconclusive, Undecided
  <2>4. RequireControls => controls' = <<"passed", "failed", "failed">>
    BY <1>1, ControlsAre DEF Undecided, VerdictInv
  <2>5. ValidIsEarned'
    BY <1>1, <1>2, <1>4, <1>7, <2>1, <2>2, <2>4 DEF ValidIsEarned
  <2> QED BY <1>1, <1>2, <1>n, <2>1, <2>2, <2>3, <2>5 DEF VerdictInv
<1> QED BY <1>3, <1>5, <1>6, <1>7

\* A family of subsets of a finite set that is not empty has a member none of
\* whose proper subsets is in the family.
LEMMA SmallestMember ==
  ASSUME NEW S, IsFiniteSet(S), NEW F, F \subseteq SUBSET S, F # {}
  PROVE  \E T \in F : \A U \in F : U \subseteq T => U = T
<1>1. F \subseteq FiniteSubsetsOf(S)
  BY FS_Subset, Zenon DEF FiniteSubsetsOf
<1>2. PICK T \in F : \A U \in F : ~(<<U, T>> \in StrictSubsetOrdering(S))
  BY <1>1, FS_StrictSubsetOrderingWellFounded, WFMin, Zenon
<1> QED
  BY <1>2 DEF StrictSubsetOrdering

\* Without tolerances _dominates is a strict order.
LEMMA DominanceIsStrict ==
  ASSUME Exact, NEW m \in [Candidate -> [Objective -> Value]],
         NEW a \in Candidate, NEW b \in Candidate, NEW c \in Candidate
  PROVE  /\ ~Dominates(m, a, a)
         /\ Dominates(m, a, b) /\ Dominates(m, b, c) => Dominates(m, a, c)
<1>1. \A x \in Candidate, o \in Objective : m[x][o] \in Nat
  BY VerdictAssumption
<1>2. \A x, y \in Candidate :
         Dominates(m, x, y) <=> /\ \A o \in Objective : m[x][o] >= m[y][o]
                                /\ \E o \in Objective : m[x][o] > m[y][o]
  BY <1>1 DEF Dominates, Exact
<1>3. ~Dominates(m, a, a)
  BY <1>1, <1>2
<1>4. ASSUME Dominates(m, a, b), Dominates(m, b, c) PROVE Dominates(m, a, c)
  <2>1. PICK o \in Objective : m[a][o] > m[b][o]
    BY <1>2, <1>4
  <2>2. m[a][o] > m[c][o]
    BY <1>1, <1>2, <1>4, <2>1
  <2>3. \A p \in Objective : m[a][p] >= m[c][p]
    BY <1>1, <1>2, <1>4
  <2> QED BY <1>2, <2>2, <2>3
<1> QED BY <1>3, <1>4

\* Of the admissible candidates that dominate c, one with the fewest dominators
\* is itself dominated by none: a dominator of it would dominate c as well and
\* have fewer.
LEMMA FrontierAlwaysCovers ==
  ASSUME Exact, NEW m \in [Candidate -> [Objective -> Value]],
         NEW c \in Admissible(m), c \notin Frontier(m)
  PROVE  \E d \in Frontier(m) : Dominates(m, d, c)
<1> DEFINE A == Admissible(m)
           Above(x) == {d \in A : Dominates(m, d, x)}
           F == {Above(x) : x \in Above(c)}
<1>1. A \subseteq Candidate
  BY DEF Admissible
<1>2. Above(c) # {}
  BY DEF Frontier
<1>3. IsFiniteSet(A)
  BY <1>1, VerdictAssumption, FS_Subset
<1>4. F \subseteq SUBSET A /\ F # {}
  <2>1. PICK e : e \in Above(c)
    BY <1>2
  <2>2. Above(e) \in F
    BY <2>1
  <2>3. F \subseteq SUBSET A
    OBVIOUS
  <2> HIDE DEF F
  <2> QED BY <2>2, <2>3
<1>5. PICK T \in F : \A U \in F : U \subseteq T => U = T
  <2> HIDE DEF F, A
  <2> QED BY <1>3, <1>4, SmallestMember
<1>6. PICK d \in Above(c) : T = Above(d)
  BY <1>5
<1>7. Above(d) = {}
  <2>1. SUFFICES ASSUME NEW e \in Above(d) PROVE FALSE
    OBVIOUS
  <2>2. c \in Candidate /\ d \in Candidate /\ e \in Candidate /\ e \in A
    BY <1>1, <1>6, <2>1
  <2>3. Dominates(m, e, d) /\ Dominates(m, d, c)
    BY <1>6, <2>1
  <2>4. Dominates(m, e, c)
    BY <2>2, <2>3, DominanceIsStrict
  <2>5. Above(e) \in F
    BY <2>2, <2>4
  <2>6. Above(e) \subseteq Above(d)
    BY <1>1, <2>2, <2>3, DominanceIsStrict
  <2>7. Above(e) = Above(d)
    BY <1>5, <1>6, <2>5, <2>6
  <2>8. e \in Above(e)
    BY <2>1, <2>7
  <2> QED BY <2>2, <2>8, DominanceIsStrict
<1>8. d \in Frontier(m) /\ Dominates(m, d, c)
  BY <1>6, <1>7 DEF Frontier
<1> QED BY <1>8

\* The steps of the verifier and of the frontier keep the verifier's part.
LEMMA VerdictKeeps ==
  ASSUME VerdictInv, [VerifyNext \/ ComputeFrontier]_verdictVars PROVE VerdictInv'
<1>1. CASE Mismatched
  BY <1>1 DEF Mismatched, VerdictInv, Undecided, ValidIsEarned, FailureIsInconclusive
<1>2. CASE UNCHANGED verifyVars
  BY <1>2 DEF verifyVars, VerdictInv, Undecided, ValidIsEarned, FailureIsInconclusive
<1>3. CASE VerifyNext
  BY <1>1, <1>3, ControlKeeps, TrialKeeps DEF VerifyNext, Answer3
<1>4. CASE ComputeFrontier
  BY <1>2, <1>4 DEF ComputeFrontier
<1>5. CASE UNCHANGED verdictVars
  BY <1>2, <1>5 DEF verdictVars
<1> QED BY <1>3, <1>4, <1>5

\* The frontier is not computed yet, or is the one of the metrics.
FrontierOK ==
    /\ metrics \in [Candidate -> [Objective -> Value]]
    /\ frontier \in {{"none"}, Frontier(metrics)}

LEMMA FrontierKeeps ==
  ASSUME FrontierOK, [VerifyNext \/ ComputeFrontier]_verdictVars PROVE FrontierOK'
<1>1. CASE UNCHANGED <<metrics, frontier>>
  BY <1>1 DEF FrontierOK
<1>2. CASE VerifyNext
  BY <1>1, <1>2 DEF VerifyNext, Mismatched, RunControl, RunTrial
<1>3. CASE ComputeFrontier
  BY <1>3 DEF ComputeFrontier, FrontierOK
<1> QED BY <1>1, <1>2, <1>3 DEF verdictVars

LEMMA VerdictStarts == VerdictInit => VerdictInv /\ FrontierOK
  BY VerdictAssumption
     DEF VerdictInit, VerifyInit, VerdictInv, FrontierOK, Undecided, ValidIsEarned,
         FailureIsInconclusive, Range

LEMMA VerdictTyped == VerdictInv /\ FrontierOK => VerdictTypeOK
  BY DEF VerdictInv, FrontierOK, VerdictTypeOK, Frontier, Admissible, Control

\* Valid is earned by all controls and all trials, and a failure of the backend
\* decides nothing, for every number of repetitions, every set of metric values
\* and all tolerances (IndependentVerifier.verify).
THEOREM VerdictsAreEarned == VerdictSpec => [](ValidIsEarned /\ FailureIsInconclusive)
<1>1. VerdictInv => ValidIsEarned /\ FailureIsInconclusive
  BY DEF VerdictInv
<1> QED BY <1>1, VerdictStarts, VerdictKeeps, PTL DEF VerdictSpec

\* For every finite number of candidates and of objectives without tolerance the
\* frontier also covers every admissible candidate (pareto_frontier).
THEOREM VerdictsStayFair == Exact => (VerdictSpec => []VerdictIsFair)
<1> SUFFICES ASSUME Exact PROVE VerdictSpec => []VerdictIsFair
  OBVIOUS
<1>1. ASSUME VerdictInv, FrontierOK PROVE VerdictIsFair
  <2>1. FrontierCovers
    BY <1>1, FrontierAlwaysCovers DEF FrontierCovers, FrontierOK, Frontier
  <2> QED BY <1>1, <2>1, VerdictTyped DEF VerdictIsFair, VerdictInv
<1> QED BY <1>1, VerdictStarts, VerdictKeeps, FrontierKeeps, PTL DEF VerdictSpec

-----------------------------------------------------------------------------
(* A dispatched change. *)


Step == {"idle", "refused", "arm", "fresh", "mark", "ready", "merge", "command", "tell",
         "done", "dead"}

Seen == [step : Step, by : Person \cup {Nothing}, head : Nat \cup {Nothing}, armed : SUBSET Person]

DeployTypeOK ==
    /\ change \in [status : {"scheduled", "implementing", "failed", "deployed"}, by : Person,
                   validated : Nat \cup {Nothing}, mode : {"confirm", "auto"}, open : BOOLEAN]
    /\ pr \in [head : Nat, merged : Nat \cup {Nothing}]
    /\ deploy \in [Deploy -> Seen]
    /\ arms \subseteq Person /\ trusted \subseteq Person
    /\ faults \in Nat

\* The claim lease: one dispatch runs at a time.
OneRuns == \A d, e \in Deploy : Running(d) /\ Running(e) => d = e

\* A validation is of a head the pull request has or had.
VerdictIsOld == change.validated # Nothing => change.validated <= pr.head

\* Until the last look at the head: if it is still the validated one, then the
\* change is still the drafter's whom the dispatch saw.
SeenBefore ==
    \A d \in Deploy : deploy[d].step \in {"arm", "fresh"} =>
        /\ deploy[d].head \in Nat /\ deploy[d].head <= pr.head
        /\ pr.head = deploy[d].head => change.by = deploy[d].by
        /\ Runner[d] # deploy[d].by

\* The arm that was accepted is another person's.
ArmedBefore ==
    \A d \in Deploy : deploy[d].step = "fresh" => deploy[d].armed \ {deploy[d].by} # {}

\* From the last look to the merge, unless the head moves.
HeldAfter ==
    \A d \in Deploy \ moved : deploy[d].step \in {"mark", "ready", "merge"} =>
        /\ deploy[d].head = pr.head
        /\ change.by = deploy[d].by
        /\ Runner[d] # deploy[d].by
        /\ deploy[d].armed \ {deploy[d].by} # {}

\* Somebody is there to tell the outcome.
SomebodyTells ==
    /\ change.status = "implementing" /\ faults = 0 =>
         \E d \in Deploy : deploy[d].step \in {"ready", "merge", "command", "tell"}
    /\ \A d \in Deploy : deploy[d].step \in {"command", "tell"} => pr.merged # Nothing
    /\ pr.merged # Nothing /\ faults = 0 =>
         \E d \in Deploy : deploy[d].step \in {"command", "tell", "done"}

\* Nobody works on a deployed change, and it was merged.
DeployedIsOver ==
    change.status = "deployed" => pr.merged # Nothing /\ \A d \in Deploy : ~Running(d)

DeployInv ==
    /\ DeployTypeOK
    /\ OneRuns
    /\ VerdictIsOld
    /\ SeenBefore
    /\ ArmedBefore
    /\ HeldAfter
    /\ SomebodyTells
    /\ DeployedIsOver

-----------------------------------------------------------------------------
LEMMA DeployInitially == DeployInit => DeployInv
BY DeployAssumption DEF DeployInit, DeployInv, DeployTypeOK, OneRuns, VerdictIsOld, SeenBefore,
    ArmedBefore, HeldAfter, SomebodyTells, DeployedIsOver, Running, Step, Seen

(* A step of a dispatch concerns nobody else, and what it has seen stays. *)
LEMMA StepToOnly ==
    ASSUME DeployTypeOK, NEW d \in Deploy, NEW s \in Step, StepTo(d, s)
    PROVE  /\ \A e \in Deploy : e # d => deploy'[e] = deploy[e]
           /\ deploy'[d].step = s /\ deploy'[d].by = deploy[d].by
           /\ deploy'[d].head = deploy[d].head /\ deploy'[d].armed = deploy[d].armed
           /\ deploy' \in [Deploy -> Seen]
BY DEF DeployTypeOK, StepTo, Seen

(* begin and the check of the arm. *)
LEMMA BeginKeeps ==
    ASSUME DeployInv, NEW d \in Deploy, Begin(d)
    PROVE  DeployInv'
<1> USE DeployAssumption DEF DeployInv
<1>1. /\ deploy[d].step = "idle"
      /\ \A e \in Deploy : ~Running(e)
      /\ UNCHANGED <<change, pr, arms, trusted, moved, faults>>
  BY DEF Begin, At
<1>2. /\ \A e \in Deploy : e # d => deploy'[e] = deploy[e]
      /\ deploy'[d].step = IF Admitted(d) THEN "arm" ELSE "refused"
      /\ deploy'[d].by = change.by /\ deploy'[d].head = change.validated
  BY DEF Begin, DeployTypeOK, Seen
<1>3. DeployTypeOK'
  <2>1. deploy'[d] \in Seen
    BY <1>1 DEF DeployTypeOK, Begin, Step, Seen
  <2>2. deploy' = [deploy EXCEPT ![d] = deploy'[d]]
    BY DEF Begin, DeployTypeOK
  <2>3. QED
    BY <1>1, <2>1, <2>2 DEF DeployTypeOK
<1>4. OneRuns'
  BY <1>1, <1>2 DEF OneRuns, Running
<1>5. VerdictIsOld'
  BY <1>1 DEF VerdictIsOld
<1>6. SeenBefore'
  BY <1>1, <1>2 DEF SeenBefore, VerdictIsOld, Admitted, DeployTypeOK, Running
<1>7. ArmedBefore' /\ HeldAfter'
  BY <1>1, <1>2 DEF ArmedBefore, HeldAfter, Running
<1>8. SomebodyTells'
  BY <1>1, <1>2 DEF SomebodyTells
<1>9. DeployedIsOver'
  BY <1>1, <1>2 DEF DeployedIsOver, Admitted, Due, Running
<1>10. QED
  BY <1>3, <1>4, <1>5, <1>6, <1>7, <1>8, <1>9

LEMMA CheckArmKeeps ==
    ASSUME DeployInv, NEW d \in Deploy, CheckArm(d)
    PROVE  DeployInv'
<1> USE DeployAssumption DEF DeployInv
<1>1. /\ deploy[d].step = "arm"
      /\ UNCHANGED <<change, pr, arms, trusted, moved, faults>>
  BY DEF CheckArm, At
<1>2. /\ \A e \in Deploy : e # d => deploy'[e] = deploy[e]
      /\ deploy'[d].step = IF Arming(d) # {} THEN "fresh" ELSE "refused"
      /\ deploy'[d].by = deploy[d].by /\ deploy'[d].head = deploy[d].head
      /\ deploy'[d].armed = Arming(d)
  BY DEF CheckArm, DeployTypeOK, Seen
<1>3. Arming(d) \subseteq Person /\ Arming(d) \ {deploy[d].by} = Arming(d)
  BY DEF Arming, DeployTypeOK
<1>4. DeployTypeOK'
  <2>1. deploy'[d] \in Seen
    <3>1. deploy \in [Deploy -> Seen]
      BY DEF DeployTypeOK
    <3> HIDE DEF DeployInv
    <3>2. deploy'[d] = [deploy[d] EXCEPT !.step = IF Arming(d) # {} THEN "fresh" ELSE "refused",
                                         !.armed = Arming(d)]
      BY <3>1 DEF CheckArm
    <3>3. "fresh" \in Step /\ "refused" \in Step
      BY DEF Step
    <3> QED BY <1>3, <3>1, <3>2, <3>3 DEF Seen
  <2>2. deploy' = [deploy EXCEPT ![d] = deploy'[d]]
    BY DEF CheckArm, DeployTypeOK
  <2>3. QED
    BY <1>1, <2>1, <2>2 DEF DeployTypeOK
<1>5. OneRuns'
  BY <1>1, <1>2 DEF OneRuns, Running
<1>6. VerdictIsOld'
  BY <1>1 DEF VerdictIsOld
<1>7. SeenBefore' /\ HeldAfter'
  BY <1>1, <1>2 DEF SeenBefore, HeldAfter
<1>8. ArmedBefore'
  BY <1>2, <1>3 DEF ArmedBefore
<1>9. SomebodyTells'
  BY <1>1, <1>2 DEF SomebodyTells
<1>10. DeployedIsOver'
  BY <1>1, <1>2 DEF DeployedIsOver, Running
<1>11. QED
  BY <1>4, <1>5, <1>6, <1>7, <1>8, <1>9, <1>10

LEMMA CheckFreshKeeps ==
    ASSUME DeployInv, NEW d \in Deploy, NEW replies \in BOOLEAN, CheckFresh(d, replies)
    PROVE  DeployInv'
<1> DEFINE s == IF replies /\ Fresh(d) THEN "mark" ELSE "refused"
<1> USE DeployAssumption DEF DeployInv
<1>1. /\ deploy[d].step = "fresh"
      /\ UNCHANGED <<change, pr, arms, trusted, moved, faults>>
  BY DEF CheckFresh, At
<1>2. s \in Step /\ StepTo(d, s)
  BY DEF CheckFresh, Step
<1>3. /\ \A e \in Deploy : e # d => deploy'[e] = deploy[e]
      /\ deploy'[d].step = s /\ deploy'[d].by = deploy[d].by
      /\ deploy'[d].head = deploy[d].head /\ deploy'[d].armed = deploy[d].armed
  BY <1>2, StepToOnly
<1>4. DeployTypeOK'
  BY <1>1, <1>2, StepToOnly DEF DeployTypeOK
<1>5. OneRuns' /\ VerdictIsOld' /\ SeenBefore' /\ ArmedBefore'
  BY <1>1, <1>3 DEF OneRuns, VerdictIsOld, SeenBefore, ArmedBefore, Running
<1>6. HeldAfter'
  BY <1>1, <1>3 DEF HeldAfter, SeenBefore, ArmedBefore, Fresh
<1>7. SomebodyTells' /\ DeployedIsOver'
  BY <1>1, <1>3 DEF SomebodyTells, DeployedIsOver, Running
<1>8. QED
  BY <1>4, <1>5, <1>6, <1>7

(* After the last look: a dispatch goes on to the next step, or ends.  Only *)
(* the record's status and what is merged can change.                       *)
LEMMA LaterKeeps ==
    ASSUME DeployInv, NEW d \in Deploy, NEW s \in Step \ {"idle", "arm", "fresh", "mark"},
           deploy[d].step \in {"mark", "ready", "merge", "command", "tell"} \/ s = "dead",
           Running(d),
           s = "ready" => deploy[d].step = "mark",
           s = "merge" => deploy[d].step = "ready",
           StepTo(d, s),
           DeployTypeOK', pr'.head = pr.head, UNCHANGED moved,
           change'.by = change.by, change'.validated = change.validated
    PROVE  OneRuns' /\ VerdictIsOld' /\ SeenBefore' /\ ArmedBefore' /\ HeldAfter'
<1> USE DEF DeployInv
<1>1. /\ \A e \in Deploy : e # d => deploy'[e] = deploy[e]
      /\ deploy'[d].step = s /\ deploy'[d].by = deploy[d].by
      /\ deploy'[d].head = deploy[d].head /\ deploy'[d].armed = deploy[d].armed
  BY StepToOnly
<1>2. OneRuns'
  BY <1>1 DEF OneRuns, Running
<1>3. VerdictIsOld'
  BY DEF VerdictIsOld
<1>4. SeenBefore' /\ ArmedBefore'
  BY <1>1 DEF SeenBefore, ArmedBefore
<1>5. HeldAfter'
  BY <1>1 DEF HeldAfter
<1>6. QED
  BY <1>2, <1>3, <1>4, <1>5

LEMMA MarkImplementingKeeps ==
    ASSUME DeployInv, NEW d \in Deploy, NEW written \in BOOLEAN, MarkImplementing(d, written)
    PROVE  DeployInv'
<1> DEFINE s == IF written THEN "ready" ELSE "refused"
<1> USE DEF DeployInv
<1>1. /\ deploy[d].step = "mark" /\ Running(d)
      /\ s \in Step \ {"idle", "arm", "fresh", "mark"} /\ StepTo(d, s)
      /\ UNCHANGED <<pr, arms, trusted, moved, faults>>
  BY DEF MarkImplementing, At, Running, Step
<1>2. change' = change \/ (s = "ready" /\ change' = [change EXCEPT !.status = "implementing"])
  BY DEF MarkImplementing, Status
<1>3. DeployTypeOK'
  BY <1>1, <1>2, StepToOnly DEF DeployTypeOK
<1>4. change'.by = change.by /\ change'.validated = change.validated
  BY <1>2 DEF DeployTypeOK
<1>5. OneRuns' /\ VerdictIsOld' /\ SeenBefore' /\ ArmedBefore' /\ HeldAfter'
  BY <1>1, <1>3, <1>4, LaterKeeps
<1>6. /\ \A e \in Deploy : e # d => deploy'[e] = deploy[e]
      /\ deploy'[d].step = s
  BY <1>1, StepToOnly
<1>7. SomebodyTells' /\ DeployedIsOver'
  BY <1>1, <1>2, <1>6 DEF SomebodyTells, DeployedIsOver, DeployTypeOK
<1>8. QED
  BY <1>3, <1>5, <1>7

(* _fail(), from any step after the record says implementing. *)
LEMMA FailKeeps ==
    ASSUME DeployInv, NEW d \in Deploy, NEW written \in BOOLEAN,
           deploy[d].step \in {"ready", "merge", "command", "tell"}, Fail(d, written),
           MergedNow \/ UNCHANGED pr, UNCHANGED <<arms, trusted, moved>>
    PROVE  DeployInv'
<1> USE DEF DeployInv
<1>0. pr'.head = pr.head /\ pr' \in [head : Nat, merged : Nat \cup {Nothing}]
      /\ (pr.merged # Nothing => pr'.merged # Nothing)
  BY DeployAssumption DEF MergedNow, DeployTypeOK
<1>1. /\ Running(d) /\ "done" \in Step \ {"idle", "arm", "fresh", "mark"}
      /\ StepTo(d, "done")
  BY DEF Fail, Running, Step
<1>2. \/ change' = [change EXCEPT !.status = "failed"] /\ faults' = faults
      \/ change' = change /\ faults' = faults + 1
  BY DEF Fail, Status
<1>3. DeployTypeOK'
  BY <1>0, <1>1, <1>2, StepToOnly DEF DeployTypeOK
<1>4. change'.by = change.by /\ change'.validated = change.validated
  BY <1>2 DEF DeployTypeOK
<1>5. OneRuns' /\ VerdictIsOld' /\ SeenBefore' /\ ArmedBefore' /\ HeldAfter'
  BY <1>0, <1>1, <1>3, <1>4, LaterKeeps
<1>6. /\ \A e \in Deploy : e # d => deploy'[e] = deploy[e]
      /\ deploy'[d].step = "done"
  BY <1>1, StepToOnly
<1>7. change'.status = "failed" \/ faults' # 0
  BY <1>2 DEF DeployTypeOK
<1>8. SomebodyTells'
  BY <1>0, <1>2, <1>6, <1>7 DEF SomebodyTells, DeployTypeOK
<1>9. DeployedIsOver'
  BY <1>0, <1>1, <1>2 DEF DeployedIsOver, DeployTypeOK
<1>10. QED
  BY <1>3, <1>5, <1>8, <1>9

(* gh pr ready and the deploy command, which lead to the next step. *)
LEMMA GoesOnKeeps ==
    ASSUME DeployInv, NEW d \in Deploy, NEW s \in {"merge", "tell"}, StepTo(d, s),
           deploy[d].step = IF s = "merge" THEN "ready" ELSE "command",
           UNCHANGED <<change, pr, arms, trusted, moved, faults>>
    PROVE  DeployInv'
<1> USE DEF DeployInv
<1>1. Running(d) /\ s \in Step \ {"idle", "arm", "fresh", "mark"}
  BY DEF Running, Step
<1>2. DeployTypeOK'
  BY <1>1, StepToOnly DEF DeployTypeOK
<1>3. OneRuns' /\ VerdictIsOld' /\ SeenBefore' /\ ArmedBefore' /\ HeldAfter'
  BY <1>1, <1>2, LaterKeeps
<1>4. /\ \A e \in Deploy : e # d => deploy'[e] = deploy[e]
      /\ deploy'[d].step = s
  BY <1>1, StepToOnly
<1>5. SomebodyTells' /\ DeployedIsOver'
  BY <1>1, <1>4 DEF SomebodyTells, DeployedIsOver
<1>6. QED
  BY <1>2, <1>3, <1>5

LEMMA MergeKeeps ==
    ASSUME DeployInv, NEW d \in Deploy, StepTo(d, "command"), deploy[d].step = "merge",
           pr' = [pr EXCEPT !.merged = pr.head],
           UNCHANGED <<change, arms, trusted, moved, faults>>
    PROVE  DeployInv'
<1> USE DeployAssumption DEF DeployInv
<1>1. Running(d) /\ "command" \in Step \ {"idle", "arm", "fresh", "mark"}
  BY DEF Running, Step
<1>2. DeployTypeOK' /\ pr'.head = pr.head /\ pr'.merged # Nothing
  BY <1>1, StepToOnly DEF DeployTypeOK
<1>3. OneRuns' /\ VerdictIsOld' /\ SeenBefore' /\ ArmedBefore' /\ HeldAfter'
  BY <1>1, <1>2, LaterKeeps
<1>4. /\ \A e \in Deploy : e # d => deploy'[e] = deploy[e]
      /\ deploy'[d].step = "command"
  BY <1>1, StepToOnly
<1>5. SomebodyTells' /\ DeployedIsOver'
  BY <1>1, <1>2, <1>4 DEF SomebodyTells, DeployedIsOver
<1>6. QED
  BY <1>2, <1>3, <1>5

LEMMA DeployedKeeps ==
    ASSUME DeployInv, NEW d \in Deploy, StepTo(d, "done"), deploy[d].step = "tell",
           change' = [change EXCEPT !.status = "deployed"],
           UNCHANGED <<pr, arms, trusted, moved, faults>>
    PROVE  DeployInv'
<1> USE DEF DeployInv
<1>1. Running(d) /\ "done" \in Step \ {"idle", "arm", "fresh", "mark"}
  BY DEF Running, Step
<1>2. /\ DeployTypeOK' /\ change'.status = "deployed"
      /\ change'.by = change.by /\ change'.validated = change.validated
  BY <1>1, StepToOnly DEF DeployTypeOK
<1>3. OneRuns' /\ VerdictIsOld' /\ SeenBefore' /\ ArmedBefore' /\ HeldAfter'
  BY <1>1, <1>2, LaterKeeps
<1>4. /\ \A e \in Deploy : e # d => deploy'[e] = deploy[e]
      /\ deploy'[d].step = "done"
  BY <1>1, StepToOnly
<1>5. SomebodyTells'
  BY <1>2, <1>4 DEF SomebodyTells
<1>6. DeployedIsOver'
  BY <1>1, <1>2, <1>4 DEF DeployedIsOver, SomebodyTells, OneRuns, Running
<1>7. QED
  BY <1>2, <1>3, <1>5, <1>6

LEMMA DiesKeeps ==
    ASSUME DeployInv, NEW d \in Deploy, Dies(d)
    PROVE  DeployInv'
<1> USE DEF DeployInv
<1>1. /\ Running(d) /\ "dead" \in Step \ {"idle", "arm", "fresh", "mark"}
      /\ StepTo(d, "dead") /\ faults' = faults + 1
      /\ UNCHANGED <<change, pr, arms, trusted, moved>>
  BY DEF Dies, Step
<1>2. DeployTypeOK' /\ faults' # 0
  BY <1>1, StepToOnly DEF DeployTypeOK
<1>3. OneRuns' /\ VerdictIsOld' /\ SeenBefore' /\ ArmedBefore' /\ HeldAfter'
  BY <1>1, <1>2, LaterKeeps
<1>4. /\ \A e \in Deploy : e # d => deploy'[e] = deploy[e]
      /\ deploy'[d].step = "dead"
  BY <1>1, StepToOnly
<1>5. SomebodyTells' /\ DeployedIsOver'
  BY <1>1, <1>2, <1>4 DEF SomebodyTells, DeployedIsOver
<1>6. QED
  BY <1>2, <1>3, <1>5

LEMMA DispatchKeeps ==
    ASSUME DeployInv, NEW d \in Deploy, DeployNext(d)
    PROVE  DeployInv'
<1>1. CASE Begin(d) \/ CheckArm(d)
  BY <1>1, BeginKeeps, CheckArmKeeps
<1>2. ASSUME NEW works \in BOOLEAN, CheckFresh(d, works) \/ MarkImplementing(d, works)
      PROVE  DeployInv'
  BY <1>2, CheckFreshKeeps, MarkImplementingKeeps
<1>3. ASSUME NEW works \in BOOLEAN, NEW written \in BOOLEAN, Ready(d, works, written)
      PROVE  DeployInv'
  BY <1>3, GoesOnKeeps, FailKeeps DEF Ready, At
<1>4. ASSUME NEW works \in BOOLEAN, NEW written \in BOOLEAN, Merge(d, works, written)
      PROVE  DeployInv'
  BY <1>4, MergeKeeps, FailKeeps DEF Merge, MergedNow, At
<1>5. ASSUME NEW works \in BOOLEAN, NEW written \in BOOLEAN, Command(d, works, written)
      PROVE  DeployInv'
  BY <1>5, GoesOnKeeps, FailKeeps DEF Command, At
<1>6. ASSUME NEW works \in BOOLEAN, NEW written \in BOOLEAN, MarkDeployed(d, works, written)
      PROVE  DeployInv'
  BY <1>6, DeployedKeeps, FailKeeps DEF MarkDeployed, At, Status
<1>7. QED
  BY <1>1, <1>2, <1>3, <1>4, <1>5, <1>6 DEF DeployNext

(* What others do: pushes, takeovers, validations, arms, revocations. *)
LEMMA PushKeeps ==
    ASSUME DeployInv, NEW p \in Person, Push(p), UNCHANGED <<deploy, faults>>
    PROVE  DeployInv'
<1> USE DeployAssumption DEF DeployInv
<1>1. /\ pr'.head = pr.head + 1 /\ pr'.merged = pr.merged /\ pr.merged = Nothing
      /\ pr' \in [head : Nat, merged : Nat \cup {Nothing}]
  BY DEF Push, DeployTypeOK
<1>2. /\ change'.status = change.status
      /\ change'.validated = change.validated \/ change'.validated = Nothing
      /\ moved' = moved \cup {d \in Deploy : deploy[d].step \in {"mark", "ready", "merge"}}
      /\ UNCHANGED <<arms, trusted>>
  BY DEF Push, DeployTypeOK
<1>3. DeployTypeOK'
  BY <1>1, <1>2 DEF Push, DeployTypeOK
<1>4. OneRuns' /\ ArmedBefore'
  BY DEF OneRuns, ArmedBefore, Running
<1>5. VerdictIsOld'
  BY <1>1, <1>2 DEF VerdictIsOld, DeployTypeOK
<1>6. SeenBefore'
  BY <1>1 DEF SeenBefore, DeployTypeOK
<1>7. HeldAfter'
  BY <1>2 DEF HeldAfter
<1>8. SomebodyTells' /\ DeployedIsOver'
  BY <1>1, <1>2 DEF SomebodyTells, DeployedIsOver, Running
<1>9. QED
  BY <1>3, <1>4, <1>5, <1>6, <1>7, <1>8

LEMMA MeanwhileKeeps ==
    ASSUME DeployInv, UNCHANGED <<deploy, faults>>,
           Validate \/ Turn \/ \E p \in Person : Arm(p)
    PROVE  DeployInv'
<1> USE DeployAssumption DEF DeployInv
<1>1. /\ UNCHANGED <<pr, moved>> /\ change'.by = change.by
      /\ change'.validated = change.validated \/ change'.validated = pr.head
      /\ change'.status = change.status
           \/ (change.status = "failed" /\ change'.status = "scheduled")
  BY DEF Validate, Turn, Arm, Status, DeployTypeOK
<1>2. DeployTypeOK'
  BY <1>1 DEF Validate, Turn, Arm, Status, DeployTypeOK
<1>3. OneRuns' /\ ArmedBefore' /\ SeenBefore' /\ HeldAfter'
  BY <1>1 DEF OneRuns, ArmedBefore, SeenBefore, HeldAfter, Running
<1>4. VerdictIsOld'
  BY <1>1 DEF VerdictIsOld, DeployTypeOK
<1>5. SomebodyTells' /\ DeployedIsOver'
  BY <1>1 DEF SomebodyTells, DeployedIsOver, Running
<1>6. QED
  BY <1>2, <1>3, <1>4, <1>5

LEMMA ChangeNextKeeps == DeployInv /\ [ChangeNext]_deployVars => DeployInv'
<1> SUFFICES ASSUME DeployInv, [ChangeNext]_deployVars PROVE DeployInv'
  OBVIOUS
<1>1. CASE \E d \in Deploy : DeployNext(d) \/ Dies(d)
  BY <1>1, DispatchKeeps, DiesKeeps
<1>2. CASE Others(Validate \/ Turn \/ \E p \in Person : Push(p) \/ Arm(p))
  BY <1>2, PushKeeps, MeanwhileKeeps DEF Others
<1>3. CASE UNCHANGED deployVars
  BY <1>3 DEF deployVars, DeployInv, DeployTypeOK, OneRuns, VerdictIsOld, SeenBefore,
      ArmedBefore, HeldAfter, SomebodyTells, DeployedIsOver, Running
<1>4. QED
  BY <1>1, <1>2, <1>3 DEF ChangeNext

(* The invariant of deploy_dispatch() holds at every step. *)
THEOREM DeployInvHolds == DeploySpec => []DeployInv
BY DeployInitially, ChangeNextKeeps, PTL DEF DeploySpec

-----------------------------------------------------------------------------
(* What the invariant gives. *)

(* A status is turned only by a dispatch that runs, or by rescheduling a    *)
(* failed change.                                                           *)
LEMMA OnlyRunnersTurn ==
    ASSUME DeployInv, ChangeNext, change.status = "deployed"
    PROVE  change'.status = "deployed"
<1> USE DEF DeployInv
<1>1. \A d \in Deploy : ~Running(d)
  BY DEF DeployedIsOver
<1>2. ASSUME NEW d \in Deploy, DeployNext(d) \/ Dies(d)
      PROVE  change' = change
  BY <1>1, <1>2 DEF DeployNext, Dies, Begin, CheckArm, CheckFresh, MarkImplementing, Ready, Merge,
      Command, MarkDeployed, At, Running
<1>3. CASE Others(Validate \/ Turn \/ \E p \in Person : Push(p) \/ Arm(p))
  BY <1>3 DEF Others, Validate, Turn, Push, Arm, Status, DeployTypeOK
<1>4. QED
  BY <1>2, <1>3 DEF ChangeNext

LEMMA MergeIsChecked ==
    ASSUME DeployInv, NEW d \in Deploy \ moved, Merging(d)
    PROVE  /\ pr.head = deploy[d].head
           /\ Runner[d] # change.by
           /\ deploy[d].armed \ {change.by} # {}
BY DEF DeployInv, HeldAfter, Merging, At

LEMMA OutcomeFollows == DeployInv => OutcomeIsTold
BY DEF DeployInv, OutcomeIsTold, SomebodyTells, DeployedIsOver, Running, At

(* Whoever pushes, takes the change over, withdraws an arm, reschedules or  *)
(* dies between the steps of deploy_dispatch(), and however many dispatches *)
(* there are: what is merged is the head that was validated, drafted by     *)
(* neither the runner nor the only one who armed it, unless the head moved  *)
(* after the last look at it; the outcome is told unless a dispatch died or *)
(* an event was lost; and a deployed change stays deployed.                 *)
THEOREM DeployIsAlwaysChecked == DeploySpec => DeployIsChecked
<1>1. DeployInv /\ [ChangeNext]_deployVars =>
        [\A d \in Deploy \ moved : Merging(d) => pr.head = deploy[d].head]_deployVars
  BY MergeIsChecked
<1>2. DeployInv /\ [ChangeNext]_deployVars =>
        [\A d \in Deploy \ moved : Merging(d) =>
           /\ Runner[d] # change.by
           /\ deploy[d].armed \ {change.by} # {}]_deployVars
  BY MergeIsChecked
<1>3. DeployInv /\ [ChangeNext]_deployVars =>
        [change.status = "deployed" => change'.status = "deployed"]_deployVars
  BY OnlyRunnersTurn DEF deployVars
<1>4. DeployInv' => [OutcomeIsTold']_deployVars
  <2>1. DeployInv' => OutcomeIsTold'
    BY OutcomeFollows, PTL
  <2>2. QED
    BY <2>1
<1>5. DeploySpec => MergesWhatWasValidated
  BY <1>1, DeployInvHolds, PTL DEF DeploySpec, MergesWhatWasValidated
<1>6. DeploySpec => FourEyes
  BY <1>2, DeployInvHolds, PTL DEF DeploySpec, FourEyes
<1>7. DeploySpec => DeployedStays
  BY <1>3, DeployInvHolds, PTL DEF DeploySpec, DeployedStays
<1>8. DeploySpec => [][OutcomeIsTold']_deployVars
  BY <1>4, DeployInvHolds, PTL DEF DeploySpec
<1>9. QED
  BY <1>5, <1>6, <1>7, <1>8 DEF DeployIsChecked

-----------------------------------------------------------------------------
(* The grading of a card. *)

BareCard == [text : Text, override : Mark, grade : {NoGrade}]

\* A grade is the rules' for the card it was given to.
Grade ==
    {g \in [class : {ModelClassFor(a) : a \in Axes}, zone : Zone, of : BareCard, by : {NoMark, "ours"}] :
        g.zone = Rules(g.of)}

GradedCard == [text : Text, override : Mark, grade : Grade \cup {NoGrade, HalfGrade}]

CardOK ==
    /\ card \in GradedCard
    /\ card.grade \in {NoGrade, HalfGrade} \/ card.grade.by = "ours"

PassStep == {"idle", "assess", "budget", "confirm", "ground", "write", "plan", "build", "exam", "done"}

PassOK ==
    /\ judging \in [pc : PassStep, seen : GradedCard \cup {NoGrade}, left : Nat, tried : Nat,
                    axes : Axes \cup {NoGrade}, heard : Seq(Verdict \cup {"odd", NoMark}),
                    verdict : Verdict \cup {NoGrade}, fresh : Grade \cup {NoGrade},
                    item : Grade \cup {NoGrade}, build : Bucket \cup {NoModel, Refused},
                    exam : Bucket \cup {NoModel}]
    /\ judging.pc # "idle" => judging.seen \in GradedCard
    /\ overrides \in BOOLEAN

\* A call that is over has given its tries back.
BudgetOK ==
    /\ judging.tried + judging.left <= MaxAttempts
    /\ judging.pc \notin {"assess", "confirm", "exam"} => judging.tried = 0
    /\ health \in Seq({"ok", "inconclusive"}) /\ Len(health) <= Window

\* The grade a pass gives is of the card it read, and the grade it builds with
\* is that one or the one the card was read with.
GradeOfSeen ==
    /\ judging.fresh # NoGrade => judging.fresh.zone = Rules(judging.seen)
    /\ judging.pc = "write" => judging.fresh # NoGrade
    /\ judging.item # NoGrade /\ judging.fresh # NoGrade => judging.item = judging.fresh
    /\ judging.pc \in {"idle", "assess", "budget", "confirm", "ground", "write", "plan"} =>
         judging.item = NoGrade

\* What was launched, and in which bucket.
LaunchedAsGraded ==
    /\ judging.pc \notin {"exam", "done"} => judging.build = NoModel
    /\ judging.pc # "done" => judging.exam = NoModel
    /\ judging.build # NoModel \/ judging.pc = "exam" => judging.build = Launched(BucketFor(judging.item))
    /\ judging.pc = "exam" => judging.build # Refused
    /\ judging.pc = "done" /\ judging.item # NoGrade => judging.build # NoModel

\* The verdict is the answer that was heard.
VerdictFollows ==
    /\ judging.pc \in {"idle", "assess"} => judging.verdict = NoGrade
    /\ judging.pc \in {"budget", "confirm"} => judging.heard = <<"needs_decision">>
    /\ VerdictIsEarned

RouteOK ==
    /\ route \in [default : Setting, floor : Setting, tag : Setting,
                  kind : {NoMark, "engineering", "engineering-direct"}]
    /\ GateNotLowered

PassInv ==
    CardOK /\ PassOK /\ BudgetOK /\ GradeOfSeen /\ LaunchedAsGraded /\ ExaminerIsPinned /\ VerdictFollows

GradingInv == PassInv /\ RouteOK


\* A card before its first pass.
LEMMA GradingInitially == GradingInit => GradingInv
<1> SUFFICES ASSUME GradingInit PROVE GradingInv
  OBVIOUS
<1>1. judging = NewPass("idle", NoGrade, 0) /\ health = <<>> /\ overrides \in BOOLEAN
  BY DEF GradingInit
<1>2. CardOK
  BY DEF GradingInit, CardOK, GradedCard, Mark
<1>3. PassOK
  BY <1>1 DEF PassOK, NewPass, PassStep
<1>4. BudgetOK
  BY <1>1, GradingAssumption DEF BudgetOK, NewPass
<1>5. GradeOfSeen /\ LaunchedAsGraded /\ ExaminerIsPinned
  BY <1>1 DEF GradeOfSeen, LaunchedAsGraded, ExaminerIsPinned, NewPass
<1>6. VerdictFollows
  BY <1>1, NothingAssumption DEF VerdictFollows, VerdictIsEarned, NewPass, Verdict
<1>7. RouteOK
  BY NothingAssumption DEF GradingInit, RouteOK, GateNotLowered
<1> QED BY <1>2, <1>3, <1>4, <1>5, <1>6, <1>7 DEF GradingInv, PassInv

\* _run_attempts() keeps between one try and its ceiling.
LEMMA AttemptsBounded == RunAttempts \in 1 .. MaxAttempts
<1>1. /\ MaxAttempts \in Nat /\ BaseAttempts \in 1 .. MaxAttempts
  BY GradingAssumption
<1>2. RunAttempts \in {MaxAttempts, BaseAttempts, IF BaseAttempts + 2 < MaxAttempts THEN BaseAttempts + 2 ELSE MaxAttempts}
  BY DEF RunAttempts
<1> QED BY <1>1, <1>2

\* The health log keeps to its window.
LEMMA LoggedFits ==
  ASSUME BudgetOK, NEW e \in {"ok", "inconclusive"}
  PROVE  Logged(e) \in Seq({"ok", "inconclusive"}) /\ Len(Logged(e)) <= Window
<1> DEFINE h == Append(health, e)
<1>1. /\ health \in Seq({"ok", "inconclusive"}) /\ Len(health) <= Window /\ Window \in Nat \ {0}
  BY GradingAssumption DEF BudgetOK
<1>2. h \in Seq({"ok", "inconclusive"}) /\ Len(h) = Len(health) + 1 /\ Len(health) \in Nat
  BY <1>1
<1>3. Tail(h) \in Seq({"ok", "inconclusive"}) /\ Len(Tail(h)) = Len(health)
  BY <1>2
<1>4. Logged(e) = IF Len(h) > Window THEN Tail(h) ELSE h
  BY DEF Logged
<1>5. CASE Len(h) > Window
  BY <1>1, <1>3, <1>4, <1>5
<1>6. CASE ~(Len(h) > Window)
  BY <1>1, <1>2, <1>4, <1>6
<1> QED BY <1>5, <1>6

\* Cards whose rules agree: a grade's card is the card it was given to.
LEMMA GradeGiven ==
  ASSUME NEW c \in GradedCard, NEW axes \in Axes \cup {NoGrade}, WorkGradeFor(c, axes) # NoGrade
  PROVE  WorkGradeFor(c, axes) \in Grade /\ WorkGradeFor(c, axes).zone = Rules(c)
<1> DEFINE b == [c EXCEPT !.grade = NoGrade]
<1>1. /\ axes \in Axes /\ c.override # "malformed"
      /\ WorkGradeFor(c, axes) = [class |-> ModelClassFor(axes), zone |-> Rules(c), of |-> b, by |-> NoMark]
  BY DEF WorkGradeFor, Malformed
<1>2. b \in BareCard /\ b.override = c.override /\ b.text = c.text
  BY DEF GradedCard, BareCard
<1>3. Rules(b) = Rules(c)
  BY <1>2 DEF Rules
<1>4. Rules(c) \in Zone
  BY <1>1 DEF Rules, GradedCard, Mark, Zone
<1> QED BY <1>1, <1>2, <1>3, <1>4 DEF Grade

\* Opening a pass: it reads the card.
LEMMA BeginPassKeeps ==
  ASSUME PassInv, BeginPass PROVE PassInv'
<1>1. judging' = NewPass("assess", card, RunAttempts) /\ UNCHANGED <<card, health, overrides, extended>>
  BY DEF BeginPass
<1>2. RunAttempts \in Nat /\ RunAttempts <= MaxAttempts
  BY AttemptsBounded, GradingAssumption
<1>3. CardOK' /\ PassOK'
  BY <1>1, <1>2 DEF PassInv, CardOK, PassOK, NewPass, PassStep
<1>4. BudgetOK'
  BY <1>1, <1>2, GradingAssumption DEF PassInv, BudgetOK, NewPass
<1>5. (GradeOfSeen /\ LaunchedAsGraded /\ ExaminerIsPinned)'
  BY <1>1 DEF GradeOfSeen, LaunchedAsGraded, ExaminerIsPinned, NewPass
<1>6. VerdictFollows'
  BY <1>1, NothingAssumption DEF VerdictFollows, VerdictIsEarned, NewPass, Verdict
<1> QED BY <1>3, <1>4, <1>5, <1>6 DEF PassInv

\* A try that failed and is not the last: only the tries are counted.
LEMMA RetryKeeps ==
  ASSUME PassInv, judging.pc \in {"assess", "confirm", "exam"}, judging.left > 1,
         judging' = [judging EXCEPT !.left = @ - 1, !.tried = @ + 1],
         UNCHANGED <<card, health, overrides>>
  PROVE  PassInv'
<1>1. judging.left \in Nat /\ judging.tried \in Nat /\ judging.left - 1 \in Nat /\ judging.tried + 1 \in Nat
  BY DEF PassInv, PassOK
<1>2. CardOK'
  BY DEF PassInv, CardOK
<1>3. PassOK'
  BY <1>1 DEF PassInv, PassOK
<1>4. /\ judging'.left = judging.left - 1 /\ judging'.tried = judging.tried + 1
      /\ judging'.pc = judging.pc /\ judging'.seen = judging.seen /\ judging'.heard = judging.heard
      /\ judging'.verdict = judging.verdict /\ judging'.fresh = judging.fresh /\ judging'.item = judging.item
      /\ judging'.build = judging.build /\ judging'.exam = judging.exam
  BY DEF PassInv, PassOK
<1>5. BudgetOK'
  <2>1. judging'.tried + judging'.left = judging.tried + judging.left
    BY <1>1, <1>4
  <2> QED BY <2>1, <1>4 DEF PassInv, BudgetOK
<1>6. (GradeOfSeen /\ LaunchedAsGraded /\ ExaminerIsPinned /\ VerdictFollows)'
  BY <1>4 DEF PassInv, GradeOfSeen, LaunchedAsGraded, Launched, ExaminerIsPinned, VerdictFollows, VerdictIsEarned
<1> QED BY <1>2, <1>3, <1>5, <1>6 DEF PassInv

\* A call is over: its tries are given back, the log has one event more and a
\* card is not touched.
CallEnds(after) ==
    /\ judging' = [after EXCEPT !.left = 0, !.tried = 0]
    /\ health' \in {Logged("ok"), Logged("inconclusive")}
    /\ UNCHANGED <<card, overrides>>

\* Whatever ends a call, the log and the tries are in order after it.
LEMMA CallEndsBudget ==
  ASSUME PassInv, NEW after, CallEnds(after), judging'.left = 0, judging'.tried = 0 PROVE BudgetOK' /\ CardOK'
<1>1. health' \in Seq({"ok", "inconclusive"}) /\ Len(health') <= Window
  BY LoggedFits DEF CallEnds, PassInv
<1> QED BY <1>1, GradingAssumption DEF BudgetOK, CallEnds, PassInv, CardOK

\* assess() that never answered goes on to the gate.
LEMMA AssessSilentKeeps ==
  ASSUME PassInv, AssessSilent PROVE PassInv'
<1> DEFINE after == [judging EXCEPT !.pc = "ground", !.verdict = "valid"]
<1>1. CASE judging.left > 1
  BY <1>1, RetryKeeps DEF AssessSilent, Silence, Judging
<1>2. CASE ~(judging.left > 1)
  <2>1. judging.pc = "assess" /\ CallEnds(after)
    BY <1>2 DEF AssessSilent, Silence, Judging, CallEnds
  <2>2. /\ judging'.left = 0 /\ judging'.tried = 0 /\ judging'.pc = "ground" /\ judging'.seen = judging.seen
        /\ judging'.verdict = "valid" /\ judging'.fresh = judging.fresh /\ judging'.item = judging.item
        /\ judging'.build = judging.build /\ judging'.exam = judging.exam
    BY <2>1 DEF CallEnds, PassInv, PassOK
  <2>3. PassOK'
    BY <2>1 DEF CallEnds, PassInv, PassOK, PassStep, Verdict
  <2>4. (GradeOfSeen /\ LaunchedAsGraded /\ ExaminerIsPinned /\ VerdictFollows)'
    BY <2>1, <2>2 DEF PassInv, GradeOfSeen, LaunchedAsGraded, ExaminerIsPinned, VerdictFollows, VerdictIsEarned
  <2> QED BY <2>1, <2>2, <2>3, <2>4, CallEndsBudget DEF PassInv
<1> QED BY <1>1, <1>2

\* An answer: the verdict is the one that was heard, or none of the list.
LEMMA AssessAnswersKeeps ==
  ASSUME PassInv, NEW said \in Verdict \cup {"odd"}, NEW axes \in Axes \cup {NoGrade}, AssessAnswers(said, axes)
  PROVE  PassInv'
<1> DEFINE v == IF said \in Verdict THEN said ELSE "valid"
           after == [judging EXCEPT !.axes = axes, !.heard = <<said>>,
                      !.pc = IF said = "needs_decision" THEN "budget" ELSE "ground", !.verdict = v]
<1>1. /\ judging.pc = "assess" /\ CallEnds(after)
  BY DEF AssessAnswers, Judging, CallEnds, PassInv, PassOK
<1>2. /\ judging'.left = 0 /\ judging'.tried = 0 /\ judging'.seen = judging.seen
      /\ judging'.pc = IF said = "needs_decision" THEN "budget" ELSE "ground"
      /\ judging'.heard = <<said>>
      /\ judging'.verdict = v /\ judging'.fresh = judging.fresh /\ judging'.item = judging.item
      /\ judging'.build = judging.build /\ judging'.exam = judging.exam
  BY <1>1 DEF CallEnds, PassInv, PassOK
<1>3. v \in Verdict /\ <<said>> \in Seq(Verdict \cup {"odd", NoMark})
  BY DEF Verdict
<1>4. PassOK'
  <2> DEFINE pc == IF said = "needs_decision" THEN "budget" ELSE "ground"
  <2>1. judging' = [judging EXCEPT !.axes = axes, !.heard = <<said>>, !.pc = pc, !.verdict = v,
                                   !.left = 0, !.tried = 0]
    BY <1>1 DEF CallEnds, PassInv, PassOK
  <2>2. pc \in PassStep /\ pc # "idle"
    BY DEF PassStep
  <2>3. judging.seen \in GradedCard /\ overrides' = overrides
    BY <1>1 DEF PassInv, PassOK, CallEnds
  <2> HIDE DEF pc, v
  <2> QED BY <2>1, <2>2, <2>3, <1>3 DEF PassInv, PassOK
<1>5. (GradeOfSeen /\ LaunchedAsGraded /\ ExaminerIsPinned)'
  BY <1>1, <1>2 DEF PassInv, GradeOfSeen, LaunchedAsGraded, ExaminerIsPinned
<1>6. VerdictFollows'
  BY <1>2 DEF VerdictFollows, VerdictIsEarned, Verdict
<1> QED BY <1>1, <1>2, <1>4, <1>5, <1>6, CallEndsBudget DEF PassInv

\* The call for a second opinion has a budget of its own.
LEMMA ConfirmBeginsKeeps ==
  ASSUME PassInv, ConfirmBegins PROVE PassInv'
<1>1. /\ judging.pc = "budget" /\ judging' = [judging EXCEPT !.pc = "confirm", !.left = RunAttempts]
      /\ UNCHANGED <<card, health, overrides>>
  BY DEF ConfirmBegins, Judging
<1>2. RunAttempts \in Nat /\ RunAttempts <= MaxAttempts
  BY AttemptsBounded, GradingAssumption
<1>3. /\ judging'.left = RunAttempts /\ judging'.tried = judging.tried /\ judging'.pc = "confirm"
      /\ judging'.seen = judging.seen /\ judging'.heard = judging.heard
      /\ judging'.verdict = judging.verdict /\ judging'.fresh = judging.fresh /\ judging'.item = judging.item
      /\ judging'.build = judging.build /\ judging'.exam = judging.exam
  BY <1>1 DEF PassInv, PassOK
<1>4. CardOK' /\ PassOK'
  BY <1>1, <1>2 DEF PassInv, CardOK, PassOK, PassStep
<1>5. BudgetOK'
  BY <1>1, <1>2, <1>3 DEF PassInv, BudgetOK
<1>6. (GradeOfSeen /\ LaunchedAsGraded /\ ExaminerIsPinned /\ VerdictFollows)'
  BY <1>1, <1>3 DEF PassInv, GradeOfSeen, LaunchedAsGraded, ExaminerIsPinned, VerdictFollows, VerdictIsEarned
<1> QED BY <1>4, <1>5, <1>6 DEF PassInv

\* One answer and then another.
LEMMA TwoHeard ==
  ASSUME NEW S, NEW x \in S, NEW y \in S, NEW s \in Seq(S), s = <<x>>
  PROVE  Append(s, y) = <<x, y>>
<1>1. /\ Append(s, y) \in Seq(S) /\ Len(Append(s, y)) = 2
      /\ Append(s, y)[1] = x /\ Append(s, y)[2] = y
  OBVIOUS
<1>2. <<x, y>> \in Seq(S) /\ Len(<<x, y>>) = 2 /\ <<x, y>>[1] = x /\ <<x, y>>[2] = y
  OBVIOUS
<1>3. \A i \in 1 .. 2 : i = 1 \/ i = 2
  OBVIOUS
<1>4. \A i \in 1 .. 2 : Append(s, y)[i] = <<x, y>>[i]
  BY <1>1, <1>2, <1>3
<1>5. \A a, b \in Seq(S) : Len(a) = Len(b) /\ (\A i \in 1 .. Len(a) : a[i] = b[i]) => a = b
  OBVIOUS
<1> QED BY <1>1, <1>2, <1>4, <1>5

\* The second opinion, or its silence.
LEMMA OpinionKeeps ==
  ASSUME PassInv, judging.pc = "confirm", NEW second \in Verdict \cup {NoMark}, CallEnds(Opinion(second))
  PROVE  PassInv'
<1> DEFINE v == IF second = "needs_decision" THEN "needs_decision" ELSE "valid"
<1>1. judging.heard = <<"needs_decision">>
  BY DEF PassInv, VerdictFollows
<1>2. /\ judging'.left = 0 /\ judging'.tried = 0 /\ judging'.seen = judging.seen
      /\ judging'.pc = "ground" /\ judging'.heard = Append(judging.heard, second)
      /\ judging'.verdict = v /\ judging'.fresh = judging.fresh /\ judging'.item = judging.item
      /\ judging'.build = judging.build /\ judging'.exam = judging.exam
  BY DEF CallEnds, PassInv, PassOK, Opinion, Confirmed
<1>3. judging'.heard = <<"needs_decision", second>>
  <2> DEFINE S == Verdict \cup {"odd", NoMark}
  <2>1. "needs_decision" \in S /\ second \in S /\ judging.heard \in Seq(S)
    BY DEF PassInv, PassOK, Verdict
  <2> HIDE DEF S
  <2>2. Append(judging.heard, second) = <<"needs_decision", second>>
    BY <1>1, <2>1, TwoHeard
  <2> QED BY <1>2, <2>2
<1>4. v \in Verdict /\ Append(judging.heard, second) \in Seq(Verdict \cup {"odd", NoMark})
  BY <1>1 DEF Verdict
<1>5. PassOK'
  BY <1>4 DEF CallEnds, PassInv, PassOK, PassStep, Opinion, Confirmed
<1>6. (GradeOfSeen /\ LaunchedAsGraded /\ ExaminerIsPinned)'
  BY <1>2 DEF PassInv, GradeOfSeen, LaunchedAsGraded, ExaminerIsPinned
<1>7. VerdictFollows'
  BY <1>2, <1>3 DEF VerdictFollows, VerdictIsEarned
<1> QED BY <1>2, <1>5, <1>6, <1>7, CallEndsBudget DEF PassInv

\* Answered or not, a hedge becomes a decision only by the same answer again.
LEMMA ConfirmKeeps ==
  ASSUME PassInv, ConfirmSilent \/ \E v \in Opinions : ConfirmAnswers(v) PROVE PassInv'
<1>1. ASSUME NEW v \in Opinions, ConfirmAnswers(v) PROVE PassInv'
  <2>1. judging.pc = "confirm" /\ CallEnds(Opinion(v))
    BY <1>1 DEF ConfirmAnswers, Judging, CallEnds, Opinion, PassInv, PassOK
  <2> QED BY <2>1, OpinionKeeps DEF Opinions, Verdict
<1>2. CASE ConfirmSilent /\ judging.left > 1
  BY <1>2, RetryKeeps DEF ConfirmSilent, Silence, Judging
<1>3. CASE ConfirmSilent /\ ~(judging.left > 1)
  <2>1. judging.pc = "confirm" /\ CallEnds(Opinion(NoMark))
    BY <1>3 DEF ConfirmSilent, Silence, Judging, CallEnds
  <2> QED BY <2>1, OpinionKeeps
<1> QED BY <1>1, <1>2, <1>3

\* The gate may send a card back; what it lets pass is graded by the rules.
LEMMA GroundKeeps ==
  ASSUME PassInv, NEW vague \in BOOLEAN, Ground(vague) PROVE PassInv'
<1> DEFINE axes == IF vague THEN NoGrade ELSE judging.axes
           v == IF vague THEN "decompose" ELSE judging.verdict
           g == WorkGradeFor(judging.seen, axes)
           pc == IF g # NoGrade /\ v \in {"valid", "stale", "needs_decision"} THEN "write" ELSE "plan"
<1>1. /\ judging.pc = "ground" /\ (vague => judging.verdict = "valid")
      /\ judging' = [judging EXCEPT !.verdict = v, !.axes = NoGrade, !.pc = pc, !.fresh = g]
      /\ UNCHANGED <<card, health, overrides>>
  BY DEF Ground, Judging
<1>2. judging.seen \in GradedCard /\ axes \in Axes \cup {NoGrade} /\ v \in Verdict \cup {NoGrade}
  BY <1>1 DEF PassInv, PassOK, Verdict
<1>3. g \in Grade \cup {NoGrade} /\ (g # NoGrade => g.zone = Rules(judging.seen))
  <2> HIDE DEF axes
  <2> QED BY <1>2, GradeGiven
<1>4. pc \in {"write", "plan"} /\ (pc = "write" => g # NoGrade)
  OBVIOUS
<1> HIDE DEF axes, g, pc
<1>5. /\ judging'.left = judging.left /\ judging'.tried = judging.tried /\ judging'.seen = judging.seen
      /\ judging'.pc = pc /\ judging'.heard = judging.heard
      /\ judging'.verdict = v /\ judging'.fresh = g /\ judging'.item = judging.item
      /\ judging'.build = judging.build /\ judging'.exam = judging.exam
  BY <1>1 DEF PassInv, PassOK
<1>6. PassOK'
  <2> HIDE DEF v
  <2> QED BY <1>1, <1>2, <1>3, <1>4 DEF PassInv, PassOK, PassStep
<1>7. CardOK' /\ BudgetOK'
  BY <1>1, <1>4, <1>5 DEF PassInv, CardOK, BudgetOK
<1>8. (GradeOfSeen /\ LaunchedAsGraded /\ ExaminerIsPinned)'
  BY <1>1, <1>3, <1>4, <1>5 DEF PassInv, GradeOfSeen, LaunchedAsGraded, ExaminerIsPinned
<1>9. VerdictFollows'
  BY <1>1, <1>4, <1>5 DEF PassInv, VerdictFollows, VerdictIsEarned
<1> QED BY <1>6, <1>7, <1>8, <1>9 DEF PassInv

\* The card gets the pass's grade, from our own hardware only.
LEMMA WriteGradeKeeps ==
  ASSUME PassInv, NEW served \in Served, NEW saved \in BOOLEAN, WriteGrade(served, saved) PROVE PassInv'
<1>1. /\ judging.pc = "write" /\ judging' = [judging EXCEPT !.pc = "plan"]
      /\ card' = IF Sovereign(served) /\ saved
                 THEN [card EXCEPT !.grade = [judging.fresh EXCEPT !.by = served.backend]] ELSE card
      /\ UNCHANGED <<health, overrides>>
  BY DEF WriteGrade, Judging
<1>2. /\ judging'.left = judging.left /\ judging'.tried = judging.tried /\ judging'.seen = judging.seen
      /\ judging'.pc = "plan" /\ judging'.heard = judging.heard
      /\ judging'.verdict = judging.verdict /\ judging'.fresh = judging.fresh /\ judging'.item = judging.item
      /\ judging'.build = judging.build /\ judging'.exam = judging.exam
  BY <1>1 DEF PassInv, PassOK
<1>3. CardOK'
  <2>1. judging.fresh \in Grade
    BY <1>1 DEF PassInv, PassOK, GradeOfSeen
  <2>2. Sovereign(served) => served.backend = "ours"
    BY DEF Sovereign, OwnBackend, Served
  <2> DEFINE g == [judging.fresh EXCEPT !.by = "ours"]
  <2>3. g \in Grade /\ g.by = "ours"
    BY <2>1 DEF Grade
  <2> HIDE DEF g
  <2>4. CASE Sovereign(served) /\ saved
    <3>1. card' = [card EXCEPT !.grade = g]
      BY <1>1, <2>2, <2>4 DEF g
    <3> QED BY <3>1, <2>3 DEF PassInv, CardOK, GradedCard
  <2>5. CASE ~(Sovereign(served) /\ saved)
    BY <1>1, <2>5 DEF PassInv, CardOK
  <2> QED BY <2>4, <2>5
<1>4. PassOK' /\ BudgetOK'
  BY <1>1, <1>2 DEF PassInv, PassOK, BudgetOK, PassStep
<1>5. (GradeOfSeen /\ LaunchedAsGraded /\ ExaminerIsPinned /\ VerdictFollows)'
  BY <1>1, <1>2 DEF PassInv, GradeOfSeen, LaunchedAsGraded, ExaminerIsPinned, VerdictFollows, VerdictIsEarned
<1> QED BY <1>3, <1>4, <1>5 DEF PassInv

\* The card is queued with the fresh grade or the one it was read with.
LEMMA PlanKeeps ==
  ASSUME PassInv, NEW text \in Text, Plan(text) PROVE PassInv'
<1> DEFINE g == IF judging.fresh # NoGrade THEN judging.fresh ELSE StoredWorkGrade(judging.seen)
<1>1. judging.pc = "plan" /\ card' = [card EXCEPT !.text = text] /\ UNCHANGED <<health, overrides>>
  BY DEF Plan, Judging
<1>2. CardOK'
  BY <1>1 DEF PassInv, CardOK, GradedCard
<1>3. g \in Grade \cup {NoGrade} /\ (judging.fresh # NoGrade => g = judging.fresh)
  BY <1>1 DEF PassInv, PassOK, StoredWorkGrade, GradedCard
<1> HIDE DEF g
<1>4. \/ judging' = [judging EXCEPT !.pc = "build", !.item = g]
      \/ judging' = [judging EXCEPT !.pc = "done"]
  BY DEF Plan, g
<1>5. /\ judging'.left = judging.left /\ judging'.tried = judging.tried /\ judging'.seen = judging.seen
      /\ judging'.pc \in {"build", "done"} /\ judging'.heard = judging.heard
      /\ judging'.verdict = judging.verdict /\ judging'.fresh = judging.fresh
      /\ judging'.item \in {g, judging.item} /\ (judging'.pc = "done" => judging'.item = judging.item)
      /\ judging'.build = judging.build /\ judging'.exam = judging.exam
  BY <1>4 DEF PassInv, PassOK
<1>6. PassOK'
  BY <1>1, <1>3, <1>4 DEF PassInv, PassOK, PassStep
<1>7. BudgetOK'
  BY <1>1, <1>5 DEF PassInv, BudgetOK
<1>8. (GradeOfSeen /\ LaunchedAsGraded /\ ExaminerIsPinned /\ VerdictFollows)'
  BY <1>1, <1>3, <1>5 DEF PassInv, GradeOfSeen, LaunchedAsGraded, ExaminerIsPinned, VerdictFollows, VerdictIsEarned
<1> QED BY <1>2, <1>6, <1>7, <1>8 DEF PassInv

\* A grade names one bucket, and the examiner's differs from it in the class only.
LEMMA Buckets ==
  ASSUME NEW g \in Grade \cup {NoGrade}
  PROVE  /\ BucketFor(g) \in Bucket \cup {NoModel} /\ GraderBucket(BucketFor(g)) \in Bucket \cup {NoModel}
         /\ g # NoGrade => BucketFor(g) # NoModel /\ BucketFor(g).zone = g.zone
         /\ BucketFor(g) # NoModel =>
              GraderBucket(BucketFor(g)) = [class |-> Pinned, zone |-> BucketFor(g).zone]
         /\ BucketFor(g) = NoModel => GraderBucket(BucketFor(g)) = NoModel
<1>1. CASE g = NoGrade
  BY <1>1 DEF BucketFor, GraderBucket
<1>2. CASE g # NoGrade
  <2>1. g \in Grade /\ g.zone \in Zone /\ g.class \in {ModelClassFor(a) : a \in Axes}
    BY <1>2 DEF Grade
  <2>2. BucketFor(g) = [class |-> g.class, zone |-> g.zone] /\ BucketFor(g) \in Bucket
    BY <1>2, <2>1 DEF BucketFor, Bucket
  <2>3. BucketFor(g) # NoModel
    BY <2>2, NothingAssumption
  <2>4. GraderBucket(BucketFor(g)) = [class |-> Pinned, zone |-> g.zone]
    BY <2>2, <2>3 DEF GraderBucket
  <2> QED BY <2>1, <2>2, <2>3, <2>4 DEF Bucket
<1> QED BY <1>1, <1>2

\* The build runs in the bucket of the item's grade, or is refused.
LEMMA BuildLaunchKeeps ==
  ASSUME PassInv, BuildLaunch PROVE PassInv'
<1> DEFINE model == Launched(BucketFor(judging.item))
           pc == IF model = Refused THEN "done" ELSE "exam"
<1>1. /\ judging.pc = "build"
      /\ judging' = [judging EXCEPT !.build = model, !.left = RunAttempts, !.pc = pc]
      /\ UNCHANGED <<card, health, overrides>>
  BY DEF BuildLaunch, Judging
<1>2. RunAttempts \in Nat /\ RunAttempts <= MaxAttempts
  BY AttemptsBounded, GradingAssumption
<1>3. /\ model \in Bucket \cup {NoModel, Refused} /\ (judging.item # NoGrade => model # NoModel)
      /\ Launched(BucketFor(judging.item))' = Launched(BucketFor(judging'.item))
  BY <1>1, Buckets, NothingAssumption DEF PassInv, PassOK, Launched
<1>4. pc \in {"done", "exam"} /\ (pc = "exam" => model # Refused)
  OBVIOUS
<1> HIDE DEF pc
<1>5. /\ judging'.left = RunAttempts /\ judging'.tried = judging.tried /\ judging'.seen = judging.seen
      /\ judging'.pc = pc /\ judging'.heard = judging.heard
      /\ judging'.verdict = judging.verdict /\ judging'.fresh = judging.fresh /\ judging'.item = judging.item
      /\ judging'.build = model /\ judging'.exam = judging.exam
  BY <1>1 DEF PassInv, PassOK
<1>6. LaunchedAsGraded' /\ ExaminerIsPinned'
  BY <1>1, <1>3, <1>4, <1>5 DEF PassInv, LaunchedAsGraded, ExaminerIsPinned, Launched
<1>7. PassOK'
  <2> HIDE DEF model
  <2> QED BY <1>1, <1>2, <1>3, <1>4 DEF PassInv, PassOK, PassStep
<1>8. CardOK' /\ BudgetOK'
  BY <1>1, <1>2, <1>4, <1>5 DEF PassInv, CardOK, BudgetOK
<1>9. (GradeOfSeen /\ VerdictFollows)'
  BY <1>1, <1>4, <1>5 DEF PassInv, GradeOfSeen, VerdictFollows, VerdictIsEarned
<1> QED BY <1>6, <1>7, <1>8, <1>9 DEF PassInv

\* The examination: the operator's class in the zone of the build.
LEMMA ExamLaunchKeeps ==
  ASSUME PassInv, NEW replies \in BOOLEAN, ExamLaunch(replies) PROVE PassInv'
<1> DEFINE model == Launched(GraderBucket(BucketFor(judging.item)))
           over == [judging EXCEPT !.pc = "done", !.exam = model]
<1>1. CASE ~replies /\ judging.left > 1
  BY <1>1, RetryKeeps DEF ExamLaunch, Silence, Judging
<1>2. CASE replies \/ ~(judging.left > 1)
  <2>1. judging.pc = "exam" /\ CallEnds(over)
    BY <1>2 DEF ExamLaunch, Silence, Judging, CallEnds
  <2>2. judging.item \in Grade \cup {NoGrade} /\ judging.build = Launched(BucketFor(judging.item))
        /\ judging.build # Refused /\ overrides' = overrides
    BY <2>1 DEF PassInv, PassOK, LaunchedAsGraded, CallEnds
  <2>3. /\ model \in Bucket \cup {NoModel}
        /\ model # NoModel => model = [class |-> Pinned, zone |-> judging.build.zone]
        /\ judging.item # NoGrade => judging.build # NoModel
    BY <2>2, Buckets, NothingAssumption DEF Launched
  <2>4. Launched(BucketFor(judging.item))' = Launched(BucketFor(judging'.item))
    BY <2>2 DEF Launched
  <2> HIDE DEF model
  <2>5. /\ judging'.left = 0 /\ judging'.tried = 0 /\ judging'.seen = judging.seen
        /\ judging'.pc = "done" /\ judging'.heard = judging.heard
        /\ judging'.verdict = judging.verdict /\ judging'.fresh = judging.fresh /\ judging'.item = judging.item
        /\ judging'.build = judging.build /\ judging'.exam = model
    BY <2>1 DEF CallEnds, PassInv, PassOK
  <2>6. LaunchedAsGraded' /\ ExaminerIsPinned'
    BY <2>2, <2>3, <2>5 DEF LaunchedAsGraded, ExaminerIsPinned, Launched
  <2>7. PassOK'
    BY <2>1, <2>3 DEF CallEnds, PassInv, PassOK, PassStep
  <2>8. (GradeOfSeen /\ VerdictFollows)'
    BY <2>1, <2>5 DEF PassInv, GradeOfSeen, VerdictFollows, VerdictIsEarned
  <2> QED BY <2>1, <2>5, <2>6, <2>7, <2>8, CallEndsBudget DEF PassInv
<1> QED BY <1>1, <1>2

\* A pass ends, or a person edits the card while one goes on with the card it read.
LEMMA EndPassKeeps ==
  ASSUME PassInv, EndPass PROVE PassInv'
<1>1. judging' = NewPass("idle", NoGrade, 0) /\ UNCHANGED <<card, health, overrides>>
  BY DEF EndPass
<1>2. CardOK' /\ PassOK'
  BY <1>1 DEF PassInv, CardOK, PassOK, NewPass, PassStep
<1>3. BudgetOK'
  BY <1>1, GradingAssumption DEF PassInv, BudgetOK, NewPass
<1>4. (GradeOfSeen /\ LaunchedAsGraded /\ ExaminerIsPinned)'
  BY <1>1 DEF GradeOfSeen, LaunchedAsGraded, ExaminerIsPinned, NewPass
<1>5. VerdictFollows'
  BY <1>1, NothingAssumption DEF VerdictFollows, VerdictIsEarned, NewPass, Verdict
<1> QED BY <1>2, <1>3, <1>4, <1>5 DEF PassInv

\* A pass does not notice what happens to the card.
LEMMA UntouchedKeeps ==
  ASSUME PassInv, CardOK', UNCHANGED <<health, overrides, judging>> PROVE PassInv'
BY DEF PassInv, PassOK, BudgetOK, GradeOfSeen, LaunchedAsGraded, Launched, ExaminerIsPinned, VerdictFollows,
       VerdictIsEarned

\* An edit leaves the grade on the card to the card it was given to.
LEMMA EditKeeps ==
  ASSUME PassInv, NEW text \in Text, NEW mark \in Mark, Edit(text, mark) PROVE PassInv'
<1>1. card' = [card EXCEPT !.text = text, !.override = mark] /\ UNCHANGED <<health, overrides, judging>>
  BY DEF Edit
<1>2. CardOK'
  BY <1>1 DEF PassInv, CardOK, GradedCard
<1> QED BY <1>1, <1>2, UntouchedKeeps

\* Every step of a pass, and every edit, keeps the invariant.
LEMMA GradingNextKeeps ==
  ASSUME PassInv, GradingNext PROVE PassInv'
<1>1. CASE BeginPass \/ AssessSilent \/ ConfirmBegins \/ ConfirmSilent \/ BuildLaunch \/ EndPass
  BY <1>1, BeginPassKeeps, AssessSilentKeeps, ConfirmBeginsKeeps, ConfirmKeeps, BuildLaunchKeeps, EndPassKeeps
<1>2. ASSUME NEW v \in Verdict \cup {"odd"}, NEW a \in Axes \cup {NoGrade}, AssessAnswers(v, a) PROVE PassInv'
  BY <1>2, AssessAnswersKeeps
<1>3. ASSUME NEW v \in Opinions, ConfirmAnswers(v) PROVE PassInv'
  BY <1>3, ConfirmKeeps
<1>4. ASSUME NEW b \in BOOLEAN, Ground(b) \/ ExamLaunch(b) PROVE PassInv'
  BY <1>4, GroundKeeps, ExamLaunchKeeps
<1>5. ASSUME NEW b \in BOOLEAN, NEW s \in Served, WriteGrade(s, b) PROVE PassInv'
  BY <1>5, WriteGradeKeeps
<1>6. ASSUME NEW t \in Text, Plan(t) \/ \E mk \in Mark : Edit(t, mk) PROVE PassInv'
  BY <1>6, PlanKeeps, EditKeeps
<1> QED BY <1>1, <1>2, <1>3, <1>4, <1>5, <1>6 DEF GradingNext

\* A quality mode has a rank, a typo included; a tag can only raise it.
LEMMA QualityRanks ==
  ASSUME NEW default, NEW floor, NEW tag
  PROVE  LET base == OperatorQualityBaseline(default, floor)
             q == ResolveQuality(default, floor, tag)
         IN  /\ base \in {"none", "direct", "gated"} /\ q \in {"none", "direct", "gated"}
             /\ Rank[base] <= Rank[q]
             /\ tag = NoMark => q = base
             /\ q = base \/ q = Coerced(tag)
<1>1. DOMAIN Rank = {"none", "direct", "gated"}
  BY DEF Rank
<1>2. \A x : Coerced(x) \in {"none", "direct", "gated"}
  BY <1>1 DEF Coerced
<1>3. \A x \in {"none", "direct", "gated"} : Rank[x] \in Nat
  BY DEF Rank
<1> DEFINE base == OperatorQualityBaseline(default, floor)
<1>4. base \in {"none", "direct", "gated"}
  BY <1>2 DEF OperatorQualityBaseline
<1>5. ResolveQuality(default, floor, tag) =
        IF tag # NoMark /\ Rank[Coerced(tag)] > Rank[base] THEN Coerced(tag) ELSE base
  BY DEF ResolveQuality
<1> HIDE DEF base
<1>6. /\ ResolveQuality(default, floor, tag) \in {"none", "direct", "gated"}
      /\ Rank[base] <= Rank[ResolveQuality(default, floor, tag)]
      /\ tag = NoMark => ResolveQuality(default, floor, tag) = base
      /\ ResolveQuality(default, floor, tag) \in {base, Coerced(tag)}
  BY <1>2, <1>3, <1>4, <1>5
<1> QED BY <1>4, <1>6 DEF base

\* The executor is chosen from the operator's settings and a tag that can only raise them.
LEMMA ClassifyKeeps ==
  ASSUME RouteOK, Classify PROVE RouteOK'
<1> DEFINE d == route.default
           f == route.floor
           t == route.tag
           base == OperatorQualityBaseline(d, f)
           q == ResolveQuality(d, f, t)
           k == ClassifyKind(d, f, t)
<1>1. /\ route' = [route EXCEPT !.kind = k] /\ k \in {"engineering", "engineering-direct"}
      /\ k = "engineering-direct" <=> q = "direct"
  BY DEF Classify, ClassifyKind
<1>2. d \in Setting /\ f \in Setting /\ t \in Setting
  BY DEF RouteOK
<1>3. /\ base \in {"none", "direct", "gated"} /\ q \in {"none", "direct", "gated"}
      /\ Rank[base] <= Rank[q] /\ (t = NoMark => q = base)
  BY QualityRanks
<1>4. q = base \/ (q = Coerced(t))
  BY QualityRanks
<1>10. Coerced(t) = "direct" => t = "direct"
  BY DEF Coerced
<1> HIDE DEF base, q, k
<1>5. /\ route'.default = d /\ route'.floor = f /\ route'.tag = t /\ route'.kind = k
      /\ route' \in [default : Setting, floor : Setting, tag : Setting,
                     kind : {NoMark, "engineering", "engineering-direct"}]
  BY <1>1 DEF RouteOK
<1>6. k = "engineering-direct" => base = "direct" \/ (base = "none" /\ t = "direct")
  BY <1>1, <1>3, <1>4, <1>10 DEF Rank
<1>7. k = "engineering" /\ t = NoMark => base # "direct"
  BY <1>1, <1>3
<1>8. OperatorQualityBaseline(route'.default, route'.floor) = base
  BY <1>5 DEF base
<1>9. GateNotLowered'
  BY <1>5, <1>6, <1>7, <1>8 DEF GateNotLowered
<1> QED BY <1>5, <1>9 DEF RouteOK

\* What the invariant says of the run's property.
LEMMA InvIsRuled == GradingInv => GradingIsRuled
<1> SUFFICES ASSUME GradingInv PROVE GradingIsRuled
  OBVIOUS
<1>1. GradingTypeOK
  <2>1. judging.tried \in Nat /\ judging.left \in Nat /\ MaxAttempts \in Nat
    BY GradingAssumption DEF GradingInv, PassInv, PassOK
  <2>2. judging.tried + judging.left \in 0 .. MaxAttempts
    BY <2>1 DEF GradingInv, PassInv, BudgetOK
  <2>3. card.grade \in {NoGrade, HalfGrade} \/ card.grade.zone \in Zone
    BY DEF GradingInv, PassInv, CardOK, GradedCard, Grade
  <2> QED BY <2>2, <2>3 DEF GradingTypeOK, GradingInv, PassInv, BudgetOK
<1>2. card.grade \notin {NoGrade, HalfGrade} => card.grade.zone = Rules(card.grade.of)
  BY DEF GradingInv, PassInv, CardOK, GradedCard, Grade
<1>3. ASSUME judging.build \notin {NoModel, Refused}
      PROVE  \/ judging.build.zone = Rules(judging.seen)
             \/ judging.fresh = NoGrade /\ judging.build.zone = Rules(judging.item.of)
  <2>1. judging.item \in Grade \cup {NoGrade} /\ judging.build = Launched(BucketFor(judging.item))
    BY <1>3 DEF GradingInv, PassInv, PassOK, LaunchedAsGraded
  <2>2. judging.item # NoGrade /\ judging.build = BucketFor(judging.item)
    BY <1>3, <2>1 DEF Launched, BucketFor
  <2>3. judging.item \in Grade /\ judging.build.zone = judging.item.zone
    BY <2>1, <2>2, Buckets
  <2>4. judging.item.zone = Rules(judging.item.of)
    BY <2>3 DEF Grade
  <2>5. judging.fresh # NoGrade => judging.item.zone = Rules(judging.seen)
    BY <2>2 DEF GradingInv, PassInv, GradeOfSeen
  <2> QED BY <2>3, <2>4, <2>5
<1>4. ZoneIsRuled
  BY <1>2, <1>3 DEF ZoneIsRuled
<1>5. ExaminerIsPinned /\ VerdictIsEarned /\ GateNotLowered
  BY DEF GradingInv, PassInv, VerdictFollows, RouteOK
<1>6. GradedStaysRouted
  BY DEF GradingInv, PassInv, LaunchedAsGraded, GradedStaysRouted, Judging
<1>7. CertificateIsEarned
  BY DEF GradingInv, PassInv, CardOK, CertificateIsEarned
<1> QED BY <1>1, <1>4, <1>5, <1>6, <1>7 DEF GradingIsRuled

\* Where a card's content may go and who examines it, for every reply of the
\* assessing model, every number of failed tries, passes and edits: the zone is
\* the rules' for the card that was read or, on the stored grade, for the card
\* as it was when graded; the examiner is in the pinned class and the zone of
\* the build, a card closes or goes to a person only on an answer (two for a
\* decision), only our own hardware's grade is stored, and no tag or typo passes
\* a gate the operator set (a tag "direct" does leave the gate of "none").
THEOREM GradingStaysRuled == GradingSpec => []GradingIsRuled
<1>1. GradingInv /\ GradingNext /\ UNCHANGED route => GradingInv'
  BY GradingNextKeeps DEF GradingInv, RouteOK, GateNotLowered
<1>2. GradingInv /\ Classify /\ UNCHANGED gradingVars => GradingInv'
  BY ClassifyKeeps, UntouchedKeeps DEF GradingInv, gradingVars, CardOK, PassInv
<1>3. GradingInv /\ UNCHANGED <<gradingVars, route>> => GradingInv'
  BY UntouchedKeeps DEF GradingInv, gradingVars, CardOK, PassInv, RouteOK, GateNotLowered
<1> QED BY <1>1, <1>2, <1>3, GradingInitially, InvIsRuled, PTL DEF GradingSpec

-----------------------------------------------------------------------------
(* Totals.  What a loop adds up is found by looking at the first row where a *)
(* claim about it would fail: there is one because row numbers are natural.  *)

\* A set of natural numbers that is not empty has a least member.
LEMMA LeastNumber ==
  ASSUME NEW N, N \subseteq Nat, N # {}
  PROVE  \E n \in N : \A m \in N : n <= m
<1>1. PICK k \in N : TRUE
  OBVIOUS
<1> DEFINE All == 0 .. k
           Initials == {0 .. m : m \in {x \in N : x <= k}}
<1>2. IsFiniteSet(All)
  BY <1>1, FS_Interval
<1>3. Initials \subseteq SUBSET All /\ Initials # {}
  BY <1>1
<1>4. PICK T \in Initials : \A U \in Initials : U \subseteq T => U = T
  <2> HIDE DEF All, Initials
  <2> QED BY <1>2, <1>3, SmallestMember
<1>5. PICK n \in N : n <= k /\ T = 0 .. n
  BY <1>4
<1>6. ASSUME NEW m \in N, m < n PROVE FALSE
  <2>1. 0 .. m \in Initials /\ 0 .. m \subseteq T
    BY <1>1, <1>5, <1>6
  <2>2. 0 .. m = 0 .. n
    BY <1>4, <1>5, <2>1
  <2> QED BY <1>5, <1>6, <2>2
<1> QED
  BY <1>5, <1>6

\* sum follows the loop over the first n amounts.
IsTotals(amounts, n, sum) ==
    sum = [i \in 0 .. n |-> IF i = 0 THEN 0 ELSE sum[i - 1] + amounts[i]]

\* The loop can be followed to any row.
LEMMA TotalsExist ==
  ASSUME NEW amounts
  PROVE  \A n \in Nat : \E sum : IsTotals(amounts, n, sum)
<1> DEFINE Bad == {n \in Nat : ~ \E sum : IsTotals(amounts, n, sum)}
<1>1. SUFFICES ASSUME Bad # {} PROVE FALSE
  OBVIOUS
<1>2. PICK n \in Bad : \A m \in Bad : n <= m
  <2> HIDE DEF Bad
  <2>1. Bad \subseteq Nat
    BY DEF Bad
  <2> QED BY <1>1, <2>1, LeastNumber
<1>3. CASE n = 0
  <2>1. IsTotals(amounts, 0, [i \in 0 .. 0 |-> 0])
    BY DEF IsTotals
  <2> QED BY <1>2, <1>3, <2>1
<1>4. CASE n # 0
  <2>1. n - 1 \in Nat /\ n - 1 \notin Bad
    BY <1>2, <1>4
  <2>2. PICK old : IsTotals(amounts, n - 1, old)
    BY <2>1
  <2> DEFINE new == [i \in 0 .. n |-> IF i = n THEN old[n - 1] + amounts[n] ELSE old[i]]
  <2>3. IsTotals(amounts, n, new)
    <3>1. \A i \in 0 .. n - 1 : old[i] = IF i = 0 THEN 0 ELSE old[i - 1] + amounts[i]
      BY <2>1, <2>2 DEF IsTotals
    <3>2. \A i \in 0 .. n : new[i] = IF i = 0 THEN 0 ELSE new[i - 1] + amounts[i]
      BY <1>4, <2>1, <3>1
    <3> QED BY <3>2 DEF IsTotals
  <2> QED BY <1>2, <2>3
<1> QED BY <1>3, <1>4

LEMMA TotalsAreSums ==
  ASSUME NEW amounts, Len(amounts) \in Nat
  PROVE  /\ Totals(amounts)[0] = 0
         /\ \A i \in 1 .. Len(amounts) : Totals(amounts)[i] = Totals(amounts)[i - 1] + amounts[i]
<1> DEFINE Is(sum) == sum = [i \in 0 .. Len(amounts) |-> IF i = 0 THEN 0 ELSE sum[i - 1] + amounts[i]]
<1>1. \E sum : Is(sum)
  BY TotalsExist DEF IsTotals
<1>2. Totals(amounts) = CHOOSE sum : Is(sum)
  BY DEF Totals
<1>3. Is(Totals(amounts))
  <2> HIDE DEF Is
  <2> QED BY <1>1, <1>2
<1>4. \A i \in 0 .. Len(amounts) :
         Totals(amounts)[i] = IF i = 0 THEN 0 ELSE Totals(amounts)[i - 1] + amounts[i]
  <2> DEFINE T == Totals(amounts)
  <2>1. T = [i \in 0 .. Len(amounts) |-> IF i = 0 THEN 0 ELSE T[i - 1] + amounts[i]]
    BY <1>3
  <2> HIDE DEF T
  <2>2. \A i \in 0 .. Len(amounts) : T[i] = IF i = 0 THEN 0 ELSE T[i - 1] + amounts[i]
    BY <2>1
  <2> QED BY <2>2 DEF T
<1> HIDE DEF Is
<1>5. 0 \in 0 .. Len(amounts) /\ \A i \in 1 .. Len(amounts) : i \in 0 .. Len(amounts) /\ i # 0
  OBVIOUS
<1> QED BY <1>4, <1>5

\* Numbers add up to a number, and what comes after a row does not change the
\* total at it.
LEMMA TotalsAreNumbers ==
  ASSUME NEW amounts \in Seq(Nat)
  PROVE  \A i \in 0 .. Len(amounts) : Totals(amounts)[i] \in Nat
<1> DEFINE T == Totals(amounts)
           Bad == {i \in 0 .. Len(amounts) : T[i] \notin Nat}
<1>1. T[0] = 0 /\ \A i \in 1 .. Len(amounts) : T[i] = T[i - 1] + amounts[i]
  BY TotalsAreSums
<1> HIDE DEF T
<1>2. SUFFICES ASSUME Bad # {} PROVE FALSE
  BY DEF T
<1>3. PICK n \in Bad : \A m \in Bad : n <= m
  <2>1. Bad \subseteq Nat
    OBVIOUS
  <2> HIDE DEF Bad
  <2> QED BY <1>2, <2>1, LeastNumber
<1>4. n # 0 /\ n \in 1 .. Len(amounts)
  BY <1>1, <1>3
<1>5. T[n - 1] \in Nat
  BY <1>3, <1>4
<1> QED BY <1>1, <1>3, <1>4, <1>5

LEMMA TotalsAgree ==
  ASSUME NEW a \in Seq(Nat), NEW b \in Seq(Nat), Len(a) <= Len(b),
         \A i \in 1 .. Len(a) : a[i] = b[i]
  PROVE  \A i \in 0 .. Len(a) : Totals(a)[i] = Totals(b)[i]
<1> DEFINE A == Totals(a)
           B == Totals(b)
           Bad == {i \in 0 .. Len(a) : A[i] # B[i]}
<1>1. /\ A[0] = 0 /\ \A i \in 1 .. Len(a) : A[i] = A[i - 1] + a[i]
      /\ B[0] = 0 /\ \A i \in 1 .. Len(b) : B[i] = B[i - 1] + b[i]
  BY TotalsAreSums
<1> HIDE DEF A, B
<1>2. SUFFICES ASSUME Bad # {} PROVE FALSE
  BY DEF A, B
<1>3. PICK n \in Bad : \A m \in Bad : n <= m
  <2>1. Bad \subseteq Nat
    OBVIOUS
  <2> HIDE DEF Bad
  <2> QED BY <1>2, <2>1, LeastNumber
<1>4. n # 0 /\ n \in 1 .. Len(a) /\ n \in 1 .. Len(b)
  BY <1>1, <1>3
<1>5. A[n - 1] = B[n - 1]
  BY <1>3, <1>4
<1> QED BY <1>1, <1>3, <1>4, <1>5

\* One more row adds its amount.
LEMMA SumOfAppend ==
  ASSUME NEW a \in Seq(Nat), NEW b \in Seq(Nat), NEW x \in Nat, b = Append(a, x)
  PROVE  /\ SumOf(a) \in Nat /\ SumOf(b) = SumOf(a) + x
         /\ \A i \in 0 .. Len(a) : Totals(b)[i] = Totals(a)[i]
<1>1. Len(b) = Len(a) + 1 /\ b[Len(b)] = x /\ \A i \in 1 .. Len(a) : a[i] = b[i]
  OBVIOUS
<1>2. \A i \in 0 .. Len(a) : Totals(b)[i] = Totals(a)[i]
  <2>1. Len(a) <= Len(b)
    BY <1>1
  <2>2. \A i \in 0 .. Len(a) : Totals(a)[i] = Totals(b)[i]
    BY <1>1, <2>1, TotalsAgree, Zenon
  <2> QED BY <2>2, Zenon
<1>3. Totals(b)[Len(b)] = Totals(b)[Len(b) - 1] + x
  <2>1. Len(b) \in Nat /\ Len(b) \in 1 .. Len(b)
    BY <1>1
  <2>2. \A i \in 1 .. Len(b) : Totals(b)[i] = Totals(b)[i - 1] + b[i]
    BY <2>1, TotalsAreSums, Zenon
  <2>3. Totals(b)[Len(b)] = Totals(b)[Len(b) - 1] + b[Len(b)]
    BY <2>1, <2>2, Zenon
  <2> QED BY <1>1, <2>3
<1>4. Len(b) - 1 = Len(a) /\ Len(a) \in 0 .. Len(a)
  BY <1>1
<1>5. Totals(a)[Len(a)] \in Nat
  BY <1>4, TotalsAreNumbers
<1> QED BY <1>2, <1>3, <1>4, <1>5 DEF SumOf

-----------------------------------------------------------------------------
(* The joule wallet. *)

WalletSteps == {"idle", "wait", "open", "opened", "minted", "saved", "spent", "closing", "recorded", "failed"}

WalletRow == [kind : {"mint", "spend"}, amount : Nat \ {0}, want : Nat, balance : Nat,
              marked : BOOLEAN, late : BOOLEAN, fixture : BOOLEAN]

WalletTypes ==
    /\ snapshot \in Nat /\ fixtures \in 0 .. MaxFixtures /\ holder \in Settler \cup {NoOne}
    /\ settler \in [Settler -> [step : WalletSteps, balance : Nat]]
    /\ rowsOf \in Seq(WalletRow) /\ unlocked \subseteq Settler /\ guarded \in BOOLEAN

\* The correction's marks tell the fixtures' rows from all others: a card with
\* the fixture's name settles only once the guard is there, and its row is late.
MarksTell ==
    /\ \A i \in DOMAIN rowsOf : IsFabricated(rowsOf[i]) <=> rowsOf[i].fixture
    /\ \A s \in Namesake : settler[s].step # "idle" => guarded

\* While the lock held, whoever is inside holds it, and what is in its memory
\* is what the journal says.
LockHeld ==
    /\ \A s \in Settler : Inside(s) => holder = s
    /\ Anomalies = {}
    /\ (\A s \in Settler : settler[s].step \notin {"minted", "spent"}) => snapshot = Recorded(Len(rowsOf))
    /\ \A s \in Settler : settler[s].step \in {"opened", "minted", "saved", "spent"}
                            => settler[s].balance = Recorded(Len(rowsOf))

WalletInv == WalletTypes /\ MarksTell /\ (unlocked = {} => LockHeld) /\ CorrectionIsExact

\* The fabricated amounts, row by row.
FabricatedIn(rows) == [i \in 1 .. Len(rows) |-> IF IsFabricated(rows[i]) THEN rows[i].amount ELSE 0]

LEMMA FabricatedAreNumbers ==
  ASSUME NEW rows \in Seq(WalletRow)
  PROVE  FabricatedIn(rows) \in Seq(Nat) /\ Len(FabricatedIn(rows)) = Len(rows)
<1>1. \A i \in 1 .. Len(rows) : rows[i].amount \in Nat
  <2>1. \A i \in 1 .. Len(rows) : rows[i] \in WalletRow
    OBVIOUS
  <2> QED BY <2>1 DEF WalletRow
<1>2. FabricatedIn(rows) \in [1 .. Len(rows) -> Nat]
  BY <1>1 DEF FabricatedIn
<1> QED BY <1>2

\* A row more: what was computed for the rows before it stays.
LEMMA WalletRowAppended ==
  ASSUME WalletTypes, NEW r \in WalletRow, rowsOf' = Append(rowsOf, r)
  PROVE  LET n == Len(rowsOf)
             fab == IF IsFabricated(r) THEN r.amount ELSE 0
         IN  /\ rowsOf' \in Seq(WalletRow) /\ Len(rowsOf') = n + 1 /\ rowsOf'[n + 1] = r
             /\ \A i \in 1 .. n : rowsOf'[i] = rowsOf[i]
             /\ \A i \in 0 .. n : Cumulative[i] \in Nat /\ Cumulative'[i] = Cumulative[i]
             /\ Cumulative'[n + 1] = Cumulative[n] + fab
<1> DEFINE n == Len(rowsOf)
           fab == IF IsFabricated(r) THEN r.amount ELSE 0
           A == FabricatedIn(rowsOf)
           B == FabricatedIn(rowsOf')
<1>1. /\ rowsOf \in Seq(WalletRow) /\ rowsOf' \in Seq(WalletRow) /\ n \in Nat
      /\ Len(rowsOf') = n + 1 /\ rowsOf'[n + 1] = r /\ \A i \in 1 .. n : rowsOf'[i] = rowsOf[i]
  BY DEF WalletTypes
<1>2. A \in Seq(Nat) /\ B \in Seq(Nat) /\ Len(A) = n /\ Len(B) = n + 1
  BY <1>1, FabricatedAreNumbers
<1>3. fab \in Nat
  BY DEF WalletRow
<1>4. B = Append(A, fab)
  <2>1. \A i \in 1 .. n : B[i] = A[i]
    BY <1>1 DEF FabricatedIn
  <2>2. B[n + 1] = fab
    BY <1>1 DEF FabricatedIn
  <2> HIDE DEF A, B, fab, n
  <2> QED BY <1>1, <1>2, <1>3, <2>1, <2>2
<1>5. Cumulative = Totals(A) /\ Cumulative' = Totals(B)
  BY DEF Cumulative, FabricatedIn
<1> HIDE DEF A, B, fab, n
<1>6. SumOf(A) \in Nat /\ SumOf(B) = SumOf(A) + fab /\ \A i \in 0 .. Len(A) : Totals(B)[i] = Totals(A)[i]
  BY <1>2, <1>3, <1>4, SumOfAppend
<1>7. \A i \in 0 .. Len(A) : Totals(A)[i] \in Nat
  BY <1>2, TotalsAreNumbers
<1>8. Totals(B)[n + 1] = Totals(A)[n] + fab
  BY <1>2, <1>6 DEF SumOf
<1> QED BY <1>1, <1>2, <1>5, <1>6, <1>7, <1>8 DEF n, fab

\* A row that goes on from the row before it, with its spend capped, keeps the
\* journal without anomalies and the correction exact.
LEMMA JournalGoesOn ==
  ASSUME WalletTypes, MarksTell, CorrectionIsExact, unlocked' = unlocked, unlocked = {}, Anomalies = {},
         NEW r \in WalletRow, rowsOf' = Append(rowsOf, r),
         r.balance = Recorded(Len(rowsOf)) + Delta(r),
         IsFabricated(r) <=> r.fixture,
         r.kind = "spend" =>
             r.amount = IF r.want < Recorded(Len(rowsOf)) THEN r.want ELSE Recorded(Len(rowsOf))
  PROVE  Anomalies' = {} /\ CorrectionIsExact' /\ Recorded(Len(rowsOf))' = r.balance
<1> DEFINE fab == IF IsFabricated(r) THEN r.amount ELSE 0
<1>0. PICK n : n = Len(rowsOf)
  OBVIOUS
<1>1. /\ rowsOf' \in Seq(WalletRow) /\ Len(rowsOf') = n + 1 /\ rowsOf'[n + 1] = r
      /\ \A i \in 1 .. n : rowsOf'[i] = rowsOf[i]
      /\ \A i \in 0 .. n : Cumulative[i] \in Nat /\ Cumulative'[i] = Cumulative[i]
      /\ Cumulative'[n + 1] = Cumulative[n] + fab
  BY <1>0, WalletRowAppended
<1>2. /\ n \in Nat /\ DOMAIN rowsOf = 1 .. n /\ DOMAIN rowsOf' = 1 .. n + 1
      /\ \A i \in 1 .. n : rowsOf[i] \in WalletRow
  BY <1>0, <1>1 DEF WalletTypes
<1>3. \A i \in 0 .. n : Recorded(i) \in Nat
  BY <1>2 DEF Recorded, WalletRow
<1>4. \A i \in 0 .. n : Recorded(i)' = Recorded(i)
  BY <1>1, <1>2 DEF Recorded
<1>5. Recorded(n + 1)' = r.balance
  <2>1. n + 1 # 0
    BY <1>2
  <2> QED BY <1>1, <2>1 DEF Recorded
<1>6. r.balance \in Nat /\ r.amount \in Nat /\ r.want \in Nat /\ r.kind \in {"mint", "spend"}
  BY DEF WalletRow
<1>7. Anomalies' = {}
  <2>1. SUFFICES ASSUME NEW i \in 1 .. n + 1 PROVE rowsOf'[i].balance = Recorded(i - 1)' + Delta(rowsOf'[i])
    BY <1>2 DEF Anomalies
  <2>2. CASE i \in 1 .. n
    <3>1. i - 1 \in 0 .. n
      BY <1>2, <2>2
    <3>2. rowsOf[i].balance = Recorded(i - 1) + Delta(rowsOf[i])
      BY <1>2, <2>2 DEF Anomalies
    <3> QED BY <1>1, <1>4, <2>2, <3>1, <3>2
  <2>3. CASE i = n + 1
    <3>1. i - 1 = n /\ n \in 0 .. n
      BY <1>2, <2>3
    <3> QED BY <1>1, <1>4, <2>3, <1>0, <3>1
  <2> QED BY <1>2, <2>1, <2>2, <2>3
<1>8. \A i \in 0 .. n : Corrected(i)' = Corrected(i) /\ Corrected(i) \in Int
  BY <1>1, <1>3, <1>4 DEF Corrected
<1>9. ASSUME SpendsOnFixtures' = {}
      PROVE  \A i \in 1 .. n + 1 : Corrected(i)' = HonestAfter(Corrected(i - 1)', rowsOf'[i])
  <2>1. SpendsOnFixtures = {}
    <3>1. SUFFICES ASSUME NEW i \in SpendsOnFixtures PROVE FALSE
      OBVIOUS
    <3>2. i \in 1 .. n /\ rowsOf[i].kind # "mint" /\ Corrected(i) < 0
      BY <1>2, <3>1 DEF SpendsOnFixtures
    <3>3. i \in 0 .. n /\ i \in 1 .. n + 1
      BY <1>2, <3>2
    <3>4. rowsOf'[i].kind # "mint" /\ Corrected(i)' < 0
      BY <1>1, <1>8, <3>2, <3>3
    <3> QED BY <1>2, <1>9, <3>3, <3>4 DEF SpendsOnFixtures
  <2>2. \A i \in 1 .. n : Corrected(i) = HonestAfter(Corrected(i - 1), rowsOf[i])
    BY <1>2, <2>1 DEF CorrectionIsExact
  <2>3. Corrected(n + 1)' = HonestAfter(Corrected(n), r)
    <3> DEFINE c == Corrected(n)
               b == Recorded(n)
               k == Cumulative[n]
    <3>1. n \in 0 .. n /\ n + 1 \in 1 .. n + 1
      BY <1>2
    <3>2. b \in Nat /\ k \in Nat /\ c = b - k
      BY <1>1, <1>3, <3>1 DEF Corrected
    <3>3. Corrected(n + 1)' = r.balance - (k + fab)
      BY <1>1, <1>5 DEF Corrected
    <3>4. r.balance = b + Delta(r)
      BY <1>0
    <3>5. r.kind = "spend" => r.amount = IF r.want < b THEN r.want ELSE b
      BY <1>0
    <3>6. r.kind # "mint" => ~(Corrected(n + 1)' < 0)
      BY <1>1, <1>2, <1>9, <3>1 DEF SpendsOnFixtures
    <3> HIDE DEF c, b, k
    <3>7. CASE r.fixture
      <4>1. IsFabricated(r) /\ r.kind = "mint"
        BY <3>7 DEF IsFabricated
      <4>2. fab = r.amount /\ Delta(r) = r.amount
        BY <4>1 DEF Delta
      <4>3. HonestAfter(c, r) = c
        BY <3>7 DEF HonestAfter
      <4> HIDE DEF fab
      <4>4. Corrected(n + 1)' = c
        BY <1>6, <3>2, <3>3, <3>4, <4>2
      <4> QED BY <4>3, <4>4 DEF c
    <3>8. CASE ~r.fixture
      <4>1. fab = 0
        BY <3>8
      <4> HIDE DEF fab
      <4>0. Delta(r) \in Int
        BY <1>6 DEF Delta
      <4>2. Corrected(n + 1)' = b + Delta(r) - k
        BY <3>2, <3>3, <3>4, <4>0, <4>1
      <4>3. CASE r.kind = "mint"
        <5>1. HonestAfter(c, r) = c + r.amount /\ Delta(r) = r.amount
          BY <3>8, <4>3 DEF HonestAfter, Delta
        <5>2. Corrected(n + 1)' = c + r.amount
          BY <1>6, <3>2, <4>2, <5>1
        <5> QED BY <5>1, <5>2 DEF c
      <4>4. CASE r.kind = "spend"
        <5>1. Delta(r) = 0 - r.amount
          BY <4>4 DEF Delta
        <5>2. HonestAfter(c, r) = IF r.want < c THEN c - r.want ELSE 0
          BY <3>8, <4>4 DEF HonestAfter
        <5>3. Corrected(n + 1)' = b - r.amount - k
          BY <1>6, <3>2, <4>2, <5>1
        <5>4. b - r.amount - k >= 0
          BY <1>6, <3>2, <3>6, <4>4, <5>3
        <5>5. r.amount = IF r.want < b THEN r.want ELSE b
          BY <3>5, <4>4
        <5>6. b - r.amount - k = IF r.want < c THEN c - r.want ELSE 0
          BY <1>6, <3>2, <5>4, <5>5
        <5> QED BY <5>2, <5>3, <5>6 DEF c
      <4> QED BY <1>6, <4>3, <4>4
    <3> QED BY <3>7, <3>8
  <2>4. ASSUME NEW i \in 1 .. n + 1 PROVE Corrected(i)' = HonestAfter(Corrected(i - 1)', rowsOf'[i])
    <3>1. CASE i \in 1 .. n
      <4>1. i \in 0 .. n /\ i - 1 \in 0 .. n
        BY <1>2, <3>1
      <4> QED BY <1>1, <1>8, <2>2, <3>1, <4>1
    <3>2. CASE i = n + 1
      <4>1. i - 1 = n /\ n \in 0 .. n
        BY <1>2, <3>2
      <4> QED BY <1>1, <1>8, <2>3, <3>2, <4>1
    <3> QED BY <1>2, <2>4, <3>1, <3>2
  <2> QED BY <2>4
<1>10. CorrectionIsExact'
  BY <1>2, <1>9 DEF CorrectionIsExact
<1> QED BY <1>0, <1>1, <1>5, <1>7, <1>10

\* While nothing is written to the journal, what is computed from it stays.
LEMMA JournalStands ==
  ASSUME MarksTell, CorrectionIsExact, UNCHANGED rowsOf, unlocked \subseteq unlocked'
  PROVE  /\ \A i \in DOMAIN rowsOf' : IsFabricated(rowsOf'[i]) <=> rowsOf'[i].fixture
         /\ CorrectionIsExact'
         /\ Anomalies' = Anomalies /\ Recorded(Len(rowsOf))' = Recorded(Len(rowsOf))
<1>1. SpendsOnFixtures' = SpendsOnFixtures
  BY DEF SpendsOnFixtures, Corrected, Recorded, Cumulative
<1>2. CorrectionIsExact'
  <2>1. SUFFICES ASSUME unlocked' = {}, SpendsOnFixtures' = {}, NEW i \in DOMAIN rowsOf'
                 PROVE  Corrected(i)' = HonestAfter(Corrected(i - 1), rowsOf[i])'
    BY DEF CorrectionIsExact
  <2>2. unlocked = {}
    BY <2>1
  <2>3. Corrected(i) = HonestAfter(Corrected(i - 1), rowsOf[i])
    BY <1>1, <2>1, <2>2 DEF CorrectionIsExact
  <2> QED BY <2>3 DEF Corrected, Recorded, Cumulative, HonestAfter
<1> QED BY <1>2 DEF MarksTell, Anomalies, Recorded

\* A mint or a spend.
LEMMA PostKeeps ==
  ASSUME WalletInv, NEW s \in Settler, Mint(s) \/ Spend(s)
  PROVE  WalletInv'
<1> USE DEF WalletInv
<1> DEFINE bal == settler[s].balance
<1>0. PICK from \in {"opened", "saved"}, to \in {"minted", "spent"}, kind \in {"mint", "spend"}, amount \in Nat,
           want \in Nat, balance \in Nat :
        /\ Post(s, from, to, kind, amount, want, balance)
        /\ kind = "mint" => amount = want /\ balance = bal + amount
        /\ kind = "spend" => amount = (IF want < bal THEN want ELSE bal) /\ balance = bal - amount
  <2>1. bal \in Nat /\ Earns[s] \in Nat /\ Costs[s] \in Nat
    BY WalletAssumption DEF WalletTypes
  <2>2. CASE Mint(s)
    <3>1. bal + Earns[s] \in Nat
      BY <2>1
    <3> HIDE DEF bal
    <3>2. Post(s, "opened", "minted", "mint", Earns[s], Earns[s], bal + Earns[s])
      BY <2>2 DEF Mint, bal
    <3> QED BY <2>1, <3>1, <3>2
  <2>3. CASE Spend(s)
    <3>1. /\ Actual(s) = (IF Costs[s] < bal THEN Costs[s] ELSE bal)
          /\ Actual(s) \in Nat /\ bal - Actual(s) \in Nat
      BY <2>1 DEF Actual
    <3> HIDE DEF bal
    <3>2. Post(s, "saved", "spent", "spend", Actual(s), Costs[s], bal - Actual(s))
      BY <2>3 DEF Spend, bal
    <3> QED BY <2>1, <3>1, <3>2
  <2> QED BY <2>2, <2>3
<1> HIDE DEF bal
<1>1. /\ settler[s].step = from /\ UNCHANGED <<snapshot, holder, unlocked, fixtures, guarded>>
      /\ settler' = [settler EXCEPT ![s] = [step |-> to, balance |-> balance]]
      /\ rowsOf' = IF amount = 0 THEN rowsOf ELSE Append(rowsOf, Row(s, kind, amount, want, balance))
  BY <1>0 DEF Post
<1>2. /\ settler'[s] = [step |-> to, balance |-> balance]
      /\ \A t \in Settler : t # s => settler'[t] = settler[t]
      /\ settler' \in [Settler -> [step : WalletSteps, balance : Nat]]
  BY <1>0, <1>1 DEF WalletTypes, WalletSteps
<1>3. CASE amount = 0
  <2>1. UNCHANGED rowsOf /\ bal \in Nat /\ balance = bal
    BY <1>0, <1>1, <1>3 DEF WalletTypes, bal
  <2>2. /\ \A i \in DOMAIN rowsOf' : IsFabricated(rowsOf'[i]) <=> rowsOf'[i].fixture
        /\ CorrectionIsExact'
        /\ Anomalies' = Anomalies /\ Recorded(Len(rowsOf))' = Recorded(Len(rowsOf))
    BY <1>1, <2>1, JournalStands
  <2>3. WalletTypes'
    BY <1>1, <1>2, <2>1 DEF WalletTypes
  <2>4. MarksTell'
    BY <1>0, <1>1, <1>2, <2>2, WalletAssumption DEF MarksTell
  <2>5. unlocked' = {} => LockHeld'
    BY <1>0, <1>1, <1>2, <2>1, <2>2 DEF LockHeld, Inside, bal
  <2> QED BY <2>2, <2>3, <2>4, <2>5
<1>4. CASE amount # 0
  <2> DEFINE r == Row(s, kind, amount, want, balance)
  <2>1. r \in WalletRow
    BY <1>0, <1>4 DEF Row, WalletRow, WalletTypes
  <2>2. /\ r.balance = balance /\ r.kind = kind /\ r.amount = amount /\ r.want = want /\ r.fixture = FALSE
        /\ r.marked => s \in Namesake
        /\ r.late = guarded
    BY DEF Row
  <2> HIDE DEF r
  <2>3. ~IsFabricated(r) /\ ~r.fixture
    BY <1>0, <1>1, <2>2 DEF IsFabricated, MarksTell
  <2>4. /\ rowsOf' \in Seq(WalletRow) /\ Len(rowsOf') = Len(rowsOf) + 1 /\ rowsOf'[Len(rowsOf) + 1] = r
        /\ \A i \in 1 .. Len(rowsOf) : rowsOf'[i] = rowsOf[i]
    BY <1>1, <1>4, <2>1, WalletRowAppended DEF r
  <2>5. WalletTypes'
    BY <1>1, <1>2, <2>4 DEF WalletTypes
  <2>6. MarksTell'
    <3>1. rowsOf \in Seq(WalletRow)
      BY DEF WalletTypes
    <3>2. \A i \in DOMAIN rowsOf' : i \in 1 .. Len(rowsOf) \/ i = Len(rowsOf) + 1
      BY <2>4, <3>1
    <3>3. \A i \in DOMAIN rowsOf' : IsFabricated(rowsOf'[i]) <=> rowsOf'[i].fixture
      BY <2>3, <2>4, <3>1, <3>2 DEF MarksTell
    <3>4. \A t \in Namesake : settler'[t].step # "idle" => guarded'
      BY <1>0, <1>1, <1>2, WalletAssumption DEF MarksTell
    <3> QED BY <3>3, <3>4 DEF MarksTell
  <2>7. CASE unlocked # {}
    BY <1>1, <2>5, <2>6, <2>7 DEF CorrectionIsExact
  <2>8. CASE unlocked = {}
    <3>1. LockHeld /\ bal = Recorded(Len(rowsOf)) /\ bal \in Nat /\ holder = s
      BY <1>0, <1>1, <2>8 DEF LockHeld, WalletTypes, Inside, bal
    <3>2. r.balance = Recorded(Len(rowsOf)) + Delta(r)
      BY <1>0, <2>2, <3>1 DEF Delta
    <3>3. r.kind = "spend" =>
             r.amount = IF r.want < Recorded(Len(rowsOf)) THEN r.want ELSE Recorded(Len(rowsOf))
      BY <1>0, <2>2, <3>1
    <3>4. rowsOf' = Append(rowsOf, r) /\ unlocked' = unlocked /\ Anomalies = {}
      BY <1>1, <1>4, <3>1 DEF r, LockHeld
    <3>5. Anomalies' = {} /\ CorrectionIsExact' /\ Recorded(Len(rowsOf))' = r.balance
      BY <2>1, <2>3, <2>8, <3>2, <3>3, <3>4, JournalGoesOn
    <3>6. LockHeld'
      <4>1. \A t \in Settler : t # s => ~Inside(t)
        BY <3>1 DEF LockHeld
      <4>2. \A t \in Settler : t # s => ~Inside(t)'
        BY <1>2, <4>1 DEF Inside
      <4>3. \A t \in Settler : Inside(t)' => holder' = t
        BY <1>1, <3>1, <4>2
      <4>4. \A t \in Settler : settler'[t].step \in {"opened", "minted", "saved", "spent"}
                            => settler'[t].balance = Recorded(Len(rowsOf))'
        BY <1>2, <2>2, <3>5, <4>2 DEF Inside
      <4>5. settler'[s].step \in {"minted", "spent"}
        BY <1>0, <1>2
      <4> QED BY <3>5, <4>3, <4>4, <4>5 DEF LockHeld
    <3> QED BY <2>5, <2>6, <3>5, <3>6
  <2> QED BY <2>7, <2>8
<1> QED BY <1>3, <1>4

\* A suite's mint, from open to save while nobody has the lock.
LEMMA FixtureMintKeeps ==
  ASSUME WalletInv, FixtureMint
  PROVE  WalletInv'
<1> USE DEF WalletInv
<1> DEFINE r == [kind |-> "mint", amount |-> FixtureAmount, want |-> FixtureAmount,
                 balance |-> snapshot + FixtureAmount, marked |-> TRUE,
                 late |-> FALSE, fixture |-> TRUE]
<1>1. /\ holder = NoOne /\ fixtures < MaxFixtures /\ fixtures' = fixtures + 1
      /\ snapshot' = snapshot + FixtureAmount /\ rowsOf' = Append(rowsOf, r)
      /\ UNCHANGED <<holder, settler, unlocked, guarded>>
  BY DEF FixtureMint
<1>2. snapshot \in Nat /\ snapshot + FixtureAmount \in Nat /\ FixtureAmount \in Nat \ {0}
  BY WalletAssumption DEF WalletTypes
<1>3. r \in WalletRow /\ IsFabricated(r) /\ r.fixture /\ Delta(r) = FixtureAmount /\ r.kind = "mint"
  BY <1>2 DEF WalletRow, IsFabricated, Delta
<1>4. r.balance = snapshot + FixtureAmount
  OBVIOUS
<1>p. PICK q : q = r
  OBVIOUS
<1>q. /\ q \in WalletRow /\ IsFabricated(q) /\ q.fixture /\ Delta(q) = FixtureAmount /\ q.kind = "mint"
      /\ q.balance = snapshot + FixtureAmount /\ rowsOf' = Append(rowsOf, q)
  BY <1>1, <1>3, <1>4, <1>p
<1> HIDE DEF r
<1>5. /\ rowsOf' \in Seq(WalletRow) /\ Len(rowsOf') = Len(rowsOf) + 1 /\ rowsOf'[Len(rowsOf) + 1] = q
      /\ \A i \in 1 .. Len(rowsOf) : rowsOf'[i] = rowsOf[i]
  BY <1>q, WalletRowAppended
<1>6. WalletTypes'
  BY <1>1, <1>2, <1>5, WalletAssumption DEF WalletTypes
<1>7. MarksTell'
  <2>1. rowsOf \in Seq(WalletRow)
    BY DEF WalletTypes
  <2>2. \A i \in DOMAIN rowsOf' : i \in 1 .. Len(rowsOf) \/ i = Len(rowsOf) + 1
    BY <1>5, <2>1
  <2>3. \A i \in DOMAIN rowsOf' : IsFabricated(rowsOf'[i]) <=> rowsOf'[i].fixture
    BY <1>q, <1>5, <2>1, <2>2 DEF MarksTell
  <2> QED BY <1>1, <2>3 DEF MarksTell
<1>8. CASE unlocked # {}
  BY <1>1, <1>6, <1>7, <1>8 DEF CorrectionIsExact
<1>9. CASE unlocked = {}
  <2>1. LockHeld /\ \A t \in Settler : ~Inside(t)
    BY <1>1, <1>9, WalletAssumption DEF LockHeld
  <2>2. snapshot = Recorded(Len(rowsOf)) /\ Anomalies = {}
    BY <2>1 DEF LockHeld, Inside
  <2>3. Anomalies' = {} /\ CorrectionIsExact' /\ Recorded(Len(rowsOf))' = q.balance
    <3>1. /\ q.balance = Recorded(Len(rowsOf)) + Delta(q) /\ unlocked' = unlocked
          /\ q.kind # "spend"
      BY <1>1, <1>q, <2>2
    <3> QED BY <1>9, <1>q, <2>2, <3>1, JournalGoesOn
  <2>4. LockHeld'
    <3>1. \A t \in Settler : settler'[t] = settler[t] /\ ~Inside(t)'
      BY <1>1, <2>1 DEF Inside
    <3>2. snapshot' = Recorded(Len(rowsOf))'
      BY <1>1, <1>q, <2>3
    <3> QED BY <2>1, <2>3, <3>1, <3>2 DEF LockHeld, Inside
  <2> QED BY <1>6, <1>7, <2>3, <2>4
<1> QED BY <1>8, <1>9

\* The steps that leave the journal alone.
LEMMA QuietKeeps ==
  ASSUME WalletInv,
         \/ \E s \in Settler : \/ Ask(s) \/ TakeLock(s) \/ TimeOut(s) \/ OpenWallet(s)
                               \/ Save(s) \/ Close(s) \/ CutShort(s)
         \/ GuardLands \/ UNCHANGED walletVars
  PROVE  WalletInv'
<1> USE DEF WalletInv
<1>0. UNCHANGED rowsOf /\ unlocked \subseteq unlocked'
  BY DEF Ask, TakeLock, TimeOut, OpenWallet, Save, Close, CutShort, GuardLands, walletVars
<1>1. /\ \A i \in DOMAIN rowsOf' : IsFabricated(rowsOf'[i]) <=> rowsOf'[i].fixture
      /\ CorrectionIsExact'
      /\ Anomalies' = Anomalies /\ Recorded(Len(rowsOf))' = Recorded(Len(rowsOf))
  BY <1>0, JournalStands
<1>2. SUFFICES WalletTypes' /\ (\A t \in Namesake : settler'[t].step # "idle" => guarded') /\ (unlocked' = {} => LockHeld')
  BY <1>1 DEF MarksTell
<1>3. ASSUME NEW s \in Settler, Ask(s)
      PROVE  WalletTypes' /\ (\A t \in Namesake : settler'[t].step # "idle" => guarded') /\ (unlocked' = {} => LockHeld')
  <2>1. /\ settler'[s] = [step |-> "wait", balance |-> settler[s].balance] /\ settler[s].step = "idle"
        /\ \A t \in Settler : t # s => settler'[t] = settler[t]
        /\ UNCHANGED <<snapshot, rowsOf, holder, unlocked, fixtures, guarded>>
        /\ settler' \in [Settler -> [step : WalletSteps, balance : Nat]]
        /\ s \in Namesake => guarded
    BY <1>3 DEF Ask, WalletTypes, WalletSteps
  <2>2. WalletTypes'
    BY <2>1 DEF WalletTypes
  <2>3. \A t \in Namesake : settler'[t].step # "idle" => guarded'
    BY <2>1, WalletAssumption DEF MarksTell
  <2>4. unlocked' = {} => LockHeld'
    BY <1>1, <2>1 DEF LockHeld, Inside
  <2> QED BY <2>2, <2>3, <2>4
<1>4. ASSUME NEW s \in Settler, TakeLock(s) \/ TimeOut(s)
      PROVE  WalletTypes' /\ (\A t \in Namesake : settler'[t].step # "idle" => guarded') /\ (unlocked' = {} => LockHeld')
  <2>1. /\ settler'[s] = [step |-> "open", balance |-> settler[s].balance] /\ settler[s].step = "wait"
        /\ \A t \in Settler : t # s => settler'[t] = settler[t]
        /\ UNCHANGED <<snapshot, rowsOf, fixtures, guarded>>
        /\ settler' \in [Settler -> [step : WalletSteps, balance : Nat]]
        /\ \/ holder = NoOne /\ holder' = s /\ UNCHANGED unlocked
           \/ UNCHANGED holder /\ unlocked' = unlocked \cup {s}
    BY <1>4 DEF TakeLock, TimeOut, LockIsFree, WalletTypes, WalletSteps
  <2>2. WalletTypes'
    BY <2>1 DEF WalletTypes
  <2>3. \A t \in Namesake : settler'[t].step # "idle" => guarded'
    BY <2>1, WalletAssumption DEF MarksTell
  <2>4. unlocked' = {} => LockHeld'
    <3>1. SUFFICES ASSUME unlocked' = {} PROVE LockHeld'
      OBVIOUS
    <3>2. holder = NoOne /\ holder' = s /\ LockHeld
      BY <2>1, <3>1
    <3>3. \A t \in Settler : ~Inside(t)
      BY <3>2, WalletAssumption DEF LockHeld
    <3> QED BY <1>1, <2>1, <3>2, <3>3 DEF LockHeld, Inside
  <2> QED BY <2>2, <2>3, <2>4
<1>5. ASSUME NEW s \in Settler, OpenWallet(s)
      PROVE  WalletTypes' /\ (\A t \in Namesake : settler'[t].step # "idle" => guarded') /\ (unlocked' = {} => LockHeld')
  <2>1. /\ settler'[s] = [step |-> "opened", balance |-> snapshot] /\ settler[s].step = "open"
        /\ \A t \in Settler : t # s => settler'[t] = settler[t]
        /\ UNCHANGED <<snapshot, rowsOf, holder, unlocked, fixtures, guarded>>
        /\ settler' \in [Settler -> [step : WalletSteps, balance : Nat]]
    BY <1>5 DEF OpenWallet, WalletTypes, WalletSteps
  <2>2. WalletTypes'
    BY <2>1 DEF WalletTypes
  <2>3. \A t \in Namesake : settler'[t].step # "idle" => guarded'
    BY <2>1, WalletAssumption DEF MarksTell
  <2>4. unlocked' = {} => LockHeld'
    <3>1. SUFFICES ASSUME unlocked' = {} PROVE LockHeld'
      OBVIOUS
    <3>2. LockHeld /\ holder = s
      BY <2>1, <3>1 DEF LockHeld, Inside
    <3>3. \A t \in Settler : t # s => ~Inside(t)
      BY <3>2 DEF LockHeld
    <3>4. snapshot = Recorded(Len(rowsOf))
      BY <2>1, <3>2, <3>3 DEF LockHeld, Inside
    <3> QED BY <1>1, <2>1, <3>2, <3>4 DEF LockHeld, Inside
  <2> QED BY <2>2, <2>3, <2>4
<1>6. ASSUME NEW s \in Settler, Save(s)
      PROVE  WalletTypes' /\ (\A t \in Namesake : settler'[t].step # "idle" => guarded') /\ (unlocked' = {} => LockHeld')
  <2>1. /\ settler'[s].balance = settler[s].balance /\ settler[s].step \in {"minted", "spent"}
        /\ settler'[s].step \in {"saved", "closing"}
        /\ \A t \in Settler : t # s => settler'[t] = settler[t]
        /\ UNCHANGED <<rowsOf, holder, unlocked, fixtures, guarded>> /\ snapshot' = settler[s].balance
        /\ settler' \in [Settler -> [step : WalletSteps, balance : Nat]]
    BY <1>6 DEF Save, WalletTypes, WalletSteps
  <2>2. WalletTypes'
    BY <2>1 DEF WalletTypes
  <2>3. \A t \in Namesake : settler'[t].step # "idle" => guarded'
    BY <2>1, WalletAssumption DEF MarksTell
  <2>4. unlocked' = {} => LockHeld'
    BY <1>1, <2>1 DEF LockHeld, Inside
  <2> QED BY <2>2, <2>3, <2>4
<1>7. ASSUME NEW s \in Settler, Close(s) \/ CutShort(s)
      PROVE  WalletTypes' /\ (\A t \in Namesake : settler'[t].step # "idle" => guarded') /\ (unlocked' = {} => LockHeld')
  <2>1. /\ settler'[s].balance = settler[s].balance
        /\ settler[s].step \notin {"idle"} /\ settler'[s].step \in {"recorded", "failed"}
        /\ \A t \in Settler : t # s => settler'[t] = settler[t]
        /\ UNCHANGED <<snapshot, rowsOf, fixtures, guarded>>
        /\ holder' \in {holder, NoOne} /\ (holder # s => holder' = holder)
        /\ \/ UNCHANGED unlocked /\ settler[s].step = "closing"
           \/ unlocked' = unlocked \cup {s}
        /\ settler' \in [Settler -> [step : WalletSteps, balance : Nat]]
    BY <1>7 DEF Close, CutShort, Release, WalletTypes, WalletSteps
  <2>2. WalletTypes'
    BY <2>1 DEF WalletTypes
  <2>3. \A t \in Namesake : settler'[t].step # "idle" => guarded'
    BY <2>1, WalletAssumption DEF MarksTell
  <2>4. unlocked' = {} => LockHeld'
    BY <1>1, <2>1 DEF LockHeld, Inside
  <2> QED BY <2>2, <2>3, <2>4
<1>8. CASE GuardLands
  BY <1>1, <1>8 DEF GuardLands, WalletTypes, MarksTell, LockHeld, Inside
<1>9. CASE UNCHANGED walletVars
  BY <1>1, <1>9 DEF walletVars, WalletTypes, MarksTell, LockHeld, Inside
<1> QED BY <1>3, <1>4, <1>5, <1>6, <1>7, <1>8, <1>9

\* The wallet's accounts agree for every number of settlements, whatever they
\* mint and spend, as long as nobody went on without the lock (joules.py,
\* settle and settle_lock; wallet_correction.py, correct_ledger).
THEOREM WalletStaysExact == WalletSpec => []WalletIsExact
<1>1. WalletInit => WalletInv
  <2> SUFFICES ASSUME WalletInit PROVE WalletInv
    OBVIOUS
  <2>1. WalletTypes
    <3>1. rowsOf \in Seq(WalletRow)
      <4>1. << >> \in Seq(WalletRow)
        OBVIOUS
      <4> QED BY <4>1 DEF WalletInit
    <3>4. guarded \in BOOLEAN
      BY DEF WalletInit
    <3>2. settler \in [Settler -> [step : WalletSteps, balance : Nat]]
      BY DEF WalletInit, WalletSteps
    <3>3. snapshot \in Nat /\ fixtures \in 0 .. MaxFixtures
      BY WalletAssumption DEF WalletInit
    <3> QED BY <3>1, <3>2, <3>3, <3>4 DEF WalletInit, WalletTypes
  <2>2. rowsOf = << >> /\ DOMAIN rowsOf = {} /\ Len(rowsOf) = 0
    BY DEF WalletInit
  <2>3. MarksTell /\ CorrectionIsExact /\ Anomalies = {}
    BY <2>2, WalletAssumption DEF WalletInit, MarksTell, CorrectionIsExact, Anomalies
  <2>4. LockHeld
    BY <2>2, <2>3 DEF WalletInit, LockHeld, Inside, Recorded
  <2> QED BY <2>1, <2>3, <2>4 DEF WalletInv
<1>2. WalletInv /\ [WalletNext]_walletVars => WalletInv'
  <2> SUFFICES ASSUME WalletInv, [WalletNext]_walletVars PROVE WalletInv'
    OBVIOUS
  <2>1. ASSUME NEW s \in Settler, Mint(s) \/ Spend(s) PROVE WalletInv'
    BY <2>1, PostKeeps
  <2>2. CASE FixtureMint
    BY <2>2, FixtureMintKeeps
  <2>3. CASE \/ \E s \in Settler : \/ Ask(s) \/ TakeLock(s) \/ TimeOut(s) \/ OpenWallet(s)
                                   \/ Save(s) \/ Close(s) \/ CutShort(s)
             \/ GuardLands \/ UNCHANGED walletVars
    BY <2>3, QuietKeeps
  <2> QED BY <2>1, <2>2, <2>3 DEF WalletNext, SettlerNext
<1>3. WalletInv => WalletIsExact
  <2> SUFFICES ASSUME WalletInv PROVE WalletIsExact
    OBVIOUS
  <2>1. \A i \in DOMAIN rowsOf : rowsOf[i] \in WalletRow
    BY DEF WalletInv, WalletTypes
  <2>2. WalletTypeOK
    BY <2>1 DEF WalletInv, WalletTypes, WalletTypeOK, WalletRow
  <2>3. NoUpdateIsLost
    BY DEF WalletInv, LockHeld, NoUpdateIsLost, Inside
  <2> QED BY <2>2, <2>3 DEF WalletInv, WalletIsExact
<1> QED BY <1>1, <1>2, <1>3, PTL DEF WalletSpec

-----------------------------------------------------------------------------
(* The cost ledger. *)

CostSteps == {"idle", "alert", "run", "finalize", "record", "mark", "settle", "mint", "journal"} \cup Ended

DispatchState == [step : CostSteps, today : Days, pre : Nat, cost : Nat, pr : BOOLEAN, grade : BOOLEAN]

\* A row's run id is of the form its writer gives it; a suite's item is the fixture's.
Written(r) ==
    /\ r.by = "bridge" => r.run = "airun"
    /\ r.by = "engine" => r.run = "stamp"
    /\ r.by = "suite" => r.card = FixtureCard /\ r.cost = 0 /\ r.run # "stamp"

Writers == {"bridge", "engine", "suite"}

CostRow == {r \in [day : Days, card : Cards \cup {FixtureCard}, cost : Nat,
                   run : {"airun", "stamp", "name"}, by : Writers] : Written(r)}

Engine == [runs : Nat, building : Nat, spent : Nat, past : Nat]

CostTypes ==
    /\ day \in Days /\ costRows \in Seq(CostRow) /\ settlements \subseteq Cards /\ sentinels \subseteq Days
    /\ alerts \in [Days -> SUBSET {"sent", "failed"}]
    /\ minted \in [Cards -> Nat] /\ lapses \in [Cards -> Nat] /\ mishaps \in Nat
    /\ dispatch \in [Dispatch -> DispatchState] /\ misread \in Nat /\ engine \in Engine

\* What the bridge and the orchestrator have in the ledger for a day.
Spent(e) == TotalBy(e, "bridge")
Built(e) == TotalBy(e, "engine")

\* Nothing is dated ahead of today, and a day's total is the two writers'.
RowsOK ==
    /\ \A d \in Dispatch : dispatch[d].today <= day
    /\ \A e \in Days : (e > day => DayTotal(e) = 0) /\ DayTotal(e) = Spent(e) + Built(e)

\* Runs whose cost is still to be recorded, and runs that are under way.
Owing == {d \in Dispatch : dispatch[d].step \in {"run", "finalize", "record"}}
UnderWay == {d \in Dispatch : InFlight(d)}

\* Each run that still owes its cost counts as if it had recorded the dearest
\* one: then recording changes nothing, and a new run is let through only when
\* the ledger was below the cap, or could not be read.
SpendOK ==
    /\ Cardinality(UnderWay) <= Workers
    /\ \A d \in Dispatch : dispatch[d].cost <= Dearest
    /\ Spent(day) + Cardinality(Owing) * Dearest < Cap + (Workers + misread) * Dearest
    /\ \A e \in Days : Spent(e) < Cap + (Workers + misread) * Dearest

\* The same for a run of the orchestrator and its builds under way; each day has
\* at most what its runs spent.
EngineOK ==
    /\ engine.building <= Builders
    /\ engine.spent + engine.building * Dearest <= Cap + Builders * Dearest
    /\ \A e \in Days : Built(e) <= engine.past + engine.spent

\* Who was let through was below the cap; who was not, or is about to leave the
\* sentinel, comes after an alert.
AlertsOK ==
    /\ \A e \in sentinels : alerts[e] # {}
    /\ \A d \in Dispatch :
         /\ dispatch[d].step \in {"idle", "run", "finalize", "record"} => ~Capped(dispatch[d].pre)
         /\ dispatch[d].step = "mark" => alerts[dispatch[d].today] # {}
         /\ dispatch[d].step = "refused" /\ Capped(dispatch[d].pre) => alerts[dispatch[d].today] # {}

\* A item has one dispatch under way; the wallet has at most one mint that no
\* lapse accounts for, and none while the item is not in the journal or is about
\* to be settled (a look at an unreadable journal is a lapse).
Journalled(c) == c \in settlements \/ \E d \in Dispatch : CardOf[d] = c /\ dispatch[d].step = "journal"

SettleOK ==
    /\ \A d, e \in Dispatch : InFlight(d) /\ InFlight(e) /\ CardOf[d] = CardOf[e] => d = e
    /\ \A d \in Dispatch : dispatch[d].step = "mint" => minted[CardOf[d]] <= lapses[CardOf[d]]
    /\ \A c \in Cards : minted[c] <= lapses[c] + 1 /\ (~Journalled(c) => minted[c] <= lapses[c])

CostInv == CostTypes /\ RowsOK /\ SpendOK /\ EngineOK /\ AlertsOK /\ SettleOK

LEMMA DearestIsMost == Dearest \in Nat /\ \A p \in Price : p <= Dearest
<1>1. \E p \in Price : \A q \in Price : q <= p
  BY CostAssumption
<1>2. Dearest \in Price /\ \A q \in Price : q <= Dearest
  BY <1>1 DEF Dearest
<1> QED BY <1>2, CostAssumption

-----------------------------------------------------------------------------
\* The amounts of some writers that make up a day's total.
Amounts(rows, e, W) == [i \in 1 .. Len(rows) |-> IF rows[i].day = e /\ rows[i].by \in W THEN rows[i].cost ELSE 0]

LEMMA AmountsAreNumbers ==
  ASSUME NEW rows \in Seq(CostRow), NEW e, NEW W
  PROVE  /\ Amounts(rows, e, W) \in Seq(Nat) /\ Len(Amounts(rows, e, W)) = Len(rows)
         /\ SumOf(Amounts(rows, e, W)) \in Nat
<1>1. \A i \in 1 .. Len(rows) : rows[i] \in CostRow /\ rows[i].cost \in Nat
  <2>1. \A i \in 1 .. Len(rows) : rows[i] \in CostRow
    OBVIOUS
  <2> QED BY <2>1 DEF CostRow
<1>2. Amounts(rows, e, W) \in [1 .. Len(rows) -> Nat] /\ Len(rows) \in Nat
  BY <1>1 DEF Amounts
<1>3. Amounts(rows, e, W) \in Seq(Nat) /\ Len(Amounts(rows, e, W)) = Len(rows)
  BY <1>2
<1>4. Len(Amounts(rows, e, W)) \in 0 .. Len(Amounts(rows, e, W))
  BY <1>3
<1> QED BY <1>3, <1>4, TotalsAreNumbers DEF SumOf

LEMMA TotalsAreBooked ==
  ASSUME costRows \in Seq(CostRow), NEW e
  PROVE  /\ DayTotal(e) = SumOf(Amounts(costRows, e, Writers))
         /\ Spent(e) = SumOf(Amounts(costRows, e, {"bridge"}))
         /\ Built(e) = SumOf(Amounts(costRows, e, {"engine"}))
         /\ DayTotal(e) \in Nat /\ Spent(e) \in Nat /\ Built(e) \in Nat
<1>1. \A i \in 1 .. Len(costRows) : costRows[i].by \in Writers
  <2>1. \A i \in 1 .. Len(costRows) : costRows[i] \in CostRow
    OBVIOUS
  <2> QED BY <2>1 DEF CostRow
<1>2. DOMAIN costRows = 1 .. Len(costRows)
  OBVIOUS
<1>3. [i \in 1 .. Len(costRows) |-> IF i \in RowsOn(e) THEN costRows[i].cost ELSE 0] = Amounts(costRows, e, Writers)
  BY <1>1, <1>2 DEF RowsOn, Amounts
<1>4. ASSUME NEW who
      PROVE  TotalBy(e, who) = SumOf(Amounts(costRows, e, {who}))
  <2>1. [i \in 1 .. Len(costRows) |-> IF i \in {j \in RowsOn(e) : costRows[j].by = who} THEN costRows[i].cost ELSE 0]
          = Amounts(costRows, e, {who})
    BY <1>2 DEF RowsOn, Amounts
  <2> QED BY <2>1 DEF TotalBy, CostOf
<1>5. DayTotal(e) = SumOf(Amounts(costRows, e, Writers))
  BY <1>3 DEF DayTotal, CostOf
<1>6. Spent(e) = SumOf(Amounts(costRows, e, {"bridge"})) /\ Built(e) = SumOf(Amounts(costRows, e, {"engine"}))
  BY <1>4 DEF Spent, Built
<1>7. \A W : SumOf(Amounts(costRows, e, W)) \in Nat
  BY AmountsAreNumbers
<1> QED BY <1>5, <1>6, <1>7

\* What a row adds to it.
Adds(r, e, W) == IF r.day = e /\ r.by \in W THEN r.cost ELSE 0

Lengthens(more, rows, r) == more = Append(rows, r)

LEMMA AmountsGrow ==
  ASSUME NEW rows \in Seq(CostRow), NEW r \in CostRow, NEW more, Lengthens(more, rows, r), NEW e, NEW W
  PROVE  SumOf(Amounts(more, e, W)) = SumOf(Amounts(rows, e, W)) + Adds(r, e, W)
<1> DEFINE A == Amounts(rows, e, W)
           B == Amounts(more, e, W)
           x == Adds(r, e, W)
<1>1. /\ more \in Seq(CostRow) /\ Len(rows) \in Nat
      /\ Len(more) = Len(rows) + 1 /\ more[Len(rows) + 1] = r
      /\ \A i \in 1 .. Len(rows) : more[i] = rows[i]
  BY DEF Lengthens
<1>2. /\ A \in Seq(Nat) /\ Len(A) = Len(rows)
      /\ B \in Seq(Nat) /\ Len(B) = Len(rows) + 1
  BY <1>1, AmountsAreNumbers
<1>3. x \in Nat
  BY DEF CostRow, Adds
<1>4. \A i \in 1 .. Len(rows) : B[i] = A[i]
  BY <1>1 DEF Amounts
<1>5. B[Len(rows) + 1] = x
  BY <1>1 DEF Amounts, Adds
<1> HIDE DEF A, B, x
<1>6. B = Append(A, x)
  BY <1>1, <1>2, <1>3, <1>4, <1>5
<1>7. SumOf(B) = SumOf(A) + x
  BY <1>2, <1>3, <1>6, SumOfAppend
<1> QED BY <1>7 DEF A, B, x

LEMMA RowRecorded ==
  ASSUME CostTypes, NEW r \in CostRow, costRows' = Append(costRows, r), NEW e
  PROVE  /\ costRows' \in Seq(CostRow) /\ DayTotal(e) \in Nat /\ Spent(e) \in Nat /\ Built(e) \in Nat
         /\ DayTotal(e)' = DayTotal(e) + (IF r.day = e THEN r.cost ELSE 0)
         /\ Spent(e)' = Spent(e) + (IF r.day = e /\ r.by = "bridge" THEN r.cost ELSE 0)
         /\ Built(e)' = Built(e) + (IF r.day = e /\ r.by = "engine" THEN r.cost ELSE 0)
<1>1. costRows \in Seq(CostRow) /\ costRows' \in Seq(CostRow) /\ r.by \in Writers
  BY DEF CostTypes, CostRow
<1>2. (costRows \in Seq(CostRow) =>
         /\ DayTotal(e) = SumOf(Amounts(costRows, e, Writers))
         /\ Spent(e) = SumOf(Amounts(costRows, e, {"bridge"}))
         /\ Built(e) = SumOf(Amounts(costRows, e, {"engine"})))'
  BY TotalsAreBooked, PTL
<1>3. \A W : SumOf(Amounts(costRows', e, W)) = SumOf(Amounts(costRows, e, W)) + Adds(r, e, W)
  <2>1. Lengthens(costRows', costRows, r)
    BY DEF Lengthens
  <2> QED BY <1>1, <2>1, AmountsGrow
<1>4. /\ Adds(r, e, Writers) = (IF r.day = e THEN r.cost ELSE 0)
      /\ Adds(r, e, {"bridge"}) = (IF r.day = e /\ r.by = "bridge" THEN r.cost ELSE 0)
      /\ Adds(r, e, {"engine"}) = (IF r.day = e /\ r.by = "engine" THEN r.cost ELSE 0)
  BY <1>1 DEF Adds
<1>5. DayTotal(e) \in Nat /\ Spent(e) \in Nat /\ Built(e) \in Nat
  BY <1>1, TotalsAreBooked
<1>6. /\ DayTotal(e)' = DayTotal(e) + Adds(r, e, Writers)
      /\ Spent(e)' = Spent(e) + Adds(r, e, {"bridge"})
      /\ Built(e)' = Built(e) + Adds(r, e, {"engine"})
  BY <1>1, <1>2, <1>3, TotalsAreBooked
<1> QED BY <1>1, <1>4, <1>5, <1>6

LEMMA DayTotalStands ==
  ASSUME CostTypes, UNCHANGED costRows, NEW e
  PROVE  /\ DayTotal(e)' = DayTotal(e) /\ Spent(e)' = Spent(e) /\ Built(e)' = Built(e)
         /\ DayTotal(e) \in Nat /\ Spent(e) \in Nat /\ Built(e) \in Nat
<1>1. DayTotal(e) \in Nat /\ Spent(e) \in Nat /\ Built(e) \in Nat
  BY TotalsAreBooked DEF CostTypes
<1> QED BY <1>1 DEF DayTotal, Spent, Built, TotalBy, CostOf, RowsOn

-----------------------------------------------------------------------------
\* What a dispatch's step does to the table of dispatches.
Becomes(d, new) == new \in DispatchState /\ dispatch' = [dispatch EXCEPT ![d] = new]

LEMMA BecomesFrame ==
  ASSUME CostTypes, NEW d \in Dispatch, NEW new, Becomes(d, new)
  PROVE  /\ dispatch' \in [Dispatch -> DispatchState] /\ dispatch'[d] = new
         /\ \A e \in Dispatch : e # d => dispatch'[e] = dispatch[e]
BY DEF Becomes, CostTypes

LEMMA GoesTo ==
  ASSUME CostTypes, NEW d \in Dispatch, NEW step \in CostSteps, Goes(d, step)
  PROVE  \E new : /\ Becomes(d, new) /\ new.step = step
                  /\ new.today = dispatch[d].today /\ new.pre = dispatch[d].pre
                  /\ new.cost \in {0, dispatch[d].cost}
                  /\ step \notin Ended => new = [dispatch[d] EXCEPT !.step = step]
<1>1. dispatch[d] \in DispatchState
  BY DEF CostTypes
<1>2. CASE step \in Ended
  <2> DEFINE new == [dispatch[d] EXCEPT !.step = step, !.cost = 0, !.pr = FALSE, !.grade = FALSE]
  <2>1. new \in DispatchState
    BY <1>1 DEF DispatchState
  <2>2. dispatch' = [dispatch EXCEPT ![d] = new]
    BY <1>2 DEF Goes
  <2>3. /\ new.step = step /\ new.today = dispatch[d].today /\ new.pre = dispatch[d].pre /\ new.cost = 0
    BY <1>1 DEF DispatchState
  <2> QED BY <1>2, <2>1, <2>2, <2>3 DEF Becomes
<1>3. CASE step \notin Ended
  <2> DEFINE new == [dispatch[d] EXCEPT !.step = step]
  <2>1. new \in DispatchState
    BY <1>1 DEF DispatchState
  <2>2. dispatch' = [dispatch EXCEPT ![d] = new]
    BY <1>3 DEF Goes
  <2>3. /\ new.step = step /\ new.today = dispatch[d].today /\ new.pre = dispatch[d].pre /\ new.cost = dispatch[d].cost
    BY <1>1 DEF DispatchState
  <2> QED BY <2>1, <2>2, <2>3 DEF Becomes
<1> QED BY <1>2, <1>3

\* A dispatch's step, sorted by what it does: it begins, spends, records its
\* cost, alerts, marks, settles or ends; the rest it leaves alone.
Stays(d, new) == new.today = dispatch[d].today /\ new.pre = dispatch[d].pre

Begins(d, new) ==
    /\ MayStart(d) /\ new.cost <= Dearest /\ mishaps' \in {mishaps, mishaps + 1}
    /\ UNCHANGED <<day, costRows, settlements, sentinels, alerts, minted, lapses, engine>>
    /\ \/ new.step = "refused" /\ Stays(d, new) /\ UNCHANGED misread
       \/ /\ new.today = day
          /\ \/ new.pre = DayTotal(day) /\ UNCHANGED misread
             \/ new.pre = 0 /\ misread' = misread + 1
          /\ new.step = IF Capped(new.pre) THEN "alert" ELSE "run"

Runs(d, new) ==
    /\ dispatch[d].step \in {"run", "finalize"} /\ new.step \in {"finalize", "record", "refused"}
    /\ Stays(d, new) /\ new.cost <= Dearest /\ mishaps' \in {mishaps, mishaps + 1}
    /\ UNCHANGED <<day, costRows, settlements, sentinels, alerts, minted, lapses, misread, engine>>

RecordsCost(d, new) ==
    /\ dispatch[d].step = "record" /\ new.step = "alert" /\ Stays(d, new) /\ new.cost <= Dearest
    /\ mishaps' \in {mishaps, mishaps + 1}
    /\ \/ costRows' = Append(costRows, LedgerRow(CardOf[d], dispatch[d].cost, "airun", "bridge"))
       \/ UNCHANGED costRows
    /\ UNCHANGED <<day, settlements, sentinels, alerts, minted, lapses, misread, engine>>

Announces(d, new) ==
    /\ dispatch[d].step \in {"alert", "mark"} /\ Stays(d, new) /\ new.cost <= Dearest
    /\ new.step \in {"mark", "settle", "finished", "refused"} /\ mishaps' \in {mishaps, mishaps + 1}
    /\ \/ /\ dispatch[d].step = "alert" /\ new.step = "mark" /\ UNCHANGED sentinels
          /\ \E how \in {"sent", "failed"} : alerts' = [alerts EXCEPT ![dispatch[d].today] = @ \cup {how}]
       \/ /\ dispatch[d].step = "alert" /\ new.step # "mark" /\ UNCHANGED <<alerts, sentinels>>
          /\ Capped(dispatch[d].pre) => dispatch[d].today \in sentinels
       \/ /\ dispatch[d].step = "mark" /\ new.step # "mark" /\ UNCHANGED alerts
          /\ sentinels' \in {sentinels, sentinels \cup {dispatch[d].today}}
    /\ UNCHANGED <<day, costRows, settlements, minted, lapses, misread, engine>>

Settles(d, new) ==
    /\ Stays(d, new) /\ new.cost <= Dearest /\ mishaps' \in {mishaps, mishaps + 1}
    /\ \/ /\ dispatch[d].step = "settle" /\ UNCHANGED <<settlements, minted, lapses>>
          /\ new.step = IF CardOf[d] \in settlements THEN "finished" ELSE "mint"
       \/ /\ dispatch[d].step = "settle" /\ new.step = "mint" /\ UNCHANGED <<settlements, minted>>
          /\ lapses' = [lapses EXCEPT ![CardOf[d]] = @ + 1]
       \/ /\ dispatch[d].step = "mint" /\ new.step = "journal" /\ UNCHANGED <<settlements, lapses>>
          /\ minted' = minted \/ minted' = [minted EXCEPT ![CardOf[d]] = @ + 1]
       \/ /\ dispatch[d].step = "journal" /\ new.step = "finished" /\ UNCHANGED minted
          /\ \/ settlements' = settlements \cup {CardOf[d]} /\ UNCHANGED lapses
             \/ UNCHANGED settlements /\ lapses' = [lapses EXCEPT ![CardOf[d]] = @ + 1]
       \/ /\ InFlight(d) /\ new.step = "dead" /\ UNCHANGED <<settlements, minted>>
          /\ lapses' = [lapses EXCEPT ![CardOf[d]] = @ + 1]
    /\ UNCHANGED <<day, costRows, sentinels, alerts, misread, engine>>

LEMMA DispatchCases ==
  ASSUME CostTypes, SpendOK, NEW d \in Dispatch, DispatchNext(d)
  PROVE  \E new : Becomes(d, new) /\ (\/ Begins(d, new) \/ Runs(d, new) \/ RecordsCost(d, new)
                                      \/ Announces(d, new) \/ Settles(d, new))
<1>0. /\ dispatch[d] \in DispatchState /\ dispatch[d].cost \in Nat /\ dispatch[d].cost <= Dearest /\ mishaps \in Nat
      /\ Dearest \in Nat /\ 0 <= Dearest /\ day \in Days /\ dispatch[d].pre \in Nat
  <2>1. dispatch[d] \in DispatchState /\ mishaps \in Nat /\ day \in Days /\ dispatch[d].cost <= Dearest
    BY DEF CostTypes, SpendOK
  <2> QED BY <2>1, DearestIsMost DEF DispatchState
<1>1. ASSUME RefuseByPolicy(d) \/ RunRaises(d) \/ FinalizeRaises(d) PROVE \E new : Becomes(d, new) /\ (Begins(d, new) \/ Runs(d, new))
  <2>1. PICK new : Becomes(d, new) /\ new.step = "refused" /\ Stays(d, new) /\ new.cost \in {0, dispatch[d].cost}
    <3>1. Goes(d, "refused") /\ "refused" \in CostSteps
      BY <1>1 DEF RefuseByPolicy, RunRaises, FinalizeRaises, CostSteps, Ended
    <3> QED BY <3>1, GoesTo DEF Stays
  <2>2. CASE RefuseByPolicy(d)
    BY <1>0, <2>1, <2>2 DEF RefuseByPolicy, Begins
  <2>3. CASE RunRaises(d) \/ FinalizeRaises(d)
    BY <1>0, <2>1, <2>3 DEF RunRaises, FinalizeRaises, Runs, Mishap
  <2> QED BY <1>1, <2>2, <2>3
<1>2. ASSUME NEW readable \in BOOLEAN, ReadCap(d, readable) PROVE \E new : Becomes(d, new) /\ Begins(d, new)
  <2> DEFINE pre == IF readable THEN DayTotal(day) ELSE 0
             new == [dispatch[d] EXCEPT !.step = IF Capped(pre) THEN "alert" ELSE "run", !.today = day, !.pre = pre]
  <2>1. pre \in Nat
    BY TotalsAreBooked DEF CostTypes
  <2>2. dispatch' = [dispatch EXCEPT ![d] = new]
    BY <1>2 DEF ReadCap
  <2>3. /\ new.step = (IF Capped(pre) THEN "alert" ELSE "run") /\ new.today = day /\ new.pre = pre
        /\ new.cost = dispatch[d].cost
    BY <1>0 DEF DispatchState
  <2>4. new \in DispatchState
    <3> HIDE DEF pre
    <3> QED BY <1>0, <2>1 DEF DispatchState, CostSteps
  <2>5. /\ MayStart(d) /\ UNCHANGED <<day, costRows, settlements, sentinels, alerts, minted, lapses, engine>>
        /\ mishaps' \in {mishaps, mishaps + 1}
        /\ IF readable THEN UNCHANGED misread ELSE misread' = misread + 1
    BY <1>2 DEF ReadCap, Mishap
  <2> HIDE DEF new
  <2> QED BY <1>0, <2>2, <2>3, <2>4, <2>5 DEF Becomes, Begins
<1>3. ASSUME NEW cost \in Price, NEW passed \in BOOLEAN, NEW grade \in BOOLEAN, RunEnds(d, cost, passed, grade)
      PROVE  \E new : Becomes(d, new) /\ Runs(d, new)
  <2> DEFINE new == [dispatch[d] EXCEPT !.step = IF passed THEN "finalize" ELSE "record", !.cost = cost, !.grade = grade]
  <2>1. cost \in Nat /\ cost <= Dearest
    BY DearestIsMost, CostAssumption
  <2>2. dispatch' = [dispatch EXCEPT ![d] = new]
    BY <1>3 DEF RunEnds
  <2>3. new \in DispatchState
    BY <1>0, <2>1 DEF DispatchState, CostSteps
  <2>4. /\ new.step = (IF passed THEN "finalize" ELSE "record") /\ new.cost = cost
        /\ new.today = dispatch[d].today /\ new.pre = dispatch[d].pre
    BY <1>0 DEF DispatchState
  <2> HIDE DEF new
  <2> QED BY <1>0, <1>3, <2>1, <2>2, <2>3, <2>4 DEF RunEnds, Becomes, Runs, Stays
<1>4. ASSUME NEW opened \in BOOLEAN, Finalize(d, opened) PROVE \E new : Becomes(d, new) /\ Runs(d, new)
  <2> DEFINE new == [dispatch[d] EXCEPT !.step = "record", !.pr = opened]
  <2>1. dispatch' = [dispatch EXCEPT ![d] = new]
    BY <1>0, <1>4 DEF Finalize, CostTypes, DispatchState
  <2>2. new \in DispatchState
    BY <1>0 DEF DispatchState, CostSteps
  <2>3. /\ new.step = "record" /\ new.cost = dispatch[d].cost
        /\ new.today = dispatch[d].today /\ new.pre = dispatch[d].pre
    BY <1>0 DEF DispatchState
  <2> HIDE DEF new
  <2> QED BY <1>0, <1>4, <2>1, <2>2, <2>3 DEF Finalize, Becomes, Runs, Stays
<1>5. ASSUME NEW written \in BOOLEAN, Record(d, written) PROVE \E new : Becomes(d, new) /\ RecordsCost(d, new)
  <2>1. PICK new : Becomes(d, new) /\ new.step = "alert" /\ Stays(d, new) /\ new.cost \in {0, dispatch[d].cost}
    <3>1. Goes(d, "alert") /\ "alert" \in CostSteps
      BY <1>5 DEF Record, CostSteps
    <3> QED BY <3>1, GoesTo DEF Stays
  <2> QED BY <1>0, <1>5, <2>1 DEF Record, RecordRun, RecordsCost, Mishap
<1>6. ASSUME NEW sent \in BOOLEAN, CheckCaps(d, sent) PROVE \E new : Becomes(d, new) /\ Announces(d, new)
  <2>0. AfterCaps(d) \in {"settle", "finished", "refused"} /\ {"settle", "finished", "refused", "mark"} \subseteq CostSteps
    BY DEF AfterCaps, CostSteps, Ended
  <2>1. CASE Capped(DayCost(d)) /\ dispatch[d].today \notin sentinels
    <3>1. Goes(d, "mark")
      BY <1>6, <2>1 DEF CheckCaps
    <3>2. PICK new : Becomes(d, new) /\ new.step = "mark" /\ Stays(d, new) /\ new.cost \in {0, dispatch[d].cost}
      BY <2>0, <3>1, GoesTo DEF Stays
    <3>3. PICK how \in {"sent", "failed"} : how = IF sent THEN "sent" ELSE "failed"
      OBVIOUS
    <3>4. alerts' = [alerts EXCEPT ![dispatch[d].today] = @ \cup {how}]
      BY <1>6, <2>1, <3>3 DEF CheckCaps
    <3> QED BY <1>0, <1>6, <2>1, <3>2, <3>4 DEF CheckCaps, Announces, Mishap
  <2>2. CASE ~(Capped(DayCost(d)) /\ dispatch[d].today \notin sentinels)
    <3>1. Goes(d, AfterCaps(d)) /\ UNCHANGED <<alerts, mishaps>>
      BY <1>6, <2>2 DEF CheckCaps
    <3>2. PICK new : Becomes(d, new) /\ new.step = AfterCaps(d) /\ Stays(d, new) /\ new.cost \in {0, dispatch[d].cost}
      BY <2>0, <3>1, GoesTo DEF Stays
    <3>3. Capped(dispatch[d].pre) => Capped(DayCost(d))
      BY <1>0, CostAssumption DEF Capped, DayCost
    <3> QED BY <1>0, <1>6, <2>0, <2>2, <3>1, <3>2, <3>3 DEF CheckCaps, Announces
  <2> QED BY <2>1, <2>2
<1>7. ASSUME NEW written \in BOOLEAN, MarkAlerted(d, written) PROVE \E new : Becomes(d, new) /\ Announces(d, new)
  <2>0. AfterCaps(d) \in {"settle", "finished", "refused"} /\ {"settle", "finished", "refused", "mark"} \subseteq CostSteps
    BY DEF AfterCaps, CostSteps, Ended
  <2>1. PICK new : Becomes(d, new) /\ new.step = AfterCaps(d) /\ Stays(d, new) /\ new.cost \in {0, dispatch[d].cost}
    BY <1>7, <2>0, GoesTo DEF Stays, MarkAlerted
  <2> QED BY <1>0, <1>7, <2>0, <2>1 DEF MarkAlerted, Announces, Mishap
<1>8. ASSUME NEW readable \in BOOLEAN, CheckSettled(d, readable) PROVE \E new : Becomes(d, new) /\ Settles(d, new)
  <2> DEFINE to == IF readable /\ CardOf[d] \in settlements THEN "finished" ELSE "mint"
  <2>1. PICK new : Becomes(d, new) /\ new.step = to /\ Stays(d, new) /\ new.cost \in {0, dispatch[d].cost}
    <3>1. Goes(d, to) /\ to \in CostSteps
      BY <1>8 DEF CheckSettled, AlreadySettled, CostSteps, Ended
    <3> HIDE DEF to
    <3> QED BY <3>1, GoesTo DEF Stays
  <2> QED BY <1>0, <1>8, <2>1 DEF CheckSettled, Settles, Mishap
<1>9. ASSUME NEW taken \in BOOLEAN, Settle(d, taken) PROVE \E new : Becomes(d, new) /\ Settles(d, new)
  <2>1. PICK new : Becomes(d, new) /\ new.step = "journal" /\ Stays(d, new) /\ new.cost \in {0, dispatch[d].cost}
    <3>1. Goes(d, "journal") /\ "journal" \in CostSteps
      BY <1>9 DEF Settle, CostSteps
    <3> QED BY <3>1, GoesTo DEF Stays
  <2> QED BY <1>0, <1>9, <2>1 DEF Settle, Settles, Mishap
<1>10. ASSUME NEW written \in BOOLEAN, RecordSettlement(d, written) PROVE \E new : Becomes(d, new) /\ Settles(d, new)
  <2>1. PICK new : Becomes(d, new) /\ new.step = "finished" /\ Stays(d, new) /\ new.cost \in {0, dispatch[d].cost}
    <3>1. Goes(d, "finished") /\ "finished" \in CostSteps
      BY <1>10 DEF RecordSettlement, CostSteps, Ended
    <3> QED BY <3>1, GoesTo DEF Stays
  <2> QED BY <1>0, <1>10, <2>1 DEF RecordSettlement, Settles, Mishap
<1>11. ASSUME Die(d) PROVE \E new : Becomes(d, new) /\ Settles(d, new)
  <2>1. PICK new : Becomes(d, new) /\ new.step = "dead" /\ Stays(d, new) /\ new.cost \in {0, dispatch[d].cost}
    <3>1. Goes(d, "dead") /\ "dead" \in CostSteps
      BY <1>11 DEF Die, CostSteps, Ended
    <3> QED BY <3>1, GoesTo DEF Stays
  <2> QED BY <1>0, <1>11, <2>1 DEF Die, Settles, Mishap
<1>12. ASSUME NEW cost \in Price, NEW v \in {<<FALSE, FALSE>>, <<TRUE, FALSE>>, <<TRUE, TRUE>>}, RunEnds(d, cost, v[1], v[2])
       PROVE  \E new : Becomes(d, new) /\ Runs(d, new)
  <2>1. v[1] \in BOOLEAN /\ v[2] \in BOOLEAN
    <3>1. CASE v = <<FALSE, FALSE>>
      BY <3>1, Zenon
    <3>2. CASE v = <<TRUE, FALSE>>
      BY <3>2, Zenon
    <3>3. CASE v = <<TRUE, TRUE>>
      BY <3>3, Zenon
    <3> QED BY <3>1, <3>2, <3>3, Zenon
  <2> QED BY <1>3, <1>12, <2>1
<1> QED
  BY <1>1, <1>2, <1>4, <1>5, <1>6, <1>7, <1>8, <1>9, <1>10, <1>11, <1>12 DEF DispatchNext

-----------------------------------------------------------------------------
LEMMA BridgeRow ==
  ASSUME CostTypes, NEW d \in Dispatch
  PROVE  LET r == LedgerRow(CardOf[d], dispatch[d].cost, "airun", "bridge")
         IN  r \in CostRow /\ r.day = day /\ r.cost = dispatch[d].cost /\ r.by = "bridge"
<1>1. CardOf[d] \in Cards /\ dispatch[d].cost \in Nat /\ day \in Days
  BY DEF Cards, CostTypes, DispatchState
<1> QED BY <1>1 DEF LedgerRow, CostRow, Written, Writers

LEMMA SuiteRow ==
  ASSUME CostTypes, NEW run \in {"name", "airun"}
  PROVE  LET r == LedgerRow(FixtureCard, 0, run, "suite")
         IN  r \in CostRow /\ r.day = day /\ r.cost = 0 /\ r.by = "suite"
<1>1. day \in Days
  BY DEF CostTypes
<1> QED BY <1>1 DEF LedgerRow, CostRow, Written, Writers

LEMMA EngineRow ==
  ASSUME CostTypes, NEW item \in Cards, NEW cost \in Price
  PROVE  LET r == LedgerRow(item, cost, "stamp", "engine")
         IN  /\ r \in CostRow /\ r.day = day /\ r.cost = cost /\ r.by = "engine"
             /\ cost \in Nat /\ cost <= Dearest
<1>1. day \in Days /\ cost \in Nat /\ cost <= Dearest
  BY CostAssumption, DearestIsMost DEF CostTypes
<1> QED BY <1>1 DEF LedgerRow, CostRow, Written, Writers

LEMMA CostTypesKept ==
  ASSUME CostTypes, SpendOK, [CostNext]_costVars
  PROVE  CostTypes'
<1>1. ASSUME NEW d \in Dispatch, DispatchNext(d) PROVE CostTypes'
  <2>1. PICK new : /\ Becomes(d, new)
                   /\ \/ Begins(d, new) \/ Runs(d, new) \/ RecordsCost(d, new)
                      \/ Announces(d, new) \/ Settles(d, new)
    BY <1>1, DispatchCases
  <2>2. dispatch' \in [Dispatch -> DispatchState]
    BY <2>1, BecomesFrame
  <2>3. CardOf[d] \in Cards /\ dispatch[d].today \in Days /\ dispatch[d].cost \in Nat /\ day \in Days
    BY DEF Cards, CostTypes, DispatchState
  <2>4. UNCHANGED <<day, engine>> /\ mishaps' \in {mishaps, mishaps + 1} /\ misread' \in {misread, misread + 1}
    BY <2>1 DEF Begins, Runs, RecordsCost, Announces, Settles
  <2>5. costRows' \in Seq(CostRow)
    <3>1. CASE UNCHANGED costRows
      BY <3>1 DEF CostTypes
    <3>2. CASE costRows' = Append(costRows, LedgerRow(CardOf[d], dispatch[d].cost, "airun", "bridge"))
      <4>1. LedgerRow(CardOf[d], dispatch[d].cost, "airun", "bridge") \in CostRow
        BY <2>3 DEF CostRow, LedgerRow, Written, Writers
      <4> QED BY <3>2, <4>1 DEF CostTypes
    <3> QED BY <2>1, <3>1, <3>2 DEF Begins, Runs, RecordsCost, Announces, Settles
  <2>6. settlements' \subseteq Cards /\ minted' \in [Cards -> Nat] /\ lapses' \in [Cards -> Nat]
    <3>1. /\ settlements' \in {settlements, settlements \cup {CardOf[d]}}
          /\ minted' \in {minted, [minted EXCEPT ![CardOf[d]] = @ + 1]}
          /\ lapses' \in {lapses, [lapses EXCEPT ![CardOf[d]] = @ + 1]}
      BY <2>1 DEF Begins, Runs, RecordsCost, Announces, Settles
    <3>2. settlements \subseteq Cards /\ minted \in [Cards -> Nat] /\ lapses \in [Cards -> Nat]
      BY DEF CostTypes
    <3>3. \A f \in [Cards -> Nat] : [f EXCEPT ![CardOf[d]] = @ + 1] \in [Cards -> Nat]
      BY <2>3
    <3> QED BY <2>3, <3>1, <3>2, <3>3
  <2>7. sentinels' \subseteq Days /\ alerts' \in [Days -> SUBSET {"sent", "failed"}]
    BY <2>1, <2>3 DEF Begins, Runs, RecordsCost, Announces, Settles, CostTypes
  <2> QED BY <2>2, <2>4, <2>5, <2>6, <2>7 DEF CostTypes
<1>2. CASE NextDay
  BY <1>2, CostAssumption DEF NextDay, CostTypes, Days
<1>3. ASSUME NEW run \in {"name", "airun"}, TestRow(run) PROVE CostTypes'
  <2>1. LedgerRow(FixtureCard, 0, run, "suite") \in CostRow
    BY SuiteRow
  <2>2. costRows' \in Seq(CostRow)
    BY <1>3, <2>1 DEF TestRow, CostTypes
  <2> QED BY <1>3, <2>2 DEF TestRow, CostTypes
<1>4. CASE UNCHANGED costVars
  BY <1>4 DEF costVars, CostTypes
<1>0. engine \in Engine /\ engine.runs \in Nat /\ engine.building \in Nat /\ engine.spent \in Nat /\ engine.past \in Nat
  BY DEF CostTypes, Engine
<1>5. CASE EngineRunBegins \/ EngineTakes
  <2>1. engine' \in Engine
    <3>1. CASE EngineRunBegins
      BY <1>0, <3>1 DEF EngineRunBegins, Engine
    <3>2. CASE EngineTakes
      BY <1>0, <3>2 DEF EngineTakes, Engine
    <3> QED BY <1>5, <3>1, <3>2
  <2> QED BY <1>5, <2>1 DEF EngineRunBegins, EngineTakes, CostTypes
<1>6. ASSUME NEW item \in Cards, NEW cost \in Price, NEW written \in BOOLEAN, EngineBuilt(item, cost, written)
      PROVE  CostTypes'
  <2>1. LedgerRow(item, cost, "stamp", "engine") \in CostRow /\ cost \in Nat
    BY EngineRow
  <2>2. costRows' \in Seq(CostRow)
    BY <1>6, <2>1 DEF EngineBuilt, RecordRun, CostTypes
  <2>3. engine' \in Engine
    <3>1. engine.building - 1 \in Nat /\ engine.spent + cost \in Nat
      BY <1>0, <1>6, <2>1 DEF EngineBuilt
    <3> QED BY <1>0, <1>6, <3>1 DEF EngineBuilt, Engine
  <2>4. mishaps' \in Nat
    BY <1>6 DEF EngineBuilt, Mishap, CostTypes
  <2> QED BY <1>6, <2>2, <2>3, <2>4 DEF EngineBuilt, CostTypes
<1> QED BY <1>1, <1>2, <1>3, <1>4, <1>5, <1>6 DEF CostNext, EngineNext

\* Neither a test's row, nor the orchestrator, nor midnight concerns a dispatch.
LEMMA Elsewhere ==
  ASSUME CostTypes,
         \/ NextDay \/ EngineNext \/ UNCHANGED costVars
         \/ \E run \in {"name", "airun"} : TestRow(run)
  PROVE  UNCHANGED <<settlements, sentinels, alerts, dispatch, minted, lapses, misread>>
BY DEF NextDay, EngineNext, EngineRunBegins, EngineTakes, EngineBuilt, TestRow, costVars

LEMMA AlertsKept ==
  ASSUME CostInv, CostTypes', [CostNext]_costVars
  PROVE  AlertsOK'
<1> USE DEF CostInv
<1>1. ASSUME NEW d \in Dispatch, DispatchNext(d) PROVE AlertsOK'
  <2>1. PICK new : /\ Becomes(d, new)
                   /\ \/ Begins(d, new) \/ Runs(d, new) \/ RecordsCost(d, new)
                      \/ Announces(d, new) \/ Settles(d, new)
    BY <1>1, DispatchCases
  <2>2. /\ dispatch'[d] = new /\ \A e \in Dispatch : e # d => dispatch'[e] = dispatch[e]
    BY <2>1, BecomesFrame
  <2>3. \A e \in Days : alerts[e] \subseteq alerts'[e]
    <3>1. alerts' = alerts \/ \E how \in {"sent", "failed"} : alerts' = [alerts EXCEPT ![dispatch[d].today] = @ \cup {how}]
      BY <2>1 DEF Begins, Runs, RecordsCost, Announces, Settles
    <3> QED BY <3>1 DEF CostTypes
  <2>4. \A e \in Dispatch : dispatch[e].today \in Days
    BY DEF CostTypes, DispatchState
  <2>5. new.today = dispatch[d].today => (alerts[dispatch[d].today] # {} => alerts'[new.today] # {})
    BY <2>3, <2>4
  <2>6. \A e \in sentinels' : alerts'[e] # {}
    BY <2>1, <2>3, <2>4 DEF Begins, Runs, RecordsCost, Announces, Settles, AlertsOK, CostTypes
  <2>7. /\ new.step \in {"idle", "run", "finalize", "record"} => ~Capped(new.pre)
        /\ new.step = "mark" => alerts'[new.today] # {}
        /\ new.step = "refused" /\ Capped(new.pre) => alerts'[new.today] # {}
    <3>1. CASE Begins(d, new)
      <4>1. ~Capped(dispatch[d].pre)
        BY <3>1 DEF Begins, MayStart, AlertsOK
      <4> QED BY <3>1, <4>1 DEF Begins, Stays
    <3>2. CASE Runs(d, new)
      BY <3>2 DEF Runs, AlertsOK, Stays
    <3>3. CASE RecordsCost(d, new)
      BY <3>3 DEF RecordsCost
    <3>4. CASE Announces(d, new)
      <4>0. Stays(d, new) /\ new.step \in {"mark", "settle", "finished", "refused"}
        BY <3>4 DEF Announces
      <4>1. CASE dispatch[d].step = "alert" /\ new.step = "mark" /\ (\E how \in {"sent", "failed"} : alerts' = [alerts EXCEPT ![dispatch[d].today] = @ \cup {how}])
        <5>1. PICK how \in {"sent", "failed"} : alerts' = [alerts EXCEPT ![dispatch[d].today] = @ \cup {how}]
          BY <4>1
        <5>2. how \in alerts'[dispatch[d].today]
          BY <2>4, <5>1 DEF CostTypes
        <5> QED BY <4>0, <4>1, <5>2 DEF Stays
      <4>2. CASE dispatch[d].step = "alert" /\ new.step # "mark" /\ (Capped(dispatch[d].pre) => dispatch[d].today \in sentinels)
        <5>1. Capped(dispatch[d].pre) => alerts[dispatch[d].today] # {}
          BY <4>2 DEF AlertsOK
        <5> QED BY <2>5, <4>0, <4>2, <5>1 DEF Stays
      <4>3. CASE dispatch[d].step = "mark" /\ new.step # "mark"
        <5>1. alerts[dispatch[d].today] # {}
          BY <4>3 DEF AlertsOK
        <5> QED BY <2>5, <4>0, <4>3, <5>1 DEF Stays
      <4> QED BY <3>4, <4>1, <4>2, <4>3 DEF Announces
    <3>5. CASE Settles(d, new)
      BY <3>5 DEF Settles
    <3> QED BY <2>1, <3>1, <3>2, <3>3, <3>4, <3>5
  <2>8. ASSUME NEW e \in Dispatch, e # d
        PROVE  /\ dispatch'[e].step \in {"idle", "run", "finalize", "record"} => ~Capped(dispatch'[e].pre)
               /\ dispatch'[e].step = "mark" => alerts'[dispatch'[e].today] # {}
               /\ dispatch'[e].step = "refused" /\ Capped(dispatch'[e].pre) => alerts'[dispatch'[e].today] # {}
    BY <2>2, <2>3, <2>4, <2>8 DEF AlertsOK
  <2>9. \A x : Capped(x)' <=> Capped(x)
    BY DEF Capped
  <2>10. \A e \in Dispatch :
             /\ dispatch'[e].step \in {"idle", "run", "finalize", "record"} => ~Capped(dispatch'[e].pre)
             /\ dispatch'[e].step = "mark" => alerts'[dispatch'[e].today] # {}
             /\ dispatch'[e].step = "refused" /\ Capped(dispatch'[e].pre) => alerts'[dispatch'[e].today] # {}
    BY <2>2, <2>7, <2>8, Zenon
  <2> QED BY <2>6, <2>10 DEF AlertsOK
<1>2. ASSUME UNCHANGED <<sentinels, alerts, dispatch>> PROVE AlertsOK'
  BY <1>2 DEF AlertsOK
<1> QED BY <1>1, <1>2, Elsewhere DEF CostNext

LEMMA SettleKept ==
  ASSUME CostInv, CostTypes', [CostNext]_costVars
  PROVE  SettleOK'
<1> USE DEF CostInv
<1>1. ASSUME NEW d \in Dispatch, DispatchNext(d) PROVE SettleOK'
  <2>1. PICK new : /\ Becomes(d, new)
                   /\ \/ Begins(d, new) \/ Runs(d, new) \/ RecordsCost(d, new)
                      \/ Announces(d, new) \/ Settles(d, new)
    BY <1>1, DispatchCases
  <2>2. /\ dispatch'[d] = new /\ \A e \in Dispatch : e # d => dispatch'[e] = dispatch[e]
    BY <2>1, BecomesFrame
  <2>3. \/ MayStart(d)
        \/ InFlight(d)
    BY <2>1 DEF Begins, Runs, RecordsCost, Announces, Settles, InFlight, Ended
  <2>4. \A e, f \in Dispatch : InFlight(e)' /\ InFlight(f)' /\ CardOf[e] = CardOf[f] => e = f
    <3>1. \A e \in Dispatch : e # d => (InFlight(e)' <=> InFlight(e))
      BY <2>2 DEF InFlight
    <3>2. \A e \in Dispatch : e # d /\ InFlight(e) => CardOf[e] # CardOf[d]
      BY <2>3 DEF MayStart, SettleOK
    <3> QED BY <3>1, <3>2 DEF SettleOK
  <2>5. CardOf[d] \in Cards
    BY DEF Cards
  <2>6. \A e \in Dispatch : e # d /\ CardOf[e] = CardOf[d] => dispatch[e].step \notin {"mint", "journal"}
    <3>1. \A e \in Dispatch : e # d /\ CardOf[e] = CardOf[d] => ~InFlight(e)
      BY <2>3 DEF MayStart, SettleOK
    <3> QED BY <3>1 DEF InFlight, Ended
  <2>8. \A c \in Cards : minted'[c] <= lapses'[c] + 1 /\ (~Journalled(c)' => minted'[c] <= lapses'[c])
    <3>1. SUFFICES ASSUME NEW c \in Cards
                   PROVE  minted'[c] <= lapses'[c] + 1 /\ (~Journalled(c)' => minted'[c] <= lapses'[c])
      OBVIOUS
    <3>2. /\ minted[c] \in Nat /\ lapses[c] \in Nat
          /\ minted[c] <= lapses[c] + 1 /\ (~Journalled(c) => minted[c] <= lapses[c])
      BY DEF SettleOK, CostTypes
    <3>3. CASE c # CardOf[d]
      <4>1. minted'[c] = minted[c] /\ lapses'[c] = lapses[c] /\ (c \in settlements' <=> c \in settlements)
        BY <2>1, <2>5, <3>3 DEF Begins, Runs, RecordsCost, Announces, Settles, CostTypes
      <4>2. Journalled(c)' <=> Journalled(c)
        BY <2>2, <3>3, <4>1 DEF Journalled
      <4> QED BY <3>2, <4>1, <4>2
    <3>4. CASE c = CardOf[d]
      <4>1. Journalled(c)' <=> c \in settlements' \/ new.step = "journal"
        BY <2>2, <2>6, <3>4 DEF Journalled
      <4>2. Journalled(c) <=> c \in settlements \/ dispatch[d].step = "journal"
        BY <2>6, <3>4 DEF Journalled
      <4>3. CASE UNCHANGED <<settlements, minted, lapses>> /\ dispatch[d].step # "journal"
        BY <3>2, <4>1, <4>2, <4>3
      <4>4. CASE dispatch[d].step = "mint" /\ new.step = "journal" /\ UNCHANGED <<settlements, lapses>>
                 /\ (minted' = minted \/ minted' = [minted EXCEPT ![CardOf[d]] = @ + 1])
        <5>1. minted[c] <= lapses[c] /\ Journalled(c)'
          BY <3>4, <4>1, <4>4 DEF SettleOK
        <5>2. minted'[c] <= minted[c] + 1
          BY <3>2, <3>4, <4>4 DEF CostTypes
        <5>3. minted'[c] \in Nat
          BY DEF CostTypes
        <5> QED BY <3>2, <4>4, <5>1, <5>2, <5>3
      <4>5. CASE dispatch[d].step = "journal" /\ UNCHANGED <<minted, lapses>> /\ settlements' = settlements \cup {CardOf[d]}
        <5>1. Journalled(c)'
          BY <3>4, <4>1, <4>5
        <5> QED BY <3>2, <4>5, <5>1
      <4>6. CASE UNCHANGED <<minted, settlements>> /\ lapses' = [lapses EXCEPT ![CardOf[d]] = @ + 1]
        <5>1. lapses'[c] = lapses[c] + 1
          BY <3>4, <4>6 DEF CostTypes
        <5> QED BY <3>2, <4>6, <5>1
      <4>7. CASE ~Settles(d, new)
        BY <2>1, <4>3, <4>7 DEF Begins, Runs, RecordsCost, Announces, MayStart
      <4>8. CASE Settles(d, new)
        BY <4>3, <4>4, <4>5, <4>6, <4>8 DEF Settles
      <4> QED BY <4>7, <4>8
    <3> QED BY <3>3, <3>4
  <2>7. \A e \in Dispatch : dispatch'[e].step = "mint" => minted'[CardOf[e]] <= lapses'[CardOf[e]]
    <3>1. SUFFICES ASSUME NEW e \in Dispatch, dispatch'[e].step = "mint"
                   PROVE  minted'[CardOf[e]] <= lapses'[CardOf[e]]
      OBVIOUS
    <3>2. \A c \in Cards : minted[c] \in Nat /\ lapses[c] \in Nat
      BY DEF CostTypes
    <3>3. CASE e # d
      <4>1. CardOf[e] # CardOf[d] /\ CardOf[e] \in Cards /\ dispatch[e].step = "mint"
        BY <2>2, <2>6, <3>1, <3>3 DEF Cards
      <4>2. minted'[CardOf[e]] = minted[CardOf[e]] /\ lapses'[CardOf[e]] = lapses[CardOf[e]]
        BY <2>1, <2>5, <4>1 DEF Begins, Runs, RecordsCost, Announces, Settles, CostTypes
      <4> QED BY <4>1, <4>2 DEF SettleOK
    <3>4. CASE e = d
      <4>1. new.step = "mint"
        BY <2>2, <3>1, <3>4
      <4>2. dispatch[d].step = "settle" /\ UNCHANGED <<settlements, minted>>
            /\ ((UNCHANGED lapses /\ CardOf[d] \notin settlements) \/ lapses' = [lapses EXCEPT ![CardOf[d]] = @ + 1])
        BY <2>1, <4>1 DEF Begins, Runs, RecordsCost, Announces, Settles
      <4>3. CASE UNCHANGED lapses /\ CardOf[d] \notin settlements
        <5>1. ~Journalled(CardOf[d])
          BY <2>6, <4>2, <4>3 DEF Journalled
        <5> QED BY <2>5, <3>4, <4>2, <4>3, <5>1 DEF SettleOK
      <4>4. CASE lapses' = [lapses EXCEPT ![CardOf[d]] = @ + 1]
        <5>1. lapses'[CardOf[d]] = lapses[CardOf[d]] + 1 /\ minted[CardOf[d]] <= lapses[CardOf[d]] + 1
          BY <2>5, <4>4 DEF CostTypes, SettleOK
        <5> QED BY <3>4, <4>2, <5>1
      <4> QED BY <4>2, <4>3, <4>4
    <3> QED BY <3>3, <3>4
  <2> QED BY <2>4, <2>7, <2>8 DEF SettleOK
<1>2. ASSUME UNCHANGED <<settlements, dispatch, minted, lapses>> PROVE SettleOK'
  BY <1>2 DEF SettleOK, InFlight, Journalled
<1> QED BY <1>1, <1>2, Elsewhere DEF CostNext

\* A row is one of its writer's, and a day's total is what the writers have in it.
LEMMA RowBooked ==
  ASSUME CostInv, NEW r \in CostRow, costRows' = Append(costRows, r), r.day = day, UNCHANGED day
  PROVE  \A e \in Days : (e > day' => DayTotal(e)' = 0) /\ DayTotal(e)' = Spent(e)' + Built(e)'
<1> USE DEF CostInv
<1>0. day \in Nat /\ \A e \in Days : e \in Nat
  BY CostAssumption DEF CostTypes, Days
<1>1. SUFFICES ASSUME NEW e \in Days
               PROVE  (e > day' => DayTotal(e)' = 0) /\ DayTotal(e)' = Spent(e)' + Built(e)'
  OBVIOUS
<1>2. /\ DayTotal(e) \in Nat /\ Spent(e) \in Nat /\ Built(e) \in Nat
      /\ DayTotal(e)' = DayTotal(e) + (IF r.day = e THEN r.cost ELSE 0)
      /\ Spent(e)' = Spent(e) + (IF r.day = e /\ r.by = "bridge" THEN r.cost ELSE 0)
      /\ Built(e)' = Built(e) + (IF r.day = e /\ r.by = "engine" THEN r.cost ELSE 0)
  BY RowRecorded
<1>3. r.cost \in Nat /\ r.by \in Writers /\ (r.by = "suite" => r.cost = 0)
  BY DEF CostRow, Written
<1>4. (e > day => DayTotal(e) = 0) /\ DayTotal(e) = Spent(e) + Built(e)
  BY DEF RowsOK
<1>5. e > day' => DayTotal(e)' = 0
  BY <1>0, <1>2, <1>4
<1>6. DayTotal(e)' = Spent(e)' + Built(e)'
  <2>1. CASE r.by = "bridge"
    BY <1>2, <1>3, <1>4, <2>1
  <2>2. CASE r.by = "engine"
    BY <1>2, <1>3, <1>4, <2>2
  <2>3. CASE r.by = "suite"
    BY <1>2, <1>3, <1>4, <2>3
  <2> QED BY <1>3, <2>1, <2>2, <2>3 DEF Writers
<1> QED BY <1>5, <1>6

LEMMA RowsKept ==
  ASSUME CostInv, CostTypes', [CostNext]_costVars
  PROVE  RowsOK'
<1> USE DEF CostInv
<1>0. /\ day \in Nat /\ costRows \in Seq(CostRow) /\ \A e \in Days : e \in Nat
      /\ \A d \in Dispatch : dispatch[d].today \in Nat
  BY CostAssumption DEF CostTypes, Days, DispatchState
<1>1. ASSUME UNCHANGED costRows, day' >= day
      PROVE  \A e \in Days : (e > day' => DayTotal(e)' = 0) /\ DayTotal(e)' = Spent(e)' + Built(e)'
  <2>1. day' \in Nat
    BY CostAssumption DEF CostTypes, Days
  <2>2. SUFFICES ASSUME NEW e \in Days
                 PROVE  (e > day' => DayTotal(e)' = 0) /\ DayTotal(e)' = Spent(e)' + Built(e)'
    OBVIOUS
  <2>3. (e > day => DayTotal(e) = 0) /\ DayTotal(e) = Spent(e) + Built(e)
    BY DEF RowsOK
  <2>4. DayTotal(e)' = DayTotal(e) /\ Spent(e)' = Spent(e) /\ Built(e)' = Built(e)
    BY <1>1, DayTotalStands
  <2> QED BY <1>0, <1>1, <2>1, <2>3, <2>4
<1>2. ASSUME UNCHANGED dispatch, day' >= day
      PROVE  \A d \in Dispatch : dispatch'[d].today <= day'
  <2>1. day' \in Nat
    BY CostAssumption DEF CostTypes, Days
  <2> QED BY <1>0, <1>2, <2>1 DEF RowsOK
<1>3. ASSUME NEW d \in Dispatch, DispatchNext(d) PROVE RowsOK'
  <2>1. PICK new : /\ Becomes(d, new)
                   /\ \/ Begins(d, new) \/ Runs(d, new) \/ RecordsCost(d, new)
                      \/ Announces(d, new) \/ Settles(d, new)
    BY <1>3, DispatchCases
  <2>2. /\ dispatch'[d] = new /\ \A e \in Dispatch : e # d => dispatch'[e] = dispatch[e]
    BY <2>1, BecomesFrame
  <2>3. UNCHANGED day /\ (new.today = dispatch[d].today \/ new.today = day)
    BY <2>1 DEF Begins, Runs, RecordsCost, Announces, Settles, Stays
  <2>4. \A e \in Dispatch : dispatch'[e].today <= day'
    BY <1>0, <2>2, <2>3 DEF RowsOK
  <2>5. CASE UNCHANGED costRows
    BY <1>0, <1>1, <2>3, <2>4, <2>5 DEF RowsOK
  <2>6. CASE costRows' = Append(costRows, LedgerRow(CardOf[d], dispatch[d].cost, "airun", "bridge"))
    <3>1. PICK q : q = LedgerRow(CardOf[d], dispatch[d].cost, "airun", "bridge")
      OBVIOUS
    <3>2. q \in CostRow /\ q.day = day
      BY <3>1, BridgeRow
    <3>3. \A e \in Days : (e > day' => DayTotal(e)' = 0) /\ DayTotal(e)' = Spent(e)' + Built(e)'
      BY <2>3, <2>6, <3>1, <3>2, RowBooked
    <3> QED BY <2>4, <3>3 DEF RowsOK
  <2> QED BY <2>1, <2>5, <2>6 DEF Begins, Runs, RecordsCost, Announces, Settles
<1>4. CASE NextDay
  <2>1. UNCHANGED <<costRows, dispatch>> /\ day' >= day
    BY <1>0, <1>4 DEF NextDay
  <2> QED BY <1>1, <1>2, <2>1 DEF RowsOK
<1>5. ASSUME NEW run \in {"name", "airun"}, TestRow(run) PROVE RowsOK'
  <2>1. PICK q : q = LedgerRow(FixtureCard, 0, run, "suite")
    OBVIOUS
  <2>2. q \in CostRow /\ q.day = day
    BY <2>1, SuiteRow
  <2>3. costRows' = Append(costRows, q) /\ UNCHANGED <<day, dispatch>>
    BY <1>5, <2>1 DEF TestRow
  <2>4. \A e \in Days : (e > day' => DayTotal(e)' = 0) /\ DayTotal(e)' = Spent(e)' + Built(e)'
    BY <2>2, <2>3, RowBooked
  <2> QED BY <1>0, <1>2, <2>3, <2>4 DEF RowsOK
<1>6. CASE UNCHANGED costVars \/ EngineRunBegins \/ EngineTakes
  <2>1. UNCHANGED <<costRows, dispatch>> /\ day' >= day
    BY <1>0, <1>6 DEF costVars, EngineRunBegins, EngineTakes
  <2> QED BY <1>1, <1>2, <2>1 DEF RowsOK
<1>7. ASSUME NEW item \in Cards, NEW cost \in Price, NEW written \in BOOLEAN, EngineBuilt(item, cost, written)
      PROVE  RowsOK'
  <2>1. UNCHANGED <<day, dispatch>>
    BY <1>7 DEF EngineBuilt
  <2>2. CASE UNCHANGED costRows
    BY <1>0, <1>1, <1>2, <2>1, <2>2 DEF RowsOK
  <2>3. CASE costRows' = Append(costRows, LedgerRow(item, cost, "stamp", "engine"))
    <3>1. PICK q : q = LedgerRow(item, cost, "stamp", "engine")
      OBVIOUS
    <3>2. q \in CostRow /\ q.day = day
      BY <3>1, EngineRow
    <3>3. \A e \in Days : (e > day' => DayTotal(e)' = 0) /\ DayTotal(e)' = Spent(e)' + Built(e)'
      BY <2>1, <2>3, <3>1, <3>2, RowBooked
    <3> QED BY <1>0, <1>2, <2>1, <3>3 DEF RowsOK
  <2> QED BY <1>7, <2>2, <2>3 DEF EngineBuilt, RecordRun
<1> QED BY <1>3, <1>4, <1>5, <1>6, <1>7 DEF CostNext, EngineNext

-----------------------------------------------------------------------------
\* Runs that owe their cost are under way, and there are finitely many.
LEMMA CountsAreNumbers ==
  ASSUME CostTypes
  PROVE  /\ IsFiniteSet(Owing) /\ IsFiniteSet(UnderWay)
         /\ Cardinality(Owing) \in Nat /\ Cardinality(UnderWay) \in Nat
         /\ Cardinality(Owing) <= Cardinality(UnderWay)
<1>1. Owing \subseteq UnderWay /\ UnderWay \subseteq Dispatch /\ IsFiniteSet(Dispatch)
  BY CostAssumption DEF Owing, UnderWay, InFlight, Ended
<1>2. IsFiniteSet(UnderWay) /\ IsFiniteSet(Owing)
  BY <1>1, FS_Subset
<1> QED BY <1>1, <1>2, FS_CardinalityType, FS_Subset

\* Who ends or goes on is one of those that were under way; who begins is one more.
LEMMA UnderWayKept ==
  ASSUME CostTypes, CostTypes', SpendOK, NEW d \in Dispatch, NEW new, Becomes(d, new),
         MayStart(d) \/ InFlight(d)
  PROVE  Cardinality(UnderWay') <= Workers
<1>1. /\ dispatch'[d] = new /\ \A e \in Dispatch : e # d => dispatch'[e] = dispatch[e]
  BY BecomesFrame
<1>2. /\ IsFiniteSet(UnderWay) /\ Cardinality(UnderWay) \in Nat /\ Cardinality(UnderWay) <= Workers /\ Workers \in Nat
  BY CountsAreNumbers, CostAssumption DEF SpendOK
<1>3. UnderWay' \subseteq UnderWay \cup {d}
  BY <1>1 DEF UnderWay, InFlight
<1>4. CASE InFlight(d)
  <2>1. UnderWay' \subseteq UnderWay
    BY <1>3, <1>4 DEF UnderWay
  <2>2. Cardinality(UnderWay') <= Cardinality(UnderWay) /\ IsFiniteSet(UnderWay')
    BY <1>2, <2>1, FS_Subset
  <2>3. Cardinality(UnderWay') \in Nat
    BY <2>2, FS_CardinalityType
  <2> QED BY <1>2, <2>2, <2>3
<1>5. CASE MayStart(d)
  <2>1. d \notin UnderWay /\ Cardinality(UnderWay) < Workers
    BY <1>5 DEF MayStart, UnderWay, InFlight
  <2>2. IsFiniteSet(UnderWay \cup {d}) /\ Cardinality(UnderWay \cup {d}) = Cardinality(UnderWay) + 1
    BY <1>2, <2>1, FS_AddElement
  <2>3. Cardinality(UnderWay') <= Cardinality(UnderWay \cup {d}) /\ IsFiniteSet(UnderWay')
    BY <1>3, <2>2, FS_Subset
  <2>4. Cardinality(UnderWay') \in Nat
    BY <2>3, FS_CardinalityType
  <2> QED BY <1>2, <2>1, <2>2, <2>3, <2>4
<1> QED BY <1>4, <1>5

LEMMA MoreOfTheSame ==
  ASSUME NEW a \in Nat, NEW b \in Nat, NEW p \in Nat, a <= b
  PROVE  a * p \in Nat /\ b * p \in Nat /\ a * p <= b * p /\ (a + 1) * p = a * p + p
<1>1. PICK c \in Nat : b = a + c
  <2>1. b - a \in Nat /\ b = a + (b - a)
    OBVIOUS
  <2> QED BY <2>1
<1>2. a * p \in Nat /\ c * p \in Nat /\ b * p = a * p + c * p
  BY <1>1
<1> QED BY <1>2

\* The room below the bound, whatever was spent.
Bound == Cap + (Workers + misread) * Dearest

\* Without a new row, with nobody more who owes and as many looks that failed at least,
\* the bounds hold on.
LEMMA RoomStays ==
  ASSUME CostTypes, CostTypes', SpendOK, UNCHANGED <<day, costRows>>, misread <= misread',
         Cardinality(Owing') <= Cardinality(Owing) \/ Cardinality(Owing') <= Cardinality(Owing) + (misread' - misread)
  PROVE  /\ Spent(day)' + Cardinality(Owing') * Dearest < Bound'
         /\ \A e \in Days : Spent(e)' < Bound'
<1>1. /\ misread \in Nat /\ misread' \in Nat /\ Workers \in Nat /\ Dearest \in Nat /\ Cap \in Nat /\ day \in Days
  BY DearestIsMost, CostAssumption DEF CostTypes
<1>2. Cardinality(Owing) \in Nat /\ Cardinality(Owing') \in Nat
  <2>1. Cardinality(Owing) \in Nat
    BY CountsAreNumbers
  <2>2. (CostTypes => Cardinality(Owing) \in Nat)'
    BY CountsAreNumbers, PTL
  <2> QED BY <2>1, <2>2
<1>3. PICK k \in Nat : misread' = misread + k
  <2>1. \A x, y \in Nat : x <= y => \E k \in Nat : y = x + k
    <3>1. \A x, y \in Nat : x <= y => y - x \in Nat /\ y = x + (y - x)
      OBVIOUS
    <3> QED BY <3>1
  <2> QED BY <1>1, <2>1
<1>4. Cardinality(Owing') <= Cardinality(Owing) + k
  BY <1>1, <1>2, <1>3
<1>5. Cardinality(Owing') * Dearest <= (Cardinality(Owing) + k) * Dearest
  BY <1>1, <1>2, <1>3, <1>4, MoreOfTheSame
<1>6. /\ (Cardinality(Owing) + k) * Dearest = Cardinality(Owing) * Dearest + k * Dearest
      /\ (Workers + misread + k) * Dearest = (Workers + misread) * Dearest + k * Dearest
      /\ k * Dearest \in Nat /\ Cardinality(Owing) * Dearest \in Nat /\ (Workers + misread) * Dearest \in Nat
      /\ Cardinality(Owing') * Dearest \in Nat
  BY <1>1, <1>2, <1>3
<1>7. Bound' = Bound + k * Dearest /\ Bound \in Nat
  <2>1. Workers + misread' = Workers + misread + k
    BY <1>1, <1>3
  <2>2. Dearest' = Dearest
    OBVIOUS
  <2>3. Bound' = Cap + (Workers + misread + k) * Dearest
    BY <2>1, <2>2 DEF Bound
  <2>4. Bound = Cap + (Workers + misread) * Dearest
    BY DEF Bound
  <2> QED BY <1>1, <1>6, <2>3, <2>4
<1>8. \A e \in Days : Spent(e)' = Spent(e) /\ Spent(e) \in Nat
  BY DayTotalStands
<1>9. Spent(day)' = Spent(day) /\ Spent(day) \in Nat
  <2>1. PICK e \in Days : e = day
    BY <1>1
  <2> QED BY <1>8, <2>1
<1>10. Spent(day) + Cardinality(Owing) * Dearest < Bound /\ \A e \in Days : Spent(e) < Bound
  BY DEF SpendOK, Bound
<1>11. Spent(day)' + Cardinality(Owing') * Dearest < Bound'
  BY <1>1, <1>5, <1>6, <1>7, <1>9, <1>10
<1>12. \A e \in Days : Spent(e)' < Bound'
  BY <1>6, <1>7, <1>8, <1>10
<1> QED BY <1>11, <1>12

\* A row of today is made up for by its run's no longer owing, unless another wrote it.
LEMMA RowFitsRoom ==
  ASSUME CostTypes, CostTypes', SpendOK, NEW r \in CostRow, costRows' = Append(costRows, r), r.day = day,
         UNCHANGED <<day, misread>>,
         \/ r.by # "bridge" /\ Cardinality(Owing') = Cardinality(Owing)
         \/ r.cost <= Dearest /\ Cardinality(Owing) = Cardinality(Owing') + 1
  PROVE  /\ Spent(day)' + Cardinality(Owing') * Dearest < Bound'
         /\ \A e \in Days : Spent(e)' < Bound'
<1> DEFINE x == IF r.by = "bridge" THEN r.cost ELSE 0
<1>1. /\ misread \in Nat /\ Workers \in Nat /\ Dearest \in Nat /\ Cap \in Nat /\ day \in Days
      /\ r.cost \in Nat /\ x \in Nat
  BY DearestIsMost, CostAssumption DEF CostTypes, CostRow
<1>2. Cardinality(Owing) \in Nat /\ Cardinality(Owing') \in Nat
  <2>1. Cardinality(Owing) \in Nat
    BY CountsAreNumbers
  <2>2. (CostTypes => Cardinality(Owing) \in Nat)'
    BY CountsAreNumbers, PTL
  <2> QED BY <2>1, <2>2
<1>3. Bound' = Bound
  BY DEF Bound
<1>4. \A e \in Days : Spent(e)' = Spent(e) + (IF r.day = e /\ r.by = "bridge" THEN r.cost ELSE 0) /\ Spent(e) \in Nat
  BY RowRecorded
<1>5. Spent(day)' = Spent(day) + x /\ Spent(day) \in Nat
  <2>1. PICK e \in Days : e = day
    BY <1>1
  <2> QED BY <1>4, <2>1
<1>6. Spent(day) + Cardinality(Owing) * Dearest < Bound /\ \A e \in Days : Spent(e) < Bound
  BY DEF SpendOK, Bound
<1>7. /\ Cardinality(Owing') * Dearest \in Nat
      /\ x + Cardinality(Owing') * Dearest <= Cardinality(Owing) * Dearest
  <2>1. Cardinality(Owing') * Dearest \in Nat /\ (Cardinality(Owing') + 1) * Dearest = Cardinality(Owing') * Dearest + Dearest
    BY <1>1, <1>2, MoreOfTheSame
  <2>2. CASE r.by # "bridge" /\ Cardinality(Owing') = Cardinality(Owing)
    BY <2>1, <2>2
  <2>3. CASE r.cost <= Dearest /\ Cardinality(Owing) = Cardinality(Owing') + 1
    <3>1. Cardinality(Owing) * Dearest = Cardinality(Owing') * Dearest + Dearest
      BY <2>1, <2>3
    <3> QED BY <1>1, <2>1, <2>3, <3>1
  <2> QED BY <2>2, <2>3
<1>8. Bound \in Nat /\ Cardinality(Owing) * Dearest \in Nat
  BY <1>1, <1>2 DEF Bound
<1>9. Spent(day)' + Cardinality(Owing') * Dearest < Bound'
  BY <1>1, <1>3, <1>5, <1>6, <1>7, <1>8
<1>10. \A e \in Days : Spent(e)' < Bound'
  <2>1. SUFFICES ASSUME NEW e \in Days PROVE Spent(e)' < Bound'
    OBVIOUS
  <2>2. CASE e = day
    <3>1. Spent(e)' = Spent(day) + x
      BY <1>4, <2>2
    <3> QED BY <1>1, <1>3, <1>5, <1>6, <1>7, <1>8, <3>1
  <2>3. CASE e # day
    <3>1. Spent(e)' = Spent(e)
      BY <1>4, <2>3
    <3> QED BY <1>3, <1>6, <3>1
  <2> QED BY <2>2, <2>3
<1> QED BY <1>9, <1>10

LEMMA SpendKept ==
  ASSUME CostInv, CostTypes', [CostNext]_costVars
  PROVE  SpendOK'
<1> USE DEF CostInv
<1>0. /\ misread \in Nat /\ Workers \in Nat /\ Dearest \in Nat /\ Cap \in Nat \ {0} /\ day \in Days
      /\ IsFiniteSet(Owing) /\ Cardinality(Owing) \in Nat /\ Cardinality(Owing) <= Workers
  <2>1. /\ IsFiniteSet(Owing) /\ Cardinality(Owing) \in Nat /\ Cardinality(UnderWay) \in Nat
        /\ Cardinality(Owing) <= Cardinality(UnderWay) /\ Cardinality(UnderWay) <= Workers
    BY CountsAreNumbers DEF SpendOK
  <2> QED BY <2>1, DearestIsMost, CostAssumption DEF CostTypes
<1>1. SUFFICES /\ Cardinality(UnderWay') <= Workers /\ \A d \in Dispatch : dispatch'[d].cost <= Dearest
               /\ Spent(day)' + Cardinality(Owing') * Dearest < Bound'
               /\ \A e \in Days : Spent(e)' < Bound'
  BY DEF SpendOK, Bound
<1>2. ASSUME NEW d \in Dispatch, DispatchNext(d)
      PROVE  /\ Cardinality(UnderWay') <= Workers /\ \A e \in Dispatch : dispatch'[e].cost <= Dearest
             /\ Spent(day)' + Cardinality(Owing') * Dearest < Bound'
             /\ \A e \in Days : Spent(e)' < Bound'
  <2>1. PICK new : /\ Becomes(d, new)
                   /\ \/ Begins(d, new) \/ Runs(d, new) \/ RecordsCost(d, new)
                      \/ Announces(d, new) \/ Settles(d, new)
    BY <1>2, DispatchCases
  <2>2. /\ dispatch'[d] = new /\ \A e \in Dispatch : e # d => dispatch'[e] = dispatch[e]
    BY <2>1, BecomesFrame
  <2>3. MayStart(d) \/ InFlight(d)
    BY <2>1 DEF Begins, Runs, RecordsCost, Announces, Settles, InFlight, Ended
  <2>4. Cardinality(UnderWay') <= Workers
    BY <2>1, <2>3, UnderWayKept
  <2>5. \A e \in Dispatch : dispatch'[e].cost <= Dearest
    <3>1. new.cost <= Dearest
      BY <2>1 DEF Begins, Runs, RecordsCost, Announces, Settles
    <3> QED BY <2>2, <3>1 DEF SpendOK
  <2>6. CASE new.step \notin {"run", "finalize", "record"} \/ dispatch[d].step \in {"run", "finalize", "record"}
    <3>1. Owing' \subseteq Owing
      BY <2>2, <2>6 DEF Owing
    <3>2. Cardinality(Owing') <= Cardinality(Owing)
      BY <1>0, <3>1, FS_Subset
    <3>3. CASE UNCHANGED costRows
      <4>1. UNCHANGED day /\ misread <= misread'
        BY <1>0, <2>1 DEF Begins, Runs, RecordsCost, Announces, Settles
      <4> QED BY <2>4, <2>5, <3>2, <3>3, <4>1, RoomStays
    <3>4. CASE RecordsCost(d, new) /\ ~UNCHANGED costRows
      <4> DEFINE r == LedgerRow(CardOf[d], dispatch[d].cost, "airun", "bridge")
      <4>1. r \in CostRow /\ r.day = day /\ r.cost = dispatch[d].cost
        BY BridgeRow
      <4>2. costRows' = Append(costRows, r) /\ UNCHANGED <<day, misread>>
        BY <3>4 DEF RecordsCost
      <4>3. d \in Owing /\ Owing' = Owing \ {d}
        BY <2>2, <3>4 DEF RecordsCost, Owing
      <4>4. Cardinality(Owing') = Cardinality(Owing) - 1
        BY <1>0, <4>3, FS_RemoveElement
      <4>5. r.cost <= Dearest /\ Cardinality(Owing) = Cardinality(Owing') + 1
        <5>1. r.cost <= Dearest
          BY <4>1 DEF SpendOK
        <5> QED BY <1>0, <4>4, <5>1
      <4>6. PICK q : q = r
        OBVIOUS
      <4>7. q \in CostRow /\ costRows' = Append(costRows, q) /\ q.day = day /\ q.cost <= Dearest
        BY <4>1, <4>2, <4>5, <4>6
      <4> HIDE DEF r
      <4> QED BY <2>4, <2>5, <4>2, <4>5, <4>7, RowFitsRoom
    <3> QED BY <2>1, <3>3, <3>4 DEF Begins, Runs, RecordsCost, Announces, Settles
  <2>7. CASE new.step \in {"run", "finalize", "record"} /\ dispatch[d].step \notin {"run", "finalize", "record"}
    <3>1. Begins(d, new) /\ new.step = "run" /\ ~Capped(new.pre)
      BY <2>1, <2>7 DEF Begins, Runs, RecordsCost, Announces, Settles
    <3>2. UNCHANGED <<day, costRows>>
      BY <3>1 DEF Begins
    <3>3. CASE misread' = misread + 1
      <4>1. d \notin Owing /\ Owing' = Owing \cup {d}
        BY <2>2, <2>7, <3>1 DEF Owing
      <4>2. Cardinality(Owing') = Cardinality(Owing) + 1
        BY <1>0, <4>1, FS_AddElement
      <4>3. Cardinality(Owing') <= Cardinality(Owing) + (misread' - misread) /\ misread <= misread'
        BY <1>0, <3>3, <4>2
      <4> QED BY <2>4, <2>5, <3>2, <4>3, RoomStays
    <3>4. CASE new.pre = DayTotal(day) /\ UNCHANGED misread
      <4>1. /\ Cardinality(Owing') \in Nat /\ Cardinality(Owing') <= Workers
        <5>1. (CostTypes => /\ Cardinality(Owing) \in Nat /\ Cardinality(UnderWay) \in Nat
                            /\ Cardinality(Owing) <= Cardinality(UnderWay))'
          BY CountsAreNumbers, PTL
        <5>2. /\ Cardinality(Owing') \in Nat /\ Cardinality(UnderWay') \in Nat
              /\ Cardinality(Owing') <= Cardinality(UnderWay')
          BY <5>1
        <5> QED BY <1>0, <2>4, <5>2
      <4>2. \A e \in Days : Spent(e)' = Spent(e) /\ Spent(e) \in Nat
        BY <3>2, DayTotalStands
      <4>3. Spent(day)' = Spent(day) /\ Spent(day) \in Nat
        <5>1. PICK e \in Days : e = day
          BY <1>0
        <5> QED BY <3>2, <4>2, <5>1
      <4>4. Spent(day) < Cap
        <5>1. DayTotal(day) = Spent(day) + Built(day) /\ Built(day) \in Nat
          <6>1. PICK e \in Days : e = day
            BY <1>0
          <6>2. DayTotal(e) = Spent(e) + Built(e) /\ Built(e) \in Nat
            BY <3>2, DayTotalStands DEF RowsOK
          <6> QED BY <6>1, <6>2
        <5>2. DayTotal(day) < Cap /\ DayTotal(day) \in Nat
          BY <1>0, <3>1, <3>4, <4>3, <5>1 DEF Capped
        <5> QED BY <1>0, <4>3, <5>1, <5>2
      <4>5. Bound' = Bound /\ Bound = Cap + (Workers + misread) * Dearest
        BY <3>4 DEF Bound
      <4>6. /\ Cardinality(Owing') * Dearest <= (Workers + misread) * Dearest
            /\ Cardinality(Owing') * Dearest \in Nat /\ (Workers + misread) * Dearest \in Nat
        <5>1. Cardinality(Owing') <= Workers + misread /\ Workers + misread \in Nat
          BY <1>0, <4>1
        <5> QED BY <1>0, <4>1, <5>1, MoreOfTheSame
      <4>7. Spent(day)' + Cardinality(Owing') * Dearest < Bound'
        BY <1>0, <4>3, <4>4, <4>5, <4>6
      <4>8. \A e \in Days : Spent(e)' < Bound'
        BY <4>2, <4>5 DEF SpendOK
      <4> QED BY <2>4, <2>5, <4>7, <4>8
    <3> QED BY <2>7, <3>1, <3>3, <3>4 DEF Begins
  <2> QED BY <2>6, <2>7
<1>3. CASE NextDay
  <2>1. UNCHANGED <<costRows, dispatch, misread>> /\ day' = day + 1 /\ day' \in Days
    BY <1>3 DEF NextDay, CostTypes
  <2>2. UNCHANGED <<Owing, UnderWay>>
    BY <2>1 DEF Owing, UnderWay, InFlight
  <2>3. \A e \in Days : Spent(e)' = Spent(e) /\ Spent(e) \in Nat
    BY <2>1, DayTotalStands
  <2>4. Spent(day)' = 0
    <3>1. PICK e \in Days : e = day'
      BY <2>1
    <3>2. e > day
      BY <1>0, <2>1, <3>1 DEF Days
    <3>3. DayTotal(e) = 0 /\ DayTotal(e) = Spent(e) + Built(e) /\ Spent(e) \in Nat /\ Built(e) \in Nat
      BY <2>1, <3>2, DayTotalStands DEF RowsOK
    <3> QED BY <2>3, <3>1, <3>3
  <2>5. Bound' = Bound /\ Bound = Cap + (Workers + misread) * Dearest
    BY <2>1 DEF Bound
  <2>6. /\ Cardinality(Owing) * Dearest <= (Workers + misread) * Dearest
        /\ Cardinality(Owing) * Dearest \in Nat /\ (Workers + misread) * Dearest \in Nat
    <3>1. Cardinality(Owing) <= Workers + misread /\ Workers + misread \in Nat
      BY <1>0
    <3> QED BY <1>0, <3>1, MoreOfTheSame
  <2>7. Spent(day)' + Cardinality(Owing') * Dearest < Bound'
    BY <1>0, <2>2, <2>4, <2>5, <2>6
  <2>8. \A e \in Days : Spent(e)' < Bound'
    BY <2>3, <2>5 DEF SpendOK
  <2> QED BY <2>1, <2>2, <2>7, <2>8 DEF SpendOK
\* What is not the bridge's leaves the bridge's rows and its runs alone.
<1>4. ASSUME UNCHANGED <<day, dispatch, misread>>,
             UNCHANGED costRows \/ \E r \in CostRow : costRows' = Append(costRows, r) /\ r.day = day /\ r.by # "bridge"
      PROVE  /\ Cardinality(UnderWay') <= Workers /\ \A d \in Dispatch : dispatch'[d].cost <= Dearest
             /\ Spent(day)' + Cardinality(Owing') * Dearest < Bound'
             /\ \A e \in Days : Spent(e)' < Bound'
  <2>1. UNCHANGED <<Owing, UnderWay>>
    BY <1>4 DEF Owing, UnderWay, InFlight
  <2>2. /\ Cardinality(UnderWay') <= Workers /\ \A d \in Dispatch : dispatch'[d].cost <= Dearest
    BY <1>4, <2>1 DEF SpendOK
  <2>3. CASE UNCHANGED costRows
    <3>1. misread <= misread' /\ Cardinality(Owing') <= Cardinality(Owing)
      BY <1>0, <1>4, <2>1
    <3> QED BY <1>4, <2>2, <2>3, <3>1, RoomStays
  <2>4. CASE \E r \in CostRow : costRows' = Append(costRows, r) /\ r.day = day /\ r.by # "bridge"
    <3>1. PICK r \in CostRow : costRows' = Append(costRows, r) /\ r.day = day /\ r.by # "bridge"
      BY <2>4
    <3>2. Cardinality(Owing') = Cardinality(Owing)
      BY <2>1
    <3> QED BY <1>4, <2>2, <3>1, <3>2, RowFitsRoom
  <2> QED BY <1>4, <2>3, <2>4
<1>5. ASSUME \E run \in {"name", "airun"} : TestRow(run)
      PROVE  /\ UNCHANGED <<day, dispatch, misread>>
             /\ \E r \in CostRow : costRows' = Append(costRows, r) /\ r.day = day /\ r.by # "bridge"
  <2>1. PICK run \in {"name", "airun"} : TestRow(run)
    BY <1>5
  <2>2. PICK q : q = LedgerRow(FixtureCard, 0, run, "suite")
    OBVIOUS
  <2>3. q \in CostRow /\ q.day = day /\ q.by # "bridge"
    BY <2>2, SuiteRow
  <2> QED BY <2>1, <2>2, <2>3 DEF TestRow
<1>6. ASSUME EngineNext
      PROVE  /\ UNCHANGED <<day, dispatch, misread>>
             /\ \/ UNCHANGED costRows
                \/ \E r \in CostRow : costRows' = Append(costRows, r) /\ r.day = day /\ r.by # "bridge"
  <2>1. CASE EngineRunBegins \/ EngineTakes
    BY <2>1 DEF EngineRunBegins, EngineTakes
  <2>2. ASSUME NEW item \in Cards, NEW cost \in Price, NEW written \in BOOLEAN, EngineBuilt(item, cost, written)
        PROVE  /\ UNCHANGED <<day, dispatch, misread>>
               /\ \/ UNCHANGED costRows
                  \/ \E r \in CostRow : costRows' = Append(costRows, r) /\ r.day = day /\ r.by # "bridge"
    <3>1. PICK q : q = LedgerRow(item, cost, "stamp", "engine")
      OBVIOUS
    <3>2. q \in CostRow /\ q.day = day /\ q.by # "bridge"
      BY <3>1, EngineRow
    <3> QED BY <2>2, <3>1, <3>2 DEF EngineBuilt, RecordRun
  <2> QED BY <1>6, <2>1, <2>2 DEF EngineNext
<1>7. CASE UNCHANGED costVars
  <2>1. UNCHANGED <<day, dispatch, misread, costRows>>
    BY <1>7 DEF costVars
  <2> QED BY <1>4, <2>1
<1> QED BY <1>2, <1>3, <1>4, <1>5, <1>6, <1>7 DEF CostNext

-----------------------------------------------------------------------------
\* A build counts as the dearest while it is under way, as a dispatch does.
LEMMA EngineKept ==
  ASSUME CostInv, CostTypes', [CostNext]_costVars
  PROVE  EngineOK'
<1> USE DEF CostInv
<1>0. /\ engine.building \in Nat /\ engine.spent \in Nat /\ engine.past \in Nat
      /\ Dearest \in Nat /\ Cap \in Nat /\ Builders \in Nat
      /\ Builders * Dearest \in Nat /\ engine.building * Dearest \in Nat
  <2>1. engine \in Engine
    BY DEF CostTypes
  <2> QED BY <2>1, CostAssumption, DearestIsMost DEF Engine
<1>1. /\ engine.building <= Builders
      /\ engine.spent + engine.building * Dearest <= Cap + Builders * Dearest
      /\ \A e \in Days : Built(e) <= engine.past + engine.spent
  BY DEF EngineOK
\* Rows that are not the orchestrator's leave its total.
<1>2. ASSUME UNCHANGED costRows \/ \E r \in CostRow : costRows' = Append(costRows, r) /\ r.by # "engine"
      PROVE  \A e \in Days : Built(e)' = Built(e) /\ Built(e) \in Nat
  <2>1. SUFFICES ASSUME NEW e \in Days PROVE Built(e)' = Built(e) /\ Built(e) \in Nat
    OBVIOUS
  <2>2. CASE UNCHANGED costRows
    BY <2>2, DayTotalStands
  <2>3. CASE \E r \in CostRow : costRows' = Append(costRows, r) /\ r.by # "engine"
    <3>1. PICK r \in CostRow : costRows' = Append(costRows, r) /\ r.by # "engine"
      BY <2>3
    <3>2. Built(e) \in Nat /\ Built(e)' = Built(e) + (IF r.day = e /\ r.by = "engine" THEN r.cost ELSE 0)
      BY <3>1, RowRecorded
    <3> QED BY <3>1, <3>2
  <2> QED BY <1>2, <2>2, <2>3
<1>3. ASSUME UNCHANGED engine,
             UNCHANGED costRows \/ \E r \in CostRow : costRows' = Append(costRows, r) /\ r.by # "engine"
      PROVE  EngineOK'
  BY <1>1, <1>2, <1>3 DEF EngineOK
<1>4. ASSUME NEW d \in Dispatch, DispatchNext(d) PROVE EngineOK'
  <2>1. PICK new : /\ Becomes(d, new)
                   /\ \/ Begins(d, new) \/ Runs(d, new) \/ RecordsCost(d, new)
                      \/ Announces(d, new) \/ Settles(d, new)
    BY <1>4, DispatchCases
  <2>2. UNCHANGED engine
    BY <2>1 DEF Begins, Runs, RecordsCost, Announces, Settles
  <2>3. PICK q : q = LedgerRow(CardOf[d], dispatch[d].cost, "airun", "bridge")
    OBVIOUS
  <2>4. q \in CostRow /\ q.by # "engine"
    BY <2>3, BridgeRow
  <2>5. UNCHANGED costRows \/ costRows' = Append(costRows, q)
    BY <2>1, <2>3 DEF Begins, Runs, RecordsCost, Announces, Settles
  <2> QED BY <1>3, <2>2, <2>4, <2>5
<1>5. CASE NextDay \/ UNCHANGED costVars
  <2>1. UNCHANGED <<engine, costRows>>
    BY <1>5 DEF NextDay, costVars
  <2> QED BY <1>3, <2>1
<1>6. ASSUME NEW run \in {"name", "airun"}, TestRow(run) PROVE EngineOK'
  <2>1. PICK q : q = LedgerRow(FixtureCard, 0, run, "suite")
    OBVIOUS
  <2>2. q \in CostRow /\ q.by # "engine"
    BY <2>1, SuiteRow
  <2>3. UNCHANGED engine /\ costRows' = Append(costRows, q)
    BY <1>6, <2>1 DEF TestRow
  <2> QED BY <1>3, <2>2, <2>3
<1>7. CASE EngineRunBegins
  <2>1. /\ engine'.building = 0 /\ engine'.spent = 0 /\ engine'.past = engine.past + engine.spent
        /\ UNCHANGED costRows
    BY <1>7 DEF EngineRunBegins
  <2>2. \A e \in Days : Built(e)' <= engine'.past + engine'.spent
    BY <1>0, <1>1, <1>2, <2>1
  <2>3. engine'.spent + engine'.building * Dearest <= Cap + Builders * Dearest
    BY <1>0, <2>1
  <2> QED BY <1>0, <2>1, <2>2, <2>3 DEF EngineOK
<1>8. CASE EngineTakes
  <2>1. /\ engine'.building = engine.building + 1 /\ engine'.spent = engine.spent /\ engine'.past = engine.past
        /\ engine.building < Builders /\ engine.spent <= Cap /\ UNCHANGED costRows
    BY <1>0, <1>8 DEF EngineTakes, Exceeded, CostTypes, Engine
  <2>2. engine'.building \in Nat /\ engine'.building <= Builders
    BY <1>0, <2>1
  <2>3. engine'.building * Dearest \in Nat /\ engine'.building * Dearest <= Builders * Dearest
    BY <1>0, <2>2, MoreOfTheSame
  <2>4. engine'.spent + engine'.building * Dearest <= Cap + Builders * Dearest
    BY <1>0, <2>1, <2>3
  <2>5. \A e \in Days : Built(e)' <= engine'.past + engine'.spent
    BY <1>1, <1>2, <2>1
  <2> QED BY <2>2, <2>4, <2>5 DEF EngineOK
<1>9. ASSUME NEW item \in Cards, NEW cost \in Price, NEW written \in BOOLEAN, EngineBuilt(item, cost, written)
      PROVE  EngineOK'
  <2>1. /\ engine.building > 0 /\ engine'.building = engine.building - 1
        /\ engine'.spent = engine.spent + cost /\ engine'.past = engine.past
    BY <1>9 DEF EngineBuilt, CostTypes, Engine
  <2>2. PICK q : q = LedgerRow(item, cost, "stamp", "engine")
    OBVIOUS
  <2>3. /\ q \in CostRow /\ q.cost = cost /\ cost \in Nat /\ cost <= Dearest
    BY <2>2, EngineRow
  <2>4. UNCHANGED costRows \/ costRows' = Append(costRows, q)
    BY <1>9, <2>2 DEF EngineBuilt, RecordRun
  <2>5. \A e \in Days : Built(e)' <= Built(e) + cost /\ Built(e)' \in Nat /\ Built(e) \in Nat
    <3>1. SUFFICES ASSUME NEW e \in Days PROVE Built(e)' <= Built(e) + cost /\ Built(e)' \in Nat /\ Built(e) \in Nat
      OBVIOUS
    <3>2. CASE UNCHANGED costRows
      <4>1. Built(e)' = Built(e) /\ Built(e) \in Nat
        BY <3>2, DayTotalStands
      <4> QED BY <2>3, <4>1
    <3>3. CASE costRows' = Append(costRows, q)
      <4>1. Built(e) \in Nat /\ Built(e)' = Built(e) + (IF q.day = e /\ q.by = "engine" THEN q.cost ELSE 0)
        BY <2>3, <3>3, RowRecorded
      <4> QED BY <2>3, <4>1
    <3> QED BY <2>4, <3>2, <3>3
  <2>6. \A e \in Days : Built(e)' <= engine'.past + engine'.spent
    BY <1>0, <1>1, <2>1, <2>3, <2>5
  <2>7. PICK b \in Nat : engine.building = b + 1
    <3>1. engine.building - 1 \in Nat /\ engine.building = (engine.building - 1) + 1
      BY <1>0, <2>1
    <3> QED BY <3>1
  <2>8. (b + 1) * Dearest = b * Dearest + Dearest /\ b * Dearest \in Nat
    BY <1>0, <2>7, MoreOfTheSame
  <2>9. engine'.building = b /\ b <= Builders
    BY <1>0, <1>1, <2>1, <2>7
  <2>10. engine.spent + (b * Dearest + Dearest) <= Cap + Builders * Dearest
    BY <1>1, <2>7, <2>8
  <2>11. engine'.spent + b * Dearest <= Cap + Builders * Dearest
    BY <1>0, <2>1, <2>3, <2>8, <2>10
  <2>12. engine'.spent + engine'.building * Dearest <= Cap + Builders * Dearest
    BY <2>9, <2>11
  <2> QED BY <2>6, <2>9, <2>12 DEF EngineOK
<1> QED BY <1>4, <1>5, <1>6, <1>7, <1>8, <1>9 DEF CostNext, EngineNext

-----------------------------------------------------------------------------
LEMMA CostInitially == CostInit => CostInv
<1> SUFFICES ASSUME CostInit PROVE CostInv
  OBVIOUS
<1>0. 1 \in Days /\ Dearest \in Nat /\ Workers \in Nat /\ Builders \in Nat /\ Cap \in Nat \ {0}
  BY CostAssumption, DearestIsMost DEF Days
<1>1. costRows = << >> /\ << >> \in Seq(CostRow) /\ DOMAIN costRows = {} /\ Len(costRows) = 0 /\ day = 1 /\ misread = 0
  BY DEF CostInit
<1>2. \A d \in Dispatch : dispatch[d] = [step |-> "idle", today |-> 1, pre |-> 0, cost |-> 0, pr |-> FALSE, grade |-> FALSE]
  BY DEF CostInit
<1>3. CostTypes
  <2>1. [step |-> "idle", today |-> 1, pre |-> 0, cost |-> 0, pr |-> FALSE, grade |-> FALSE] \in DispatchState
    BY <1>0 DEF DispatchState, CostSteps
  <2>2. dispatch \in [Dispatch -> DispatchState]
    BY <2>1 DEF CostInit
  <2>3. alerts \in [Days -> SUBSET {"sent", "failed"}] /\ minted \in [Cards -> Nat] /\ lapses \in [Cards -> Nat]
        /\ engine \in Engine
    BY DEF CostInit, Engine
  <2> QED BY <1>0, <1>1, <2>2, <2>3 DEF CostInit, CostTypes
<1>4. \A e : DayTotal(e) = 0 /\ Spent(e) = 0 /\ Built(e) = 0
  <2>1. \A e, W : SumOf(Amounts(costRows, e, W)) = 0
    <3>1. SUFFICES ASSUME NEW e, NEW W PROVE SumOf(Amounts(costRows, e, W)) = 0
      OBVIOUS
    <3>2. Amounts(costRows, e, W) \in Seq(Nat) /\ Len(Amounts(costRows, e, W)) = 0
      BY <1>1, AmountsAreNumbers
    <3>3. Totals(Amounts(costRows, e, W))[0] = 0
      BY <3>2, TotalsAreSums
    <3> QED BY <3>2, <3>3 DEF SumOf
  <2>2. costRows \in Seq(CostRow)
    BY <1>1
  <2> QED BY <2>1, <2>2, TotalsAreBooked
<1>5. Owing = {} /\ UnderWay = {}
  BY <1>2 DEF Owing, UnderWay, InFlight
<1>6. Cardinality(Owing) = 0 /\ Cardinality(UnderWay) = 0
  BY <1>5, FS_EmptySet
<1>7. RowsOK
  BY <1>1, <1>2, <1>4 DEF RowsOK
<1>8. SpendOK
  <2>1. (Workers + misread) * Dearest \in Nat /\ 0 * Dearest = 0
    BY <1>0, <1>1
  <2> QED BY <1>0, <1>1, <1>2, <1>4, <1>6, <2>1 DEF SpendOK
<1>9. AlertsOK
  BY <1>0, <1>2 DEF CostInit, AlertsOK, Capped
<1>10. SettleOK
  <2>1. \A c \in Cards : minted[c] = 0 /\ lapses[c] = 0
    BY DEF CostInit
  <2> QED BY <1>2, <2>1 DEF SettleOK, InFlight
<1>11. EngineOK
  <2>1. engine.building = 0 /\ engine.spent = 0 /\ engine.past = 0
    BY DEF CostInit
  <2>2. Builders * Dearest \in Nat /\ 0 * Dearest = 0
    BY <1>0
  <2> QED BY <1>0, <1>4, <2>1, <2>2 DEF EngineOK
<1> QED BY <1>3, <1>7, <1>8, <1>9, <1>10, <1>11 DEF CostInv

\* The daily books hold for every number of dispatches, workers, builders, days,
\* prices and mishaps (agentrun_bridge.py, orchestrator.py, autopilot_cost.py,
\* ledger_correction.py): the bridge passes the day's cap by what was under way
\* and by looks that could not read the ledger, the orchestrator adds what its
\* runs spent, each within its own cap; nobody is silenced before an alert was
\* tried; a card's mints beyond one are its lapses; and the correction drops the
\* tests' rows and the bridge's own of a card with the fixture's name.
THEOREM CostStaysBounded == CostSpec => []CostIsBounded
<1>1. CostInit => CostInv
  BY CostInitially
<1>2. CostInv /\ [CostNext]_costVars => CostInv'
  <2> SUFFICES ASSUME CostInv, [CostNext]_costVars PROVE CostInv'
    OBVIOUS
  <2>1. CostTypes'
    BY CostTypesKept DEF CostInv
  <2> QED BY <2>1, RowsKept, SpendKept, EngineKept, AlertsKept, SettleKept DEF CostInv
<1>3. CostInv => CostIsBounded
  <2> SUFFICES ASSUME CostInv PROVE CostIsBounded
    OBVIOUS
  <2>1. \A i \in DOMAIN costRows : costRows[i] \in CostRow /\ costRows[i].day \in Days
    <3>1. \A i \in DOMAIN costRows : costRows[i] \in CostRow
      BY DEF CostInv, CostTypes
    <3> QED BY <3>1 DEF CostRow
  <2>2. \A d \in Dispatch : dispatch[d].pre \in Nat
    BY DEF CostInv, CostTypes, DispatchState
  <2>3. CostTypeOK
    BY <2>1, <2>2 DEF CostInv, CostTypes, CostTypeOK, RowsOK
  <2>4. OvershootIsBounded
    <3>0. /\ engine.building \in Nat /\ engine.spent \in Nat /\ engine.past \in Nat
          /\ Dearest \in Nat /\ Cap \in Nat /\ Builders \in Nat
          /\ Builders * Dearest \in Nat /\ engine.building * Dearest \in Nat
      <4>1. engine \in Engine
        BY DEF CostInv, CostTypes
      <4> QED BY <4>1, CostAssumption, DearestIsMost DEF Engine
    <3>1. \A e \in Days : Spent(e) < Cap + (Workers + misread) * Dearest
      BY DEF CostInv, SpendOK
    <3>2. engine.spent <= Cap + Builders * Dearest
      <4>1. engine.spent + engine.building * Dearest <= Cap + Builders * Dearest
        BY DEF CostInv, EngineOK
      <4> QED BY <3>0, <4>1
    <3>3. \A e \in Days : DayTotal(e) <= Spent(e) + engine.past + engine.spent
      <4>1. SUFFICES ASSUME NEW e \in Days PROVE DayTotal(e) <= Spent(e) + engine.past + engine.spent
        OBVIOUS
      <4>2. Spent(e) \in Nat /\ Built(e) \in Nat
        BY TotalsAreBooked DEF CostInv, CostTypes
      <4>3. DayTotal(e) = Spent(e) + Built(e) /\ Built(e) <= engine.past + engine.spent
        BY DEF CostInv, RowsOK, EngineOK
      <4> QED BY <3>0, <4>2, <4>3
    <3> QED BY <3>1, <3>2, <3>3 DEF OvershootIsBounded, Spent
  <2>5. SuppressedWasTried
    BY DEF CostInv, AlertsOK, SuppressedWasTried
  <2>6. SettledOncePerCard
    <3>1. \A c \in Cards : minted[c] \in Nat /\ lapses[c] \in Nat /\ minted[c] <= lapses[c] + 1
      BY DEF CostInv, CostTypes, SettleOK
    <3> QED BY <3>1 DEF SettledOncePerCard
  <2>7. CorrectionDropsTestsOnly
    <3>1. SUFFICES ASSUME NEW d \in Days
                   PROVE  LET genuine == {i \in RowsOn(d) : costRows[i].by # "suite"}
                              lookalike == {i \in genuine : costRows[i].by = "bridge" /\ costRows[i].card = FixtureCard}
                          IN  CorrectedOn(d) = Tally(genuine \ lookalike)
      BY DEF CorrectionDropsTestsOnly
    <3> DEFINE genuine == {i \in RowsOn(d) : costRows[i].by # "suite"}
               lookalike == {i \in genuine : costRows[i].by = "bridge" /\ costRows[i].card = FixtureCard}
    <3>2. ASSUME NEW i \in DOMAIN costRows
          PROVE  ~IsFixtureRow(costRows[i]) <=>
                   costRows[i].by # "suite" /\ ~(costRows[i].by = "bridge" /\ costRows[i].card = FixtureCard)
      <4>1. costRows[i] \in CostRow
        BY <2>1, <3>2
      <4>2. /\ costRows[i].by \in Writers /\ costRows[i].run \in {"airun", "stamp", "name"}
            /\ costRows[i].by = "bridge" => costRows[i].run = "airun"
            /\ costRows[i].by = "engine" => costRows[i].run = "stamp"
            /\ costRows[i].by = "suite" => costRows[i].card = FixtureCard /\ costRows[i].run # "stamp"
        BY <4>1 DEF CostRow, Written
      <4> QED BY <4>2 DEF IsFixtureRow, Writers
    <3>3. {i \in RowsOn(d) : ~IsFixtureRow(costRows[i])} = genuine \ lookalike
      BY <3>2 DEF RowsOn
    <3> HIDE DEF genuine, lookalike
    <3>4. CorrectedOn(d) = Tally(genuine \ lookalike)
      BY <3>3 DEF CorrectedOn
    <3> QED BY <3>4 DEF genuine, lookalike
  <2> QED BY <2>3, <2>4, <2>5, <2>6, <2>7 DEF CostIsBounded
<1> QED BY <1>1, <1>2, <1>3, PTL DEF CostSpec
=============================================================================
