-------------------------- MODULE SwarmRecovery_proofs --------------------------
(***************************************************************************)
(* What SwarmScheduler keeps true of its leases, across every restart:      *)
(* deliveries are charged once and downstream work follows completed work   *)
(* in any team; in a team that covers every planned reservation the ledger  *)
(* is the one the leases imply, children that run together are isolated,    *)
(* and no step undoes an end, a stop, evidence or a cancellation; and when  *)
(* the callers observe usage in the order of the orchestrator, every        *)
(* checkpoint is one that recover() accepts.                                *)
(***************************************************************************)
EXTENDS SwarmControl_proofs

-----------------------------------------------------------------------------
(* What the invariants say.  Each is an operator of the values it is about, *)
(* because it holds of the memory and of the checkpoint.                    *)

Stopping == {"cancelled", "timed_out"}

(* One lease agrees with itself: a lease is settled, at its capped usage,   *)
(* exactly when it has ended, and an active one is within its budget.       *)
LeaseOK(l, c) ==
    IF l.state = "none" THEN l = NoLease
    ELSE /\ l.over = OverageDimensions(l.usage, c)
         /\ l.state = "active" => l.settled = None /\ l.result = None /\ ~l.stop /\ l.over = {}
         /\ l.state # "active" => l.settled = CapUsage(l.usage, c)
         /\ l.state = "finished" => l.result # None
         /\ l.state = "over_budget" => l.over # {}
         /\ l.stop => l.state \in Stopping

LeasesOK(ls) == \A c \in Contract : LeaseOK(ls[c], c)

(* Every lease belongs to a registered contract and to one key. *)
Keyed(ls, reg, keys) ==
    \A c \in Held(ls) : c \in reg /\ ls[c].key \in Key /\ keys[ls[c].key] = c

(* The deliveries accepted for a contract, and what they sum up to. *)
AcceptedFor(dl, c) == {i \in DeliveryId : dl[i] # None /\ dl[i].lease = c}
UnitsOf(dl) == [i \in DeliveryId |-> IF dl[i] = None THEN 0 ELSE dl[i].usage.units]
WallOf(dl) == [i \in DeliveryId |-> IF dl[i] = None THEN 0 ELSE dl[i].usage.wall]
UnitsTo(dl, c) == Total(UnitsOf(dl), AcceptedFor(dl, c))
WallTo(dl, c) == Total(WallOf(dl), AcceptedFor(dl, c))

(* Usage comes from deliveries until a terminal observation adds its own. *)
Counted(ls, dl, ob) ==
    /\ IsFiniteSet({i \in DeliveryId : dl[i] # None})
    /\ \A i \in DeliveryId : dl[i] # None => dl[i].lease \in Held(ls)
    /\ \A c \in Contract : ob[c] # None => c \in Held(ls)
    /\ \A c \in Held(ls) : ob[c] = None => ls[c].usage.units = UnitsTo(dl, c)

(* The evidence of a phase: inputs are receipts, receipts are of finished   *)
(* leases, authorizations are for inputs on one commit, and a child of a    *)
(* later phase consumed its own.                                            *)
Phased(ls, reg, ins, rs, auth, used) ==
    /\ \A c \in Contract : c \notin reg => ins[c] = {} /\ ls[c].state = "none"
    /\ \A c \in Contract : \A d \in ins[c] : rs[d] # None
    /\ \A c \in Contract : rs[c] # None =>
            /\ ls[c].state = "finished" /\ ls[c].result # None
            /\ rs[c] = OutputCommit(ls, rs, ins, c)
    /\ \A c \in auth : c \in reg /\ Cardinality(Commits(rs, ins[c])) = 1
    /\ \A c \in used : c \in auth /\ c \in Held(ls)
    /\ \A c \in Held(ls) : Pred[c] # {} =>
            /\ c \in used /\ ins[c] = Pred[c]
            /\ \A d \in Pred[c] : ls[d].result.disposition = "completed"

(* What a lease may do in a step: start if it is not there, and never lose  *)
(* its key, its end, its result or usage.                                   *)
Moves(l, m) ==
    /\ l.state # "none" => m.state # "none" /\ m.key = l.key
    /\ l.state \notin {"none", "active"} => m.state = l.state
    /\ l.result # None => m.result = l.result
    /\ Within(l.usage, m.usage)

Moved(ls, ms) ==
    \A c \in Contract : Moves(ls[c], ms[c]) /\ (ls[c].state = "none" => ms[c].state = "none")

SameUnits(ls, ms) == \A c \in Contract : ms[c].usage.units = ls[c].usage.units

-----------------------------------------------------------------------------
(* Usage against a budget. *)

(* A usage is over in no dimension exactly when it is within the budget. *)
LEMMA NoOverage ==
    ASSUME NEW u \in Usage, NEW c \in Contract
    PROVE  (OverageDimensions(u, c) = {}) <=> Within(u, Budget[c])
<1>1. u.wall \in Nat /\ u.units \in Nat /\ Budget[c].wall \in Nat /\ Budget[c].units \in Nat
  BY BudgetAssumption DEF Usage
<1>2. CASE u.wall > Budget[c].wall
  BY <1>1, <1>2 DEF OverageDimensions, Within
<1>3. CASE u.units > Budget[c].units
  BY <1>1, <1>3 DEF OverageDimensions, Within
<1>4. CASE ~(u.wall > Budget[c].wall) /\ ~(u.units > Budget[c].units)
  BY <1>1, <1>4 DEF OverageDimensions, Within
<1> QED
  BY <1>2, <1>3, <1>4

(* Capping gives a usage within the budget and leaves such a usage alone. *)
LEMMA Capping ==
    ASSUME NEW u \in Usage, NEW c \in Contract
    PROVE  /\ CapUsage(u, c) \in Usage
           /\ Within(CapUsage(u, c), Budget[c])
           /\ Within(u, Budget[c]) => CapUsage(u, c) = u
<1>1. u.wall \in Nat /\ u.units \in Nat /\ Budget[c].wall \in Nat /\ Budget[c].units \in Nat
  BY BudgetAssumption DEF Usage
<1>2. u = [wall |-> u.wall, units |-> u.units]
  BY DEF Usage
<1>3. Within(u, Budget[c]) => Smaller(u.wall, Budget[c].wall) = u.wall
                                /\ Smaller(u.units, Budget[c].units) = u.units
  BY <1>1 DEF Smaller, Within
<1>4. /\ Smaller(u.wall, Budget[c].wall) \in Nat /\ Smaller(u.wall, Budget[c].wall) <= Budget[c].wall
      /\ Smaller(u.units, Budget[c].units) \in Nat /\ Smaller(u.units, Budget[c].units) <= Budget[c].units
  BY <1>1 DEF Smaller
<1>5. Within(u, Budget[c]) => CapUsage(u, c) = u
  BY <1>2, <1>3 DEF CapUsage
<1> QED
  BY <1>4, <1>5 DEF CapUsage, Usage, Within

(* Finalising the elapsed time of a lease within its budget raises its wall *)
(* time at most to the budget.                                              *)
LEMMA Finalising ==
    ASSUME NEW l \in Lease, NEW c \in Contract, now \in Nat, Within(l.usage, Budget[c])
    PROVE  /\ FinalUsage(l, c) \in Usage
           /\ FinalUsage(l, c).units = l.usage.units
           /\ Within(FinalUsage(l, c), Budget[c])
           /\ Within(l.usage, FinalUsage(l, c))
<1>1. l.usage \in Usage /\ l.acquired \in Nat /\ Budget[c] \in Usage
  BY BudgetAssumption DEF Lease
<1>2. /\ l.usage.wall \in Nat /\ l.usage.units \in Nat
      /\ Budget[c].wall \in Nat /\ Budget[c].units \in Nat
  BY <1>1 DEF Usage
<1> DEFINE w == Smaller(Budget[c].wall, Larger(l.usage.wall, now - l.acquired))
<1>3. l.usage.wall <= w /\ w <= Budget[c].wall /\ w \in Nat
  BY <1>1, <1>2 DEF Smaller, Larger, Within
<1> HIDE DEF w
<1>4. FinalUsage(l, c) = [l.usage EXCEPT !.wall = w]
  BY DEF FinalUsage, w
<1>5. FinalUsage(l, c).wall = w /\ FinalUsage(l, c).units = l.usage.units
  BY <1>1, <1>4 DEF Usage
<1> QED
  BY <1>1, <1>2, <1>3, <1>5, FinalUsageType DEF Within

(* Reflexivity, for the parts of a step that leave a usage alone. *)
LEMMA WithinItself ==
    ASSUME NEW u \in Usage
    PROVE  Within(u, u)
  BY DEF Usage, Within

(* An active lease is within its budget. *)
LEMMA ActiveWithin ==
    ASSUME NEW l \in Lease, NEW c \in Contract, LeaseOK(l, c), l.state = "active"
    PROVE  /\ Within(l.usage, Budget[c]) /\ l.usage \in Usage
           /\ l.settled = None /\ l.result = None /\ ~l.stop /\ l.over = {}
<1>1. l.usage \in Usage /\ OverageDimensions(l.usage, c) = {}
  BY DEF Lease, LeaseOK
<1> QED
  BY <1>1, NoOverage DEF LeaseOK

(* Ending an active lease leaves a lease that agrees with itself. *)
LEMMA StoppedOK ==
    ASSUME NEW l \in Lease, NEW c \in Contract, now \in Nat, LeaseOK(l, c), l.state = "active",
           NEW s \in Stopping, NEW r
    PROVE  /\ LeaseOK(Stopped(l, c, s, r), c)
           /\ Moves(l, Stopped(l, c, s, r))
           /\ Stopped(l, c, s, r).state = s
           /\ Stopped(l, c, s, r).stop
           /\ Stopped(l, c, s, r).result = None
           /\ Stopped(l, c, s, r).usage = FinalUsage(l, c)
           /\ Stopped(l, c, s, r).settled = FinalUsage(l, c)
           /\ Stopped(l, c, s, r).usage.units = l.usage.units
<1> DEFINE m == Stopped(l, c, s, r)
           u == FinalUsage(l, c)
<1>1. /\ Within(l.usage, Budget[c]) /\ l.result = None /\ l.over = {}
  BY ActiveWithin
<1>2. /\ u \in Usage /\ u.units = l.usage.units /\ Within(u, Budget[c]) /\ Within(l.usage, u)
  BY <1>1, Finalising
<1>3. OverageDimensions(u, c) = {} /\ CapUsage(u, c) = u
  BY <1>2, NoOverage, Capping
<1>4. /\ m.state = s /\ m.stop = TRUE /\ m.result = None /\ m.usage = u /\ m.settled = u
      /\ m.over = {} /\ m.key = l.key
  <2> HIDE DEF u
  <2>1. m = [l EXCEPT !.state = s, !.reason = r, !.stop = TRUE, !.usage = u, !.settled = u]
    BY DEF Stopped, u
  <2> HIDE DEF m
  <2> QED
    BY <1>1, <2>1 DEF Lease
<1>5. s # "none" /\ s # "active" /\ s # "finished" /\ s # "over_budget"
  BY DEF Stopping
<1> HIDE DEF m, u
<1>6. LeaseOK(m, c)
  BY <1>3, <1>4, <1>5 DEF LeaseOK
<1>7. Moves(l, m)
  BY <1>1, <1>2, <1>4, <1>5 DEF Moves
<1> QED
  BY <1>2, <1>4, <1>6, <1>7 DEF m, u

(* Ending some of the active leases: every lease is as it was or ended. *)
LEMMA EndAllLeases ==
    ASSUME NEW ls \in Leases, LeasesOK(ls), NEW led, NEW S, S \subseteq ActiveIn(ls), now \in Nat,
           NEW s \in Stopping, NEW reason
    PROVE  LET ms == EndAll(ls, led, S, s, reason).leases
           IN  /\ \A c \in Contract : \/ ms[c] = ls[c]
                                      \/ c \in S /\ ms[c] = Stopped(ls[c], c, s, reason[c])
               /\ LeasesOK(ms)
               /\ Moved(ls, ms)
               /\ SameUnits(ls, ms)
               /\ \A c \in Contract : ls[c].stop => ms[c].stop
<1> DEFINE ms == EndAll(ls, led, S, s, reason).leases
           T == SettleReached(led, S, FinalUsages(ls))
<1>1. ms = [c \in Contract |-> IF c \in T THEN Stopped(ls[c], c, s, reason[c]) ELSE ls[c]]
  BY DEF EndAll
<1>2. T \subseteq S
  BY DEF SettleReached
<1> HIDE DEF ms, T
<1>3. \A c \in Contract : \/ ms[c] = ls[c]
                          \/ c \in S /\ ms[c] = Stopped(ls[c], c, s, reason[c])
  BY <1>1, <1>2
<1>4. ASSUME NEW c \in Contract
      PROVE  /\ LeaseOK(ms[c], c)
             /\ Moves(ls[c], ms[c]) /\ (ls[c].state = "none" => ms[c].state = "none")
             /\ ms[c].usage.units = ls[c].usage.units
             /\ ls[c].stop => ms[c].stop
  <2>1. ls[c] \in Lease /\ LeaseOK(ls[c], c) /\ ls[c].usage \in Usage
    BY DEF Leases, LeasesOK, Lease
  <2>2. CASE ms[c] = ls[c]
    BY <2>1, <2>2, WithinItself DEF Moves
  <2>3. CASE c \in S /\ ms[c] = Stopped(ls[c], c, s, reason[c])
    <3>1. ls[c].state = "active"
      BY <2>3 DEF ActiveIn
    <3> QED
      BY <2>1, <2>3, <3>1, StoppedOK
  <2> QED
    BY <1>3, <2>2, <2>3
<1> QED
  BY <1>3, <1>4 DEF LeasesOK, Moved, SameUnits, ms

(* The same for the sweep that expires overdue leases. *)
LEMMA ExpiryLeases ==
    ASSUME NEW ls \in Leases, LeasesOK(ls), NEW led, now \in Nat
    PROVE  LET ms == AfterExpiry(ls, led).leases
           IN  /\ \A c \in Contract :
                     \/ ms[c] = ls[c]
                     \/ \E r : c \in Expired(ls) /\ ms[c] = Stopped(ls[c], c, "timed_out", r)
               /\ LeasesOK(ms)
               /\ Moved(ls, ms)
               /\ SameUnits(ls, ms)
               /\ \A c \in Contract : ls[c].stop => ms[c].stop
<1> DEFINE reason == [c \in Contract |-> IF now >= ls[c].deadline THEN "deadline" ELSE "heartbeat"]
<1>1. Expired(ls) \subseteq ActiveIn(ls) /\ "timed_out" \in Stopping
  BY DEF Expired, Stopping
<1> HIDE DEF reason
<1>2. AfterExpiry(ls, led) = EndAll(ls, led, Expired(ls), "timed_out", reason)
  BY DEF AfterExpiry, reason
<1>3. LET ms == EndAll(ls, led, Expired(ls), "timed_out", reason).leases
      IN  /\ \A c \in Contract : \/ ms[c] = ls[c]
                                 \/ c \in Expired(ls) /\ ms[c] = Stopped(ls[c], c, "timed_out", reason[c])
          /\ LeasesOK(ms)
          /\ Moved(ls, ms)
          /\ SameUnits(ls, ms)
          /\ \A c \in Contract : ls[c].stop => ms[c].stop
  BY <1>1, EndAllLeases
<1> QED
  BY <1>2, <1>3

-----------------------------------------------------------------------------
(* What a step of the leases alone preserves. *)

(* Leases that move keep their keys. *)
LEMMA KeyedMoved ==
    ASSUME NEW ls, NEW ms, Moved(ls, ms), NEW reg, NEW keys, Keyed(ls, reg, keys)
    PROVE  Keyed(ms, reg, keys) /\ Held(ms) = Held(ls)
<1>1. Held(ms) = Held(ls)
  BY DEF Moved, Moves, Held
<1>2. \A c \in Held(ls) : ms[c].key = ls[c].key
  BY DEF Moved, Moves, Held
<1> QED
  BY <1>1, <1>2 DEF Keyed

(* ... and what was counted for them, as long as their units stand. *)
LEMMA CountedMoved ==
    ASSUME NEW ls, NEW ms, Moved(ls, ms), SameUnits(ls, ms), NEW dl, NEW ob, Counted(ls, dl, ob)
    PROVE  Counted(ms, dl, ob)
<1>1. Held(ms) = Held(ls) /\ Held(ls) \subseteq Contract
  BY DEF Moved, Moves, Held
<1>2. \A c \in Held(ls) : ms[c].usage.units = ls[c].usage.units
  BY <1>1 DEF SameUnits
<1> QED
  BY <1>1, <1>2 DEF Counted

(* ... and the evidence of the phases. *)
LEMMA PhasedMoved ==
    ASSUME NEW ls, NEW ms, Moved(ls, ms),
           NEW reg, NEW ins \in [Contract -> SUBSET Contract], NEW rs, NEW auth, NEW used,
           Phased(ls, reg, ins, rs, auth, used)
    PROVE  Phased(ms, reg, ins, rs, auth, used)
<1>1. Held(ms) = Held(ls) /\ Held(ls) \subseteq Contract
  BY DEF Moved, Moves, Held
<1>2. \A c \in Contract : rs[c] # None =>
          ms[c].state = "finished" /\ ms[c].result # None /\ ms[c].result = ls[c].result
  BY DEF Moved, Moves, Phased
<1>3. \A c \in Contract : rs[c] # None => rs[c] = OutputCommit(ms, rs, ins, c)
  BY <1>2 DEF Phased, OutputCommit
<1>4. ASSUME NEW c \in Held(ls), Pred[c] # {}, NEW d \in Pred[c]
      PROVE  ms[d].result.disposition = "completed"
  <2>1. c \in Contract /\ ins[c] = Pred[c]
    BY <1>1, <1>4 DEF Phased
  <2>2. d \in Contract /\ rs[d] # None /\ ls[d].result.disposition = "completed"
    BY <1>4, <2>1 DEF Phased
  <2> QED
    BY <1>2, <2>2
<1>5. \A c \in Contract : c \notin reg => ins[c] = {} /\ ms[c].state = "none"
  BY DEF Phased, Moved
<1> QED
  BY <1>1, <1>2, <1>3, <1>4, <1>5 DEF Phased

Delivering(dl, i, c, u) == [dl EXCEPT ![i] = [lease |-> c, usage |-> u]]

(* Accepting a delivery adds its usage to the lease it is for. *)
LEMMA DeliveryAdds ==
    ASSUME NEW dl \in [DeliveryId -> [lease : Contract, usage : Usage] \cup {None}],
           IsFiniteSet({i \in DeliveryId : dl[i] # None}),
           NEW i \in DeliveryId, dl[i] = None, NEW c \in Contract, NEW u \in Usage
    PROVE  LET em == Delivering(dl, i, c, u)
           IN  /\ IsFiniteSet({j \in DeliveryId : em[j] # None})
               /\ UnitsTo(em, c) = UnitsTo(dl, c) + u.units
               /\ WallTo(em, c) = WallTo(dl, c) + u.wall
               /\ \A d \in Contract : d # c =>
                      UnitsTo(em, d) = UnitsTo(dl, d) /\ WallTo(em, d) = WallTo(dl, d)
<1> DEFINE em == Delivering(dl, i, c, u)
<1>0. [lease |-> c, usage |-> u] # None
  BY NoneAssumption
<1>1. /\ em[i] = [lease |-> c, usage |-> u]
      /\ \A j \in DeliveryId : j # i => em[j] = dl[j]
  BY DEF Delivering
<1> HIDE DEF em
<1>2. {j \in DeliveryId : em[j] # None} = {j \in DeliveryId : dl[j] # None} \cup {i}
  BY <1>0, <1>1
<1>3. IsFiniteSet({j \in DeliveryId : em[j] # None})
  BY <1>2, FS_AddElement
<1>4. \A d : IsFiniteSet(AcceptedFor(dl, d)) /\ i \notin AcceptedFor(dl, d)
  <2>1. \A d : AcceptedFor(dl, d) \subseteq {j \in DeliveryId : dl[j] # None}
    BY DEF AcceptedFor
  <2>2. \A d : i \notin AcceptedFor(dl, d)
    BY DEF AcceptedFor
  <2> QED
    BY <2>1, <2>2, FS_Subset
<1>5. AcceptedFor(em, c) = AcceptedFor(dl, c) \cup {i}
  BY <1>0, <1>1 DEF AcceptedFor
<1>6. \A d \in Contract : d # c => AcceptedFor(em, d) = AcceptedFor(dl, d)
  BY <1>0, <1>1 DEF AcceptedFor
<1>7. /\ \A j \in DeliveryId : UnitsOf(dl)[j] \in Nat /\ WallOf(dl)[j] \in Nat
      /\ UnitsOf(em)[i] = u.units /\ WallOf(em)[i] = u.wall /\ u.units \in Nat /\ u.wall \in Nat
      /\ \A j \in DeliveryId : j # i => UnitsOf(em)[j] = UnitsOf(dl)[j] /\ WallOf(em)[j] = WallOf(dl)[j]
  BY <1>0, <1>1 DEF UnitsOf, WallOf, Usage
<1>8. \A d : /\ Total(UnitsOf(em), AcceptedFor(dl, d)) = Total(UnitsOf(dl), AcceptedFor(dl, d))
             /\ Total(WallOf(em), AcceptedFor(dl, d)) = Total(WallOf(dl), AcceptedFor(dl, d))
  <2> TAKE d
  <2>1. \A j \in AcceptedFor(dl, d) : UnitsOf(em)[j] = UnitsOf(dl)[j] /\ WallOf(em)[j] = WallOf(dl)[j]
    BY <1>4, <1>7 DEF AcceptedFor
  <2> QED
    BY <2>1, TotalAgrees
<1>9. ASSUME NEW f, f \in {UnitsOf(em), WallOf(em)}
      PROVE  Total(f, AcceptedFor(em, c)) = Total(f, AcceptedFor(dl, c)) + f[i]
  <2>1. \A j \in AcceptedFor(dl, c) \cup {i} : f[j] \in Nat
    BY <1>7, <1>9 DEF AcceptedFor
  <2>2. IsFiniteSet({i}) /\ AcceptedFor(dl, c) \cap {i} = {} /\ IsFiniteSet(AcceptedFor(dl, c))
    <3>1. IsFiniteSet({i})
      BY FS_Singleton
    <3> QED
      BY <1>4, <3>1
  <2>3. Total(f, AcceptedFor(dl, c) \cup {i}) = Total(f, AcceptedFor(dl, c)) + Total(f, {i})
    BY <2>1, <2>2, TotalOfUnion
  <2>4. Total(f, {i}) = f[i]
    BY <2>1, TotalOfOne
  <2> QED
    BY <1>5, <2>3, <2>4
<1>10. /\ UnitsTo(em, c) = UnitsTo(dl, c) + u.units
       /\ WallTo(em, c) = WallTo(dl, c) + u.wall
  BY <1>7, <1>8, <1>9 DEF UnitsTo, WallTo
<1>11. \A d \in Contract : d # c => UnitsTo(em, d) = UnitsTo(dl, d) /\ WallTo(em, d) = WallTo(dl, d)
  BY <1>6, <1>8 DEF UnitsTo, WallTo
<1> QED
  BY <1>3, <1>10, <1>11 DEF em

(* What was delivered is a number, and nothing was delivered to a contract  *)
(* nothing was accepted for.                                                *)
LEMMA DeliveredType ==
    ASSUME NEW dl \in [DeliveryId -> [lease : Contract, usage : Usage] \cup {None}],
           IsFiniteSet({i \in DeliveryId : dl[i] # None}), NEW c
    PROVE  /\ UnitsTo(dl, c) \in Nat /\ WallTo(dl, c) \in Nat
           /\ AcceptedFor(dl, c) = {} => UnitsTo(dl, c) = 0 /\ WallTo(dl, c) = 0
<1>1. AcceptedFor(dl, c) \subseteq {i \in DeliveryId : dl[i] # None}
  BY DEF AcceptedFor
<1>2. IsFiniteSet(AcceptedFor(dl, c)) /\ IsFiniteSet({})
  BY <1>1, FS_Subset, FS_EmptySet
<1>3. \A j \in AcceptedFor(dl, c) : UnitsOf(dl)[j] \in Nat /\ WallOf(dl)[j] \in Nat
  BY DEF UnitsOf, WallOf, Usage, AcceptedFor
<1>4. AcceptedFor(dl, c) \cap {} = {}
  OBVIOUS
<1>5. UnitsTo(dl, c) \in Nat /\ WallTo(dl, c) \in Nat
  BY <1>2, <1>3, <1>4, TotalOfUnion DEF UnitsTo, WallTo
<1> QED
  BY <1>5, TotalOfNone DEF UnitsTo, WallTo

-----------------------------------------------------------------------------
(* What each operation does to the leases. *)

(* Replacing one lease by one it may move to. *)
LEMMA OneMoves ==
    ASSUME NEW ls \in Leases, LeasesOK(ls), NEW c \in Contract, NEW m, LeaseOK(m, c),
           Moves(ls[c], m), ls[c].state # "none",
           NEW ms, ms = [ls EXCEPT ![c] = m]
    PROVE  /\ LeasesOK(ms)
           /\ Moved(ls, ms)
           /\ m.usage.units = ls[c].usage.units => SameUnits(ls, ms)
<1>1. ms[c] = m /\ \A d \in Contract : d # c => ms[d] = ls[d]
  BY DEF Leases
<1>2. LeasesOK(ms)
  BY <1>1 DEF LeasesOK
<1>3. \A d \in Contract : Moves(ls[d], ls[d])
  <2> TAKE d \in Contract
  <2>1. ls[d].usage \in Usage
    BY DEF Leases, Lease
  <2> QED
    BY <2>1, WithinItself DEF Moves
<1>4. Moved(ls, ms)
  BY <1>1, <1>3 DEF Moved
<1>5. m.usage.units = ls[c].usage.units => SameUnits(ls, ms)
  BY <1>1 DEF SameUnits
<1> QED
  BY <1>2, <1>4, <1>5

(* heartbeat(): only the expiry. *)
LEMMA HeartbeatLease ==
    ASSUME NEW l \in Lease, NEW c \in Contract, LeaseOK(l, c), l.state = "active", NEW t
    PROVE  LET m == [l EXCEPT !.expires = t]
           IN  LeaseOK(m, c) /\ Moves(l, m) /\ m.usage = l.usage /\ m.stop = l.stop /\ m.state = "active"
<1> DEFINE m == [l EXCEPT !.expires = t]
<1>1. /\ m.state = l.state /\ m.key = l.key /\ m.usage = l.usage /\ m.settled = l.settled
      /\ m.over = l.over /\ m.result = l.result /\ m.stop = l.stop
  BY DEF Lease
<1>2. Within(l.usage, l.usage)
  BY WithinItself DEF Lease
<1> HIDE DEF m
<1>3. LeaseOK(m, c)
  BY <1>1 DEF LeaseOK
<1>4. Moves(l, m)
  BY <1>1, <1>2 DEF Moves
<1> QED
  BY <1>1, <1>3, <1>4 DEF m

(* acknowledge_stopped(): only the stop request. *)
LEMMA AcknowledgeLease ==
    ASSUME NEW l \in Lease, NEW c \in Contract, LeaseOK(l, c), l.stop
    PROVE  LET m == [l EXCEPT !.stop = FALSE]
           IN  /\ LeaseOK(m, c) /\ Moves(l, m) /\ m.usage = l.usage
               /\ m.state = l.state /\ m.settled = l.settled /\ l.state \in Stopping
<1> DEFINE m == [l EXCEPT !.stop = FALSE]
<1>0. l.state \in Stopping
  BY DEF LeaseOK, NoLease
<1>1. /\ m.state = l.state /\ m.key = l.key /\ m.usage = l.usage /\ m.settled = l.settled
      /\ m.over = l.over /\ m.result = l.result /\ m.stop = FALSE
  BY DEF Lease
<1>2. Within(l.usage, l.usage)
  BY WithinItself DEF Lease
<1> HIDE DEF m
<1>3. LeaseOK(m, c)
  BY <1>0, <1>1 DEF LeaseOK, Stopping
<1>4. Moves(l, m)
  BY <1>1, <1>2 DEF Moves
<1> QED
  BY <1>0, <1>1, <1>3, <1>4 DEF m

(* record_terminal_result(): only the result. *)
LEMMA TerminalResultLease ==
    ASSUME NEW l \in Lease, NEW c \in Contract, LeaseOK(l, c), l.state \in Controlled,
           l.result = None, NEW r
    PROVE  LET m == [l EXCEPT !.result = r]
           IN  /\ LeaseOK(m, c) /\ Moves(l, m) /\ m.usage = l.usage /\ m.stop = l.stop
               /\ m.state = l.state /\ m.settled = l.settled
<1> DEFINE m == [l EXCEPT !.result = r]
<1>1. /\ m.state = l.state /\ m.key = l.key /\ m.usage = l.usage /\ m.settled = l.settled
      /\ m.over = l.over /\ m.result = r /\ m.stop = l.stop
  BY DEF Lease
<1>2. Within(l.usage, l.usage)
  BY WithinItself DEF Lease
<1>3. l.state # "none" /\ l.state # "active" /\ l.state # "finished"
  BY DEF Controlled
<1> HIDE DEF m
<1>4. LeaseOK(m, c)
  BY <1>1, <1>3 DEF LeaseOK
<1>5. Moves(l, m)
  BY <1>1, <1>2 DEF Moves
<1> QED
  BY <1>1, <1>4, <1>5 DEF m

(* charge(): usage within the budget. *)
LEMMA ChargedLease ==
    ASSUME NEW l \in Lease, NEW c \in Contract, LeaseOK(l, c), l.state = "active",
           NEW u \in Usage, Within(Plus(l.usage, u), Budget[c])
    PROVE  LET m == [l EXCEPT !.usage = Plus(l.usage, u)]
           IN  /\ LeaseOK(m, c) /\ Moves(l, m) /\ m.usage = Plus(l.usage, u) /\ m.stop = l.stop
               /\ m.state = "active"
<1> DEFINE w == Plus(l.usage, u)
           m == [l EXCEPT !.usage = w]
<1>0. l.usage \in Usage /\ l.usage.wall \in Nat /\ l.usage.units \in Nat /\ u.wall \in Nat /\ u.units \in Nat
  BY DEF Lease, Usage
<1>1. w \in Usage /\ Within(l.usage, w)
  BY <1>0 DEF Plus, Usage, Within
<1>2. OverageDimensions(w, c) = {}
  BY <1>1, NoOverage
<1> HIDE DEF w
<1>3. /\ m.state = l.state /\ m.key = l.key /\ m.usage = w /\ m.settled = l.settled
      /\ m.over = l.over /\ m.result = l.result /\ m.stop = l.stop
  BY DEF Lease
<1> HIDE DEF m
<1>4. LeaseOK(m, c)
  BY <1>2, <1>3 DEF LeaseOK
<1>5. Moves(l, m)
  BY <1>1, <1>3 DEF Moves
<1> QED
  BY <1>3, <1>4, <1>5 DEF m, w

(* The usage a terminal observation leaves: at least both, and over where   *)
(* one of them was.                                                         *)
LEMMA ObservedUsage ==
    ASSUME NEW l \in Lease, NEW c \in Contract, NEW u \in Usage
    PROVE  LET m == Observing(l, c, u)
           IN  /\ m.usage = UsageMax(l.usage, u) /\ m.usage \in Usage
               /\ Within(l.usage, m.usage) /\ Within(u, m.usage)
               /\ m.over = OverageDimensions(m.usage, c)
               /\ OverageDimensions(l.usage, c) # {} => m.over # {}
               /\ m.state = l.state /\ m.key = l.key /\ m.settled = l.settled
               /\ m.result = l.result /\ m.stop = l.stop /\ m.reason = l.reason
<1> DEFINE w == UsageMax(l.usage, u)
           m == Observing(l, c, u)
<1>0. l.usage \in Usage /\ l.usage.wall \in Nat /\ l.usage.units \in Nat /\ u.wall \in Nat /\ u.units \in Nat
  BY DEF Lease, Usage
<1>1. w \in Usage /\ Within(l.usage, w) /\ Within(u, w)
  BY <1>0 DEF UsageMax, Larger, Usage, Within
<1>2. m = [l EXCEPT !.usage = w, !.over = OverageDimensions(w, c)]
  BY DEF Observing
<1> HIDE DEF w, m
<1>3. /\ m.usage = w /\ m.over = OverageDimensions(w, c)
      /\ m.state = l.state /\ m.key = l.key /\ m.settled = l.settled
      /\ m.result = l.result /\ m.stop = l.stop /\ m.reason = l.reason
  BY <1>2 DEF Lease
<1>4. OverageDimensions(l.usage, c) # {} => m.over # {}
  <2>1. Within(w, Budget[c]) => Within(l.usage, Budget[c])
    <3>1. w.wall \in Nat /\ w.units \in Nat /\ Budget[c].wall \in Nat /\ Budget[c].units \in Nat
      BY <1>1, BudgetAssumption DEF Usage
    <3> QED
      BY <1>0, <1>1, <3>1 DEF Within
  <2> QED
    BY <1>0, <1>1, <1>3, <2>1, NoOverage
<1> QED
  BY <1>1, <1>3, <1>4 DEF m, w

(* observe_terminal_usage() on an active lease within its budget... *)
LEMMA ObservedWithin ==
    ASSUME NEW l \in Lease, NEW c \in Contract, LeaseOK(l, c), l.state = "active", NEW u \in Usage,
           Observing(l, c, u).over = {}
    PROVE  LET m == Observing(l, c, u) IN LeaseOK(m, c) /\ Moves(l, m)
<1> DEFINE m == Observing(l, c, u)
<1>1. /\ Within(l.usage, m.usage)
      /\ m.over = OverageDimensions(m.usage, c)
      /\ m.state = l.state /\ m.key = l.key /\ m.settled = l.settled
      /\ m.result = l.result /\ m.stop = l.stop
  BY ObservedUsage
<1>2. m.over = {}
  OBVIOUS
<1> HIDE DEF m
<1>3. LeaseOK(m, c)
  BY <1>1, <1>2 DEF LeaseOK
<1>4. Moves(l, m)
  BY <1>1 DEF Moves
<1> QED
  BY <1>3, <1>4 DEF m

(* ... over its budget, which ends it... *)
LEMMA ObservedOver ==
    ASSUME NEW l \in Lease, NEW c \in Contract, LeaseOK(l, c), l.state = "active", NEW u \in Usage,
           Observing(l, c, u).over # {}
    PROVE  LET k == Observing(l, c, u)
               m == [k EXCEPT !.state = "over_budget", !.reason = "budget",
                              !.settled = CapUsage(k.usage, c)]
           IN  /\ LeaseOK(m, c) /\ Moves(l, m) /\ m.usage = k.usage /\ m.state = "over_budget"
               /\ m.settled = CapUsage(k.usage, c) /\ m.result = None
<1> DEFINE k == Observing(l, c, u)
           a == CapUsage(k.usage, c)
           m == [k EXCEPT !.state = "over_budget", !.reason = "budget", !.settled = a]
<1>1. /\ Within(l.usage, k.usage)
      /\ k.over = OverageDimensions(k.usage, c)
      /\ k.state = l.state /\ k.key = l.key /\ k.settled = l.settled
      /\ k.result = l.result /\ k.stop = l.stop
  BY ObservedUsage
<1>2. k.over # {} /\ k \in Lease
  BY ObservingType
<1>3. l.result = None /\ ~l.stop
  BY DEF LeaseOK
<1> HIDE DEF k, a
<1>4. /\ m.state = "over_budget" /\ m.key = k.key /\ m.usage = k.usage /\ m.settled = a
      /\ m.over = k.over /\ m.result = k.result /\ m.stop = k.stop
  BY <1>2 DEF Lease
<1> HIDE DEF m
<1>5. LeaseOK(m, c)
  BY <1>1, <1>2, <1>3, <1>4 DEF LeaseOK, a
<1>6. Moves(l, m)
  BY <1>1, <1>3, <1>4 DEF Moves
<1> QED
  BY <1>1, <1>3, <1>4, <1>5, <1>6 DEF m, k, a

(* ... and late, on a lease the controller ended. *)
LEMMA ObservedLate ==
    ASSUME NEW l \in Lease, NEW c \in Contract, LeaseOK(l, c), l.state \in Controlled, NEW u \in Usage
    PROVE  LET k == Observing(l, c, u)
               m == [k EXCEPT !.settled = CapUsage(k.usage, c)]
           IN  /\ LeaseOK(m, c) /\ Moves(l, m) /\ m.usage = k.usage /\ m.over = k.over
               /\ m.state = l.state /\ m.stop = l.stop /\ m.result = l.result
               /\ m.settled = CapUsage(k.usage, c) /\ m.reason = l.reason
<1> DEFINE k == Observing(l, c, u)
           a == CapUsage(k.usage, c)
           m == [k EXCEPT !.settled = a]
<1>1. /\ Within(l.usage, k.usage)
      /\ k.over = OverageDimensions(k.usage, c)
      /\ OverageDimensions(l.usage, c) # {} => k.over # {}
      /\ k.state = l.state /\ k.key = l.key
      /\ k.result = l.result /\ k.stop = l.stop /\ k.reason = l.reason
  BY ObservedUsage
<1>2. k \in Lease
  BY ObservingType
<1>3. l.state # "none" /\ l.state # "active" /\ l.state # "finished"
  BY DEF Controlled
<1>4. l.state = "over_budget" => OverageDimensions(l.usage, c) # {}
  BY <1>3 DEF LeaseOK
<1> HIDE DEF k, a
<1>5. /\ m.state = k.state /\ m.key = k.key /\ m.usage = k.usage /\ m.settled = a
      /\ m.over = k.over /\ m.result = k.result /\ m.stop = k.stop /\ m.reason = k.reason
  BY <1>2 DEF Lease
<1> HIDE DEF m
<1>6. LeaseOK(m, c)
  BY <1>1, <1>3, <1>4, <1>5 DEF LeaseOK, a
<1>7. Moves(l, m)
  BY <1>1, <1>3, <1>5 DEF Moves
<1> QED
  BY <1>1, <1>5, <1>6, <1>7 DEF m, k, a

(* complete(): the result, at the usage with the elapsed time. *)
LEMMA CompletedLease ==
    ASSUME NEW l \in Lease, NEW c \in Contract, LeaseOK(l, c), l.state = "active", now \in Nat,
           NEW r, r # None
    PROVE  LET m == [l EXCEPT !.state = "finished", !.result = r,
                              !.usage = FinalUsage(l, c), !.settled = FinalUsage(l, c)]
           IN  /\ LeaseOK(m, c) /\ Moves(l, m) /\ m.usage.units = l.usage.units
               /\ m.state = "finished" /\ m.settled = FinalUsage(l, c) /\ m.usage = FinalUsage(l, c)
<1> DEFINE w == FinalUsage(l, c)
           m == [l EXCEPT !.state = "finished", !.result = r, !.usage = w, !.settled = w]
<1>1. /\ Within(l.usage, Budget[c]) /\ l.result = None /\ l.over = {} /\ ~l.stop
  BY ActiveWithin
<1>2. /\ w \in Usage /\ w.units = l.usage.units /\ Within(w, Budget[c]) /\ Within(l.usage, w)
  BY <1>1, Finalising
<1>3. OverageDimensions(w, c) = {} /\ CapUsage(w, c) = w
  BY <1>2, NoOverage, Capping
<1> HIDE DEF w
<1>4. /\ m.state = "finished" /\ m.key = l.key /\ m.usage = w /\ m.settled = w
      /\ m.over = l.over /\ m.result = r /\ m.stop = l.stop
  BY DEF Lease
<1> HIDE DEF m
<1>5. LeaseOK(m, c)
  BY <1>1, <1>3, <1>4 DEF LeaseOK
<1>6. Moves(l, m)
  BY <1>1, <1>2, <1>4 DEF Moves
<1> QED
  BY <1>2, <1>4, <1>5, <1>6 DEF m, w

-----------------------------------------------------------------------------
(* The invariant of any team. *)

Good(ls, reg, ins, keys, dl, ob, rs, auth, used) ==
    /\ LeasesOK(ls)
    /\ Keyed(ls, reg, keys)
    /\ Counted(ls, dl, ob)
    /\ Phased(ls, reg, ins, rs, auth, used)

MemoryGood ==
    Good(leases, registered, inputs, byKey, deliveries, observed, receipts, authorized, consumed)

DiskGood == disk # None =>
    Good(disk.leases, disk.registered, disk.inputs, disk.byKey, disk.deliveries,
         disk.observed, disk.receipts, disk.authorized, disk.consumed)

GoodInv == Inv /\ MemoryGood /\ DiskGood

(* Leases that move by themselves keep it. *)
LEMMA GoodMoved ==
    ASSUME NEW ls, NEW ms, Moved(ls, ms), SameUnits(ls, ms), LeasesOK(ms),
           NEW reg, NEW ins \in [Contract -> SUBSET Contract], NEW keys, NEW dl, NEW ob,
           NEW rs, NEW auth, NEW used,
           Good(ls, reg, ins, keys, dl, ob, rs, auth, used)
    PROVE  Good(ms, reg, ins, keys, dl, ob, rs, auth, used)
<1>1. Keyed(ms, reg, keys)
  BY KeyedMoved DEF Good
<1>2. Counted(ms, dl, ob)
  BY CountedMoved DEF Good
<1>3. Phased(ms, reg, ins, rs, auth, used)
  BY PhasedMoved DEF Good
<1> QED
  BY <1>1, <1>2, <1>3 DEF Good

(* The memory with its overdue leases expired satisfies it. *)
LEMMA GoodExpired ==
    ASSUME NEW ls \in Leases, NEW led, now \in Nat,
           NEW reg, NEW ins \in [Contract -> SUBSET Contract], NEW keys, NEW dl, NEW ob,
           NEW rs, NEW auth, NEW used,
           Good(ls, reg, ins, keys, dl, ob, rs, auth, used)
    PROVE  Good(AfterExpiry(ls, led).leases, reg, ins, keys, dl, ob, rs, auth, used)
<1> DEFINE ms == AfterExpiry(ls, led).leases
<1>1. LeasesOK(ls)
  BY DEF Good
<1>2. LeasesOK(ms) /\ Moved(ls, ms) /\ SameUnits(ls, ms)
  BY <1>1, ExpiryLeases
<1> HIDE DEF ms
<1>3. Good(ms, reg, ins, keys, dl, ob, rs, auth, used)
  BY <1>2, GoodMoved
<1> QED
  BY <1>3 DEF ms

(* A step that touches only the leases, the ledger and the flags. *)
LEMMA GoodByLeases ==
    ASSUME GoodInv, LeasesOK(leases'), Moved(leases, leases'), SameUnits(leases, leases'),
           UNCHANGED <<registered, inputs, byKey, deliveries, observed, receipts,
                       authorized, consumed>>
    PROVE  MemoryGood'
<1>1. inputs \in [Contract -> SUBSET Contract]
  BY DEF GoodInv, Inv, TypeOK, MemoryOK
<1>2. Good(leases', registered, inputs, byKey, deliveries, observed, receipts, authorized, consumed)
  BY <1>1, GoodMoved DEF GoodInv, MemoryGood
<1> QED
  BY <1>2 DEF MemoryGood

(* The empty scheduler. *)
LEMMA GoodInit == Init => GoodInv
<1> SUFFICES ASSUME Init PROVE GoodInv
  OBVIOUS
<1>1. \A c \in Contract : leases[c] = NoLease /\ leases[c].state = "none"
  BY DEF Init, NoLease
<1>2. LeasesOK(leases) /\ Held(leases) = {}
  BY <1>1 DEF LeasesOK, LeaseOK, Held
<1>3. Keyed(leases, registered, byKey)
  BY <1>2 DEF Keyed
<1>4. Counted(leases, deliveries, observed)
  <2>1. {i \in DeliveryId : deliveries[i] # None} = {}
    BY DEF Init
  <2> QED
    BY <1>2, <2>1, FS_EmptySet DEF Init, Counted
<1>5. Phased(leases, registered, inputs, receipts, authorized, consumed)
  BY <1>1, <1>2 DEF Init, Phased
<1>6. DiskGood
  BY DEF Init, DiskGood
<1> QED
  BY <1>2, <1>3, <1>4, <1>5, <1>6, InitInv DEF GoodInv, MemoryGood, Good

(* register(): no lease, receipt or authorization names the new contract. *)
LEMMA GoodRegister ==
    ASSUME GoodInv, NEW c \in Contract, NEW ins \in SUBSET Contract, Register(c, ins)
    PROVE  MemoryGood'
<1>0. /\ inputs \in [Contract -> SUBSET Contract]
      /\ LeasesOK(leases) /\ Keyed(leases, registered, byKey) /\ Counted(leases, deliveries, observed)
      /\ Phased(leases, registered, inputs, receipts, authorized, consumed)
  BY DEF GoodInv, MemoryGood, Good, Inv, TypeOK, MemoryOK
<1>1. /\ c \notin registered /\ registered' = registered \cup {c}
      /\ inputs' = [inputs EXCEPT ![c] = ins] /\ \A d \in ins : receipts[d] # None
      /\ UNCHANGED <<leases, byKey, deliveries, observed, receipts, authorized, consumed>>
  BY DEF Register
<1>2. /\ inputs'[c] = ins /\ \A d \in Contract : d # c => inputs'[d] = inputs[d]
      /\ leases[c].state = "none" /\ c \notin authorized /\ c \notin Held(leases)
  BY <1>0, <1>1 DEF Phased, Held
<1>3. Keyed(leases, registered', byKey)
  BY <1>0, <1>1 DEF Keyed
<1>4. Phased(leases, registered', inputs', receipts, authorized, consumed)
  <2>1. \A d \in Contract : d \notin registered' => inputs'[d] = {} /\ leases[d].state = "none"
    BY <1>0, <1>1, <1>2 DEF Phased
  <2>2. \A d \in Contract : \A e \in inputs'[d] : receipts[e] # None
    BY <1>0, <1>1, <1>2 DEF Phased
  <2>3. \A d \in Contract : receipts[d] # None =>
            /\ leases[d].state = "finished" /\ leases[d].result # None
            /\ receipts[d] = OutputCommit(leases, receipts, inputs', d)
    <3> SUFFICES ASSUME NEW d \in Contract, receipts[d] # None
                 PROVE  /\ leases[d].state = "finished" /\ leases[d].result # None
                        /\ receipts[d] = OutputCommit(leases, receipts, inputs', d)
      OBVIOUS
    <3>1. /\ leases[d].state = "finished" /\ leases[d].result # None
          /\ receipts[d] = OutputCommit(leases, receipts, inputs, d)
      BY <1>0 DEF Phased
    <3>2. inputs'[d] = inputs[d]
      BY <1>2, <3>1
    <3> QED
      BY <3>1, <3>2 DEF OutputCommit
  <2>4. \A d \in authorized : d \in registered' /\ Cardinality(Commits(receipts, inputs'[d])) = 1
    <3> TAKE d \in authorized
    <3>1. d \in Contract /\ d # c
      BY <1>2 DEF GoodInv, Inv, TypeOK, MemoryOK
    <3> QED
      BY <1>0, <1>1, <1>2, <3>1 DEF Phased
  <2>5. \A d \in Held(leases) : Pred[d] # {} =>
            /\ d \in consumed /\ inputs'[d] = Pred[d]
            /\ \A e \in Pred[d] : leases[e].result.disposition = "completed"
    <3> TAKE d \in Held(leases)
    <3>1. d \in Contract /\ d # c
      BY <1>2 DEF Held
    <3> QED
      BY <1>0, <1>2, <3>1 DEF Phased
  <2> QED
    BY <1>0, <2>1, <2>2, <2>3, <2>4, <2>5 DEF Phased
<1> QED
  BY <1>0, <1>1, <1>3, <1>4 DEF MemoryGood, Good

(* record_phase_receipt(): nobody's inputs name the new receipt yet. *)
LEMMA GoodReceipt ==
    ASSUME GoodInv, NEW c \in Contract, RecordPhaseReceipt(c)
    PROVE  MemoryGood'
<1>0. /\ inputs \in [Contract -> SUBSET Contract] /\ receipts \in [Contract -> Commit \cup {None}]
      /\ LeasesOK(leases) /\ Keyed(leases, registered, byKey) /\ Counted(leases, deliveries, observed)
      /\ Phased(leases, registered, inputs, receipts, authorized, consumed)
  BY DEF GoodInv, MemoryGood, Good, Inv, TypeOK, MemoryOK
<1> DEFINE out == OutputCommit(leases, receipts, inputs, c)
<1>1. /\ leases[c].state = "finished" /\ leases[c].result # None /\ receipts[c] = None
      /\ receipts' = [receipts EXCEPT ![c] = out]
      /\ UNCHANGED <<registered, inputs, leases, byKey, deliveries, observed, authorized, consumed>>
  BY DEF RecordPhaseReceipt
<1> HIDE DEF out
<1>2. receipts'[c] = out /\ \A d \in Contract : d # c => receipts'[d] = receipts[d]
  BY <1>0, <1>1
<1>3. \A d \in Contract : c \notin inputs[d]
  BY <1>0, <1>1 DEF Phased
<1>4. \A d \in Contract : Commits(receipts', inputs[d]) = Commits(receipts, inputs[d])
  <2> TAKE d \in Contract
  <2>1. \A e \in inputs[d] : receipts'[e] = receipts[e]
    BY <1>0, <1>2, <1>3
  <2> QED
    BY <2>1 DEF Commits
<1>5. \A d \in Contract : OutputCommit(leases, receipts', inputs, d) = OutputCommit(leases, receipts, inputs, d)
  <2> TAKE d \in Contract
  <2> DEFINE K == Commits(receipts', inputs[d])
             L == Commits(receipts, inputs[d])
  <2>1. K = L
    BY <1>4
  <2> HIDE DEF K, L
  <2>2. (CHOOSE k \in K : TRUE) = (CHOOSE k \in L : TRUE)
    BY <2>1
  <2> DEFINE Out(k) == IF leases[d].result.commit # None THEN leases[d].result.commit
                       ELSE IF inputs[d] = {} THEN Base ELSE k
  <2>3. OutputCommit(leases, receipts', inputs, d) = Out(CHOOSE k \in K : TRUE)
    BY Zenon DEF OutputCommit, K
  <2>4. OutputCommit(leases, receipts, inputs, d) = Out(CHOOSE k \in L : TRUE)
    BY Zenon DEF OutputCommit, L
  <2> HIDE DEF Out
  <2> QED
    BY <2>2, <2>3, <2>4, Zenon
<1>6. Phased(leases, registered, inputs, receipts', authorized, consumed)
  <2>1. \A d \in Contract : \A e \in inputs[d] : receipts'[e] # None
    <3> TAKE d \in Contract
    <3> TAKE e \in inputs[d]
    <3>1. e \in Contract /\ e # c /\ receipts[e] # None
      BY <1>0, <1>3 DEF Phased
    <3> QED
      BY <1>2, <3>1
  <2>2. \A d \in Contract : receipts'[d] # None =>
            /\ leases[d].state = "finished" /\ leases[d].result # None
            /\ receipts'[d] = OutputCommit(leases, receipts', inputs, d)
    <3> TAKE d \in Contract
    <3>1. CASE d = c
      BY <1>1, <1>2, <1>5, <3>1 DEF out
    <3>2. CASE d # c
      BY <1>0, <1>2, <1>5, <3>2 DEF Phased
    <3> QED
      BY <3>1, <3>2
  <2>3. \A d \in authorized : d \in registered /\ Cardinality(Commits(receipts', inputs[d])) = 1
    BY <1>0, <1>4 DEF Phased, GoodInv, Inv, TypeOK, MemoryOK
  <2> QED
    BY <1>0, <2>1, <2>2, <2>3 DEF Phased
<1> QED
  BY <1>0, <1>1, <1>6 DEF MemoryGood, Good

(* issue_phase_authorization(): for inputs on one commit. *)
LEMMA GoodAuthorization ==
    ASSUME GoodInv, NEW c \in Contract, IssuePhaseAuthorization(c)
    PROVE  MemoryGood'
<1>0. /\ LeasesOK(leases) /\ Keyed(leases, registered, byKey) /\ Counted(leases, deliveries, observed)
      /\ Phased(leases, registered, inputs, receipts, authorized, consumed)
  BY DEF GoodInv, MemoryGood, Good
<1>1. /\ c \in registered /\ Cardinality(Commits(receipts, inputs[c])) = 1
      /\ authorized' = authorized \cup {c}
      /\ UNCHANGED <<registered, inputs, leases, byKey, deliveries, observed, receipts, consumed>>
  BY DEF IssuePhaseAuthorization
<1>2. Phased(leases, registered, inputs, receipts, authorized', consumed)
  BY <1>0, <1>1 DEF Phased
<1> QED
  BY <1>0, <1>1, <1>2 DEF MemoryGood, Good

(* A fresh lease agrees with itself. *)
LEMMA NewLeaseOK ==
    ASSUME NEW c \in Contract, NEW k
    PROVE  /\ LeaseOK(NewLease(c, k), c)
           /\ NewLease(c, k).state = "active" /\ NewLease(c, k).key = k
           /\ NewLease(c, k).usage = ZeroUsage /\ ZeroUsage.units = 0 /\ ZeroUsage.wall = 0
           /\ NewLease(c, k).result = None /\ ~NewLease(c, k).stop /\ NewLease(c, k).settled = None
<1>1. ZeroUsage \in Usage /\ Within(ZeroUsage, Budget[c]) /\ ZeroUsage.units = 0 /\ ZeroUsage.wall = 0
  BY BudgetAssumption DEF ZeroUsage, Usage, Within
<1>2. OverageDimensions(ZeroUsage, c) = {}
  BY <1>1, NoOverage
<1> DEFINE m == NewLease(c, k)
<1>3. /\ m.state = "active" /\ m.key = k /\ m.usage = ZeroUsage /\ m.settled = None
      /\ m.over = {} /\ m.result = None /\ m.stop = FALSE
  BY DEF NewLease, NoLease
<1> HIDE DEF m
<1>4. LeaseOK(m, c)
  BY <1>2, <1>3 DEF LeaseOK
<1> QED
  BY <1>1, <1>3, <1>4 DEF m

(* admit(): the new lease has no usage, owns its key and, in a later phase, *)
(* consumes its authorization.                                              *)
LEMMA GoodAdmit ==
    ASSUME GoodInv, NEW c \in Contract, NEW k \in Key, AdmitGranted(c, k)
    PROVE  MemoryGood'
<1> DEFINE vl == AfterExpiry(leases, ledger).leases
           m == NewLease(c, k)
<1>0. /\ leases \in Leases /\ now \in Nat /\ inputs \in [Contract -> SUBSET Contract]
      /\ byKey \in [Key -> Contract \cup {None}]
      /\ deliveries \in [DeliveryId -> [lease : Contract, usage : Usage] \cup {None}]
      /\ consumed \subseteq Contract /\ ledger \in Ledger /\ LedgerBound(ledger)
  BY DEF GoodInv, Inv, TypeOK, MemoryOK, Leases, LedgerWithinTeam
<1>v. Good(vl, registered, inputs, byKey, deliveries, observed, receipts, authorized, consumed)
  BY <1>0, GoodExpired DEF GoodInv, MemoryGood
<1>t. vl \in Leases
  BY <1>0, AfterExpiryKeeps
<1>1. /\ c \in registered /\ byKey[k] = None /\ vl[c].state = "none"
      /\ AdmissionAuthorized(vl, c)
      /\ leases' = [vl EXCEPT ![c] = m]
      /\ byKey' = [byKey EXCEPT ![k] = c]
      /\ consumed' = IF Pred[c] = {} THEN consumed ELSE consumed \cup {c}
      /\ UNCHANGED <<registered, inputs, deliveries, observed, receipts, authorized>>
  BY DEF AdmitGranted, Admissible
<1>2. /\ LeaseOK(m, c) /\ m.state = "active" /\ m.key = k /\ m.usage.units = 0
  BY NewLeaseOK
<1> HIDE DEF vl, m
<1>3. leases'[c] = m /\ \A d \in Contract : d # c => leases'[d] = vl[d]
  BY <1>1, <1>t DEF Leases
<1>4. /\ LeasesOK(vl) /\ Keyed(vl, registered, byKey) /\ Counted(vl, deliveries, observed)
      /\ Phased(vl, registered, inputs, receipts, authorized, consumed)
  BY <1>v DEF Good
<1>5. Held(leases') = Held(vl) \cup {c} /\ c \notin Held(vl) /\ Held(vl) \subseteq Contract
  BY <1>1, <1>2, <1>3 DEF Held
<1>6. LeasesOK(leases')
  BY <1>2, <1>3, <1>4 DEF LeasesOK
<1>7. Keyed(leases', registered, byKey')
  <2> SUFFICES ASSUME NEW d \in Held(leases')
               PROVE  d \in registered /\ leases'[d].key \in Key /\ byKey'[leases'[d].key] = d
    BY DEF Keyed
  <2>1. CASE d = c
    BY <1>0, <1>1, <1>2, <1>3, <2>1
  <2>2. CASE d # c
    <3>1. d \in Held(vl) /\ leases'[d] = vl[d] /\ d \in Contract
      BY <1>3, <1>5, <2>2
    <3>2. d \in registered /\ vl[d].key \in Key /\ byKey[vl[d].key] = d
      BY <1>4, <3>1 DEF Keyed
    <3>3. vl[d].key # k
      BY <1>1, <3>1, <3>2, NoneAssumption
    <3> QED
      BY <1>0, <1>1, <3>1, <3>2, <3>3
  <2> QED
    BY <2>1, <2>2
<1>8. Counted(leases', deliveries, observed)
  <2>1. AcceptedFor(deliveries, c) = {} /\ observed[c] = None
    BY <1>4, <1>5 DEF Counted, AcceptedFor
  <2>2. UnitsTo(deliveries, c) = 0
    BY <1>0, <1>4, <2>1, DeliveredType DEF Counted
  <2>3. \A d \in Held(leases') : observed[d] = None => leases'[d].usage.units = UnitsTo(deliveries, d)
    BY <1>2, <1>3, <1>4, <1>5, <2>2 DEF Counted
  <2> QED
    BY <1>4, <1>5, <2>3 DEF Counted
<1>9. Phased(leases', registered, inputs, receipts, authorized, consumed')
  <2>1. \A d \in Contract : receipts[d] # None => d # c /\ leases'[d] = vl[d]
    BY <1>1, <1>3, <1>4 DEF Phased
  <2>2. \A d \in Contract : d \notin registered => inputs[d] = {} /\ leases'[d].state = "none"
    BY <1>1, <1>3, <1>4 DEF Phased
  <2>3. \A d \in Contract : receipts[d] # None =>
            /\ leases'[d].state = "finished" /\ leases'[d].result # None
            /\ receipts[d] = OutputCommit(leases', receipts, inputs, d)
    <3> SUFFICES ASSUME NEW d \in Contract, receipts[d] # None
                 PROVE  /\ leases'[d].state = "finished" /\ leases'[d].result # None
                        /\ receipts[d] = OutputCommit(leases', receipts, inputs, d)
      OBVIOUS
    <3>1. /\ vl[d].state = "finished" /\ vl[d].result # None
          /\ receipts[d] = OutputCommit(vl, receipts, inputs, d)
      BY <1>4 DEF Phased
    <3> QED
      BY <2>1, <3>1 DEF OutputCommit
  <2>4. \A d \in consumed' : d \in authorized /\ d \in Held(leases')
    BY <1>1, <1>4, <1>5 DEF Phased, AdmissionAuthorized
  <2>5. \A d \in Held(leases') : Pred[d] # {} =>
            /\ d \in consumed' /\ inputs[d] = Pred[d]
            /\ \A e \in Pred[d] : leases'[e].result.disposition = "completed"
    <3> SUFFICES ASSUME NEW d \in Held(leases'), Pred[d] # {}
                 PROVE  /\ d \in consumed' /\ inputs[d] = Pred[d]
                        /\ \A e \in Pred[d] : leases'[e].result.disposition = "completed"
      OBVIOUS
    <3>1. d \in consumed' /\ inputs[d] = Pred[d]
          /\ \A e \in Pred[d] : vl[e].result.disposition = "completed"
      BY <1>1, <1>4, <1>5 DEF Phased, AdmissionAuthorized
    <3>2. \A e \in Pred[d] : e \in Contract /\ receipts[e] # None
      BY <1>0, <1>4, <1>5, <3>1 DEF Phased
    <3> QED
      BY <2>1, <3>1, <3>2
  <2> QED
    BY <1>4, <2>2, <2>3, <2>4, <2>5 DEF Phased
<1> QED
  BY <1>1, <1>6, <1>7, <1>8, <1>9 DEF MemoryGood, Good

(* charge(): the accepted delivery and the usage grow by the same units. *)
LEMMA GoodCharge ==
    ASSUME GoodInv, NEW c \in Contract, NEW i \in DeliveryId, NEW u \in Deltas, ChargeAccepted(c, i, u)
    PROVE  MemoryGood'
<1> DEFINE vl == AfterExpiry(leases, ledger).leases
           m == [vl[c] EXCEPT !.usage = Plus(vl[c].usage, u)]
<1>0. /\ leases \in Leases /\ now \in Nat /\ inputs \in [Contract -> SUBSET Contract]
      /\ deliveries \in [DeliveryId -> [lease : Contract, usage : Usage] \cup {None}]
      /\ ledger \in Ledger /\ LedgerBound(ledger) /\ u \in Usage
  BY ControlAssumption DEF GoodInv, Inv, TypeOK, MemoryOK, Leases, LedgerWithinTeam
<1>v. Good(vl, registered, inputs, byKey, deliveries, observed, receipts, authorized, consumed)
  BY <1>0, GoodExpired DEF GoodInv, MemoryGood
<1>t. vl \in Leases
  BY <1>0, AfterExpiryKeeps
<1>1. /\ vl[c].state = "active" /\ deliveries[i] = None
      /\ Within(Plus(vl[c].usage, u), Budget[c])
      /\ leases' = [vl EXCEPT ![c].usage = Plus(@, u)]
      /\ deliveries' = [deliveries EXCEPT ![i] = [lease |-> c, usage |-> u]]
      /\ UNCHANGED <<registered, inputs, byKey, observed, receipts, authorized, consumed>>
  BY DEF ChargeAccepted, Live
<1> HIDE DEF vl
<1>2. vl[c] \in Lease /\ LeaseOK(vl[c], c)
  BY <1>t, <1>v DEF Leases, Good, LeasesOK
<1>3. LeaseOK(m, c) /\ Moves(vl[c], m) /\ m.usage = Plus(vl[c].usage, u)
  BY <1>0, <1>1, <1>2, ChargedLease
<1>4. leases' = [vl EXCEPT ![c] = m]
  BY <1>1
<1> HIDE DEF m
<1>5. LeasesOK(leases') /\ Moved(vl, leases')
  BY <1>1, <1>3, <1>4, <1>t, <1>v, OneMoves DEF Good
<1>6. Keyed(leases', registered, byKey) /\ Held(leases') = Held(vl)
  BY <1>5, <1>v, KeyedMoved DEF Good
<1>7. Phased(leases', registered, inputs, receipts, authorized, consumed)
  BY <1>0, <1>5, <1>v, PhasedMoved DEF Good
<1>8. Counted(leases', deliveries', observed)
  <2>1. Counted(vl, deliveries, observed)
    BY <1>v DEF Good
  <2>2. leases'[c] = m /\ \A d \in Contract : d # c => leases'[d] = vl[d]
    BY <1>4, <1>t DEF Leases
  <2>3. m.usage.units = vl[c].usage.units + u.units
    BY <1>3 DEF Plus
  <2>4. /\ IsFiniteSet({j \in DeliveryId : deliveries'[j] # None})
        /\ UnitsTo(deliveries', c) = UnitsTo(deliveries, c) + u.units
        /\ \A d \in Contract : d # c => UnitsTo(deliveries', d) = UnitsTo(deliveries, d)
    <3>1. IsFiniteSet({j \in DeliveryId : deliveries[j] # None})
      BY <2>1 DEF Counted
    <3>2. deliveries' = Delivering(deliveries, i, c, u) /\ deliveries[i] = None
      BY <1>1 DEF Delivering
    <3>3. LET em == Delivering(deliveries, i, c, u)
          IN  /\ IsFiniteSet({j \in DeliveryId : em[j] # None})
              /\ UnitsTo(em, c) = UnitsTo(deliveries, c) + u.units
              /\ WallTo(em, c) = WallTo(deliveries, c) + u.wall
              /\ \A d \in Contract : d # c =>
                     UnitsTo(em, d) = UnitsTo(deliveries, d) /\ WallTo(em, d) = WallTo(deliveries, d)
      BY <1>0, <3>1, <3>2, DeliveryAdds
    <3> QED
      BY <3>2, <3>3
  <2>5. c \in Held(vl) /\ Held(vl) \subseteq Contract
    BY <1>1 DEF Held
  <2>6. \A j \in DeliveryId : deliveries'[j] # None => deliveries'[j].lease \in Held(vl)
    BY <1>0, <1>1, <2>1, <2>5 DEF Counted
  <2>7. \A d \in Held(vl) : observed[d] = None => leases'[d].usage.units = UnitsTo(deliveries', d)
    BY <2>1, <2>2, <2>3, <2>4, <2>5 DEF Counted
  <2> QED
    BY <1>6, <2>1, <2>4, <2>6, <2>7 DEF Counted
<1> QED
  BY <1>1, <1>5, <1>6, <1>7, <1>8 DEF MemoryGood, Good

(* observe_terminal_usage(): what it does to the one lease. *)
LEMMA ObserveLease ==
    ASSUME Inv, LeasesOK(leases), NEW c \in Contract, NEW u \in Reports, ObserveTerminalUsage(c, u)
    PROVE  /\ LeasesOK(leases')
           /\ Moved(leases, leases')
           /\ leases[c].state # "none"
           /\ leases'[c].stop = leases[c].stop
           /\ leases'[c].usage = UsageMax(leases[c].usage, u)
           /\ leases'[c].result = leases[c].result
           /\ \A d \in Contract : d # c => leases'[d] = leases[d]
<1> DEFINE l == leases[c]
           k == Observing(l, c, u)
<1>0. leases \in Leases /\ l \in Lease /\ LeaseOK(l, c) /\ u \in Usage
  BY ControlAssumption DEF Inv, TypeOK, MemoryOK, Leases, LeasesOK
<1>1. k.usage = UsageMax(l.usage, u) /\ k.stop = l.stop /\ k.result = l.result /\ k \in Lease
  BY <1>0, ObservedUsage, ObservingType
<1>2. PICK m : /\ leases' = [leases EXCEPT ![c] = m] /\ LeaseOK(m, c) /\ Moves(l, m)
               /\ l.state # "none" /\ m.usage = k.usage /\ m.stop = l.stop /\ m.result = l.result
  <2>1. CASE ObserveWithinBudget(c, u)
    <3>1. l.state = "active" /\ k.over = {} /\ leases' = [leases EXCEPT ![c] = k]
      BY <2>1 DEF ObserveWithinBudget
    <3>2. LeaseOK(k, c) /\ Moves(l, k)
      BY <1>0, <3>1, ObservedWithin
    <3> HIDE DEF k
    <3> QED
      BY <1>1, <3>1, <3>2
  <2>2. CASE ObserveOverage(c, u)
    <3> DEFINE m == [k EXCEPT !.state = "over_budget", !.reason = "budget", !.settled = CapUsage(k.usage, c)]
    <3>1. l.state = "active" /\ k.over # {} /\ leases' = [leases EXCEPT ![c] = m]
      BY <2>2 DEF ObserveOverage
    <3>2. LeaseOK(m, c) /\ Moves(l, m) /\ m.usage = k.usage /\ m.result = None
      BY <1>0, <3>1, ObservedOver
    <3>3. l.result = None
      BY <1>0, <3>1, ActiveWithin
    <3>4. m.stop = l.stop
      BY <1>1 DEF Lease
    <3> HIDE DEF k, m
    <3> QED
      BY <1>1, <3>1, <3>2, <3>3, <3>4
  <2>3. CASE ObserveLate(c, u)
    <3> DEFINE m == [k EXCEPT !.settled = CapUsage(k.usage, c)]
    <3>1. l.state \in Controlled /\ leases' = [leases EXCEPT ![c] = m]
      BY <2>3 DEF ObserveLate
    <3>2. LeaseOK(m, c) /\ Moves(l, m) /\ m.usage = k.usage /\ m.stop = l.stop /\ m.result = l.result
      BY <1>0, <3>1, ObservedLate
    <3>3. l.state # "none"
      BY <3>1 DEF Controlled
    <3> HIDE DEF k, m
    <3> QED
      BY <3>1, <3>2, <3>3
  <2> QED
    BY <2>1, <2>2, <2>3 DEF ObserveTerminalUsage
<1> HIDE DEF k
<1>3. leases'[c] = m /\ \A d \in Contract : d # c => leases'[d] = leases[d]
  BY <1>0, <1>2 DEF Leases
<1>4. LeasesOK(leases') /\ Moved(leases, leases')
  BY <1>0, <1>2, OneMoves
<1> QED
  BY <1>1, <1>2, <1>3, <1>4

(* ... and to the invariant: the observed lease no longer counts only its   *)
(* deliveries.                                                              *)
LEMMA GoodObserve ==
    ASSUME GoodInv, NEW c \in Contract, NEW u \in Reports, ObserveTerminalUsage(c, u)
    PROVE  MemoryGood'
<1>0. /\ inputs \in [Contract -> SUBSET Contract] /\ observed \in [Contract -> Usage \cup {None}]
      /\ LeasesOK(leases) /\ Keyed(leases, registered, byKey) /\ Counted(leases, deliveries, observed)
      /\ Phased(leases, registered, inputs, receipts, authorized, consumed)
      /\ u \in Usage /\ u # None
  BY ControlAssumption DEF GoodInv, MemoryGood, Good, Inv, TypeOK, MemoryOK
<1>1. /\ observed' = [observed EXCEPT ![c] = u]
      /\ UNCHANGED <<registered, inputs, byKey, deliveries, receipts, authorized, consumed>>
  BY DEF ObserveTerminalUsage
<1>2. /\ LeasesOK(leases') /\ Moved(leases, leases') /\ leases[c].state # "none"
      /\ \A d \in Contract : d # c => leases'[d] = leases[d]
  BY <1>0, ObserveLease DEF GoodInv
<1>3. Keyed(leases', registered, byKey) /\ Held(leases') = Held(leases)
  BY <1>0, <1>2, KeyedMoved
<1>4. Phased(leases', registered, inputs, receipts, authorized, consumed)
  BY <1>0, <1>2, PhasedMoved
<1>5. Counted(leases', deliveries, observed')
  <2>1. observed'[c] = u /\ \A d \in Contract : d # c => observed'[d] = observed[d]
    BY <1>0, <1>1
  <2>2. c \in Held(leases) /\ Held(leases) \subseteq Contract
    BY <1>2 DEF Held
  <2> QED
    BY <1>0, <1>2, <1>3, <2>1, <2>2 DEF Counted
<1> QED
  BY <1>1, <1>2, <1>3, <1>4, <1>5 DEF MemoryGood, Good

(* The leases move, and no stop request is lost. *)
Advance == /\ LeasesOK(leases') /\ Moved(leases, leases') /\ SameUnits(leases, leases')
           /\ \A c \in Contract : leases[c].stop => leases'[c].stop

(* heartbeat() moves its lease and loses no stop request. *)
LEMMA HeartbeatAdvances ==
    ASSUME Inv, LeasesOK(leases), NEW c \in Contract, Heartbeat(c)
    PROVE  Advance
<1> DEFINE t == Smaller(now + LeaseTtl, leases[c].deadline)
           m == [leases[c] EXCEPT !.expires = t]
<1>0. leases \in Leases /\ leases[c] \in Lease /\ LeaseOK(leases[c], c)
  BY DEF Inv, TypeOK, MemoryOK, Leases, LeasesOK
<1>1. leases[c].state = "active" /\ leases' = [leases EXCEPT ![c].expires = t]
  BY DEF Heartbeat, Live
<1> HIDE DEF t
<1>2. leases' = [leases EXCEPT ![c] = m] /\ leases[c].state # "none"
  BY <1>0, <1>1 DEF Leases, Lease
<1>3. LeaseOK(m, c) /\ Moves(leases[c], m) /\ m.usage = leases[c].usage /\ m.stop = leases[c].stop
  BY <1>0, <1>1, HeartbeatLease
<1> HIDE DEF m
<1>4. LeasesOK(leases') /\ Moved(leases, leases') /\ SameUnits(leases, leases')
  BY <1>0, <1>2, <1>3, OneMoves
<1>5. \A d \in Contract : leases[d].stop => leases'[d].stop
  BY <1>0, <1>2, <1>3 DEF Leases
<1> QED
  BY <1>4, <1>5 DEF Advance

(* ... record_terminal_result() too. *)
LEMMA TerminalResultAdvances ==
    ASSUME Inv, LeasesOK(leases), NEW c \in Contract, NEW b, RecordTerminalResult(c, b)
    PROVE  Advance
<1> DEFINE r == [disposition |-> "failed", commit |-> None, budget |-> b, reason |-> leases[c].reason]
           m == [leases[c] EXCEPT !.result = r]
<1>0. leases \in Leases /\ leases[c] \in Lease /\ LeaseOK(leases[c], c)
  BY DEF Inv, TypeOK, MemoryOK, Leases, LeasesOK
<1>1. /\ leases[c].state \in Controlled /\ leases[c].result = None
      /\ leases' = [leases EXCEPT ![c].result = r]
  BY DEF RecordTerminalResult
<1> HIDE DEF r
<1>2. leases' = [leases EXCEPT ![c] = m] /\ leases[c].state # "none"
  BY <1>0, <1>1 DEF Leases, Lease, Controlled
<1>3. LeaseOK(m, c) /\ Moves(leases[c], m) /\ m.usage = leases[c].usage /\ m.stop = leases[c].stop
  BY <1>0, <1>1, TerminalResultLease
<1> HIDE DEF m
<1>4. LeasesOK(leases') /\ Moved(leases, leases') /\ SameUnits(leases, leases')
  BY <1>0, <1>2, <1>3, OneMoves
<1>5. \A d \in Contract : leases[d].stop => leases'[d].stop
  BY <1>0, <1>2, <1>3 DEF Leases
<1> QED
  BY <1>4, <1>5 DEF Advance

(* acknowledge_stopped() moves its lease and leaves the others alone. *)
LEMMA AcknowledgeMoves ==
    ASSUME Inv, LeasesOK(leases), NEW c \in Contract, AcknowledgeStopped(c)
    PROVE  /\ LeasesOK(leases') /\ Moved(leases, leases') /\ SameUnits(leases, leases')
           /\ \A d \in Contract : d # c => leases'[d] = leases[d]
           /\ leases'[c].state = leases[c].state /\ leases'[c].settled = leases[c].settled
<1> DEFINE m == [leases[c] EXCEPT !.stop = FALSE]
<1>0. leases \in Leases /\ leases[c] \in Lease /\ LeaseOK(leases[c], c)
  BY DEF Inv, TypeOK, MemoryOK, Leases, LeasesOK
<1>1. leases[c].stop /\ leases' = [leases EXCEPT ![c].stop = FALSE]
  BY DEF AcknowledgeStopped
<1>2. leases' = [leases EXCEPT ![c] = m]
  BY <1>0, <1>1 DEF Leases, Lease
<1>3. /\ LeaseOK(m, c) /\ Moves(leases[c], m) /\ m.usage = leases[c].usage
      /\ m.state = leases[c].state /\ m.settled = leases[c].settled /\ leases[c].state \in Stopping
  BY <1>0, <1>1, AcknowledgeLease
<1>4. leases[c].state # "none"
  BY <1>3 DEF Stopping
<1> HIDE DEF m
<1>5. LeasesOK(leases') /\ Moved(leases, leases') /\ SameUnits(leases, leases')
  BY <1>0, <1>2, <1>3, <1>4, OneMoves
<1> QED
  BY <1>0, <1>2, <1>3, <1>5 DEF Leases

(* The sweep of overdue leases only moves leases. *)
LEMMA ExpiryAdvances ==
    ASSUME Inv, LeasesOK(leases), leases' = AfterExpiry(leases, ledger).leases
    PROVE  Advance
<1>0. leases \in Leases /\ now \in Nat
  BY DEF Inv, TypeOK, MemoryOK, Leases
<1> DEFINE ms == AfterExpiry(leases, ledger).leases
<1>1. /\ LeasesOK(ms) /\ Moved(leases, ms) /\ SameUnits(leases, ms)
      /\ \A c \in Contract : leases[c].stop => ms[c].stop
  BY <1>0, ExpiryLeases
<1> QED
  BY <1>1 DEF Advance

(* ... and so do the cancellations. *)
LEMMA CancellingAdvances ==
    ASSUME Inv, LeasesOK(leases), NEW S, S \subseteq ActiveIn(leases),
           leases' = EndAll(leases, ledger, S, "cancelled", ByCancellation).leases
    PROVE  Advance
<1>0. leases \in Leases /\ now \in Nat /\ "cancelled" \in Stopping
  BY DEF Inv, TypeOK, MemoryOK, Leases, Stopping
<1> DEFINE ms == EndAll(leases, ledger, S, "cancelled", ByCancellation).leases
<1>1. /\ LeasesOK(ms) /\ Moved(leases, ms) /\ SameUnits(leases, ms)
      /\ \A c \in Contract : leases[c].stop => ms[c].stop
  BY <1>0, EndAllLeases
<1> QED
  BY <1>1 DEF Advance

(* Two advances in a row are one. *)
LEMMA MovedTwice ==
    ASSUME NEW ls \in Leases, NEW ms \in Leases, NEW ns \in Leases, Moved(ls, ms), Moved(ms, ns)
    PROVE  Moved(ls, ns)
<1> SUFFICES ASSUME NEW c \in Contract
             PROVE  Moves(ls[c], ns[c]) /\ (ls[c].state = "none" => ns[c].state = "none")
  BY DEF Moved
<1>1. ls[c].usage \in Usage /\ ms[c].usage \in Usage /\ ns[c].usage \in Usage
  BY DEF Leases, Lease
<1>2. Within(ls[c].usage, ms[c].usage) /\ Within(ms[c].usage, ns[c].usage)
  BY DEF Moved, Moves
<1>3. Within(ls[c].usage, ns[c].usage)
  BY <1>1, <1>2 DEF Within, Usage
<1> QED
  BY <1>3 DEF Moved, Moves

(* complete(): a sweep, then the end of one lease. *)
LEMMA CompleteAdvances ==
    ASSUME Inv, LeasesOK(leases), NEW c \in Contract, NEW r \in Outcomes, CompleteAccepted(c, r)
    PROVE  Advance
<1> DEFINE vl == AfterExpiry(leases, ledger).leases
           w == FinalUsage(vl[c], c)
           m == [vl[c] EXCEPT !.state = "finished", !.result = r, !.usage = w, !.settled = w]
<1>0. /\ leases \in Leases /\ now \in Nat /\ ledger \in Ledger /\ LedgerBound(ledger)
  BY DEF Inv, TypeOK, MemoryOK, Leases, LedgerWithinTeam
<1>1. vl \in Leases
  BY <1>0, AfterExpiryKeeps
<1>2. /\ LeasesOK(vl) /\ Moved(leases, vl) /\ SameUnits(leases, vl)
      /\ \A d \in Contract : leases[d].stop => vl[d].stop
  BY <1>0, ExpiryLeases
<1>3. vl[c].state = "active" /\ leases' = [vl EXCEPT ![c] = m]
  BY DEF CompleteAccepted, Live, FinalUsages
<1>4. r # None /\ r \in Result
  BY ControlAssumption, NoneAssumption DEF Result
<1> HIDE DEF vl
<1>5. vl[c] \in Lease /\ LeaseOK(vl[c], c)
  BY <1>1, <1>2 DEF Leases, LeasesOK
<1>6. LeaseOK(m, c) /\ Moves(vl[c], m) /\ m.usage.units = vl[c].usage.units
  BY <1>0, <1>3, <1>4, <1>5, CompletedLease
<1>7. ~vl[c].stop /\ w \in Usage
  BY <1>0, <1>3, <1>5, ActiveWithin, FinalUsageType
<1>8. m \in Lease
  <2> HIDE DEF w
  <2> QED
    BY <1>4, <1>5, <1>7 DEF Lease, LeaseState
<1> HIDE DEF m, w
<1>9. LeasesOK(leases') /\ Moved(vl, leases') /\ SameUnits(vl, leases')
  BY <1>1, <1>2, <1>3, <1>6, OneMoves
<1>10. leases' \in Leases
  BY <1>1, <1>3, <1>8 DEF Leases
<1>11. Moved(leases, leases')
  BY <1>0, <1>1, <1>2, <1>9, <1>10, MovedTwice
<1>12. SameUnits(leases, leases')
  BY <1>2, <1>9 DEF SameUnits
<1>13. \A d \in Contract : leases[d].stop => leases'[d].stop
  BY <1>1, <1>2, <1>3, <1>7 DEF Leases
<1> QED
  BY <1>9, <1>11, <1>12, <1>13 DEF Advance

(* recover(): the memory is what the checkpoint held, overdue leases ended. *)
LEMMA GoodRecover ==
    ASSUME GoodInv, Recover
    PROVE  MemoryGood'
<1>1. disk \in Checkpoint /\ disk # None
  BY NoneAssumption DEF Recover, GoodInv, Inv, CheckpointWritten
<1> DEFINE ls == disk.leases
           led == Rebuilt(disk.leases)
<1>2. ls \in Leases /\ disk.inputs \in [Contract -> SUBSET Contract] /\ now \in Nat
  BY <1>1 DEF Checkpoint, Leases, GoodInv, Inv, TypeOK
<1>3. Good(ls, disk.registered, disk.inputs, disk.byKey, disk.deliveries,
           disk.observed, disk.receipts, disk.authorized, disk.consumed)
  BY <1>1 DEF GoodInv, DiskGood
<1>4. /\ leases' = AfterExpiry(ls, led).leases
      /\ registered' = disk.registered /\ inputs' = disk.inputs /\ byKey' = disk.byKey
      /\ deliveries' = disk.deliveries /\ observed' = disk.observed /\ receipts' = disk.receipts
      /\ authorized' = disk.authorized /\ consumed' = disk.consumed
  BY DEF Recover
<1> HIDE DEF ls, led
<1>5. Good(leases', disk.registered, disk.inputs, disk.byKey, disk.deliveries,
           disk.observed, disk.receipts, disk.authorized, disk.consumed)
  BY <1>2, <1>3, <1>4, GoodExpired
<1> QED
  BY <1>4, <1>5 DEF MemoryGood

(* One step of the scheduler. *)
LEMMA GoodNext ==
    ASSUME GoodInv, Next
    PROVE  MemoryGood'
<1>0. Inv /\ LeasesOK(leases) /\ MemoryGood
  BY DEF GoodInv, MemoryGood, Good
<1>a. ASSUME Advance, UNCHANGED <<registered, inputs, byKey, deliveries, observed, receipts,
                                  authorized, consumed>>
      PROVE  MemoryGood'
  BY <1>a, GoodByLeases DEF Advance
<1>e. ASSUME OnlyExpiry PROVE MemoryGood'
  BY <1>a, <1>e, <1>0, ExpiryAdvances DEF OnlyExpiry
<1>1. CASE RegisterPlan
  BY <1>0, <1>1 DEF RegisterPlan, MemoryGood
<1>2. ASSUME NEW c \in Contract, NEW ins \in SUBSET Contract, Register(c, ins) PROVE MemoryGood'
  BY <1>2, GoodRegister
<1>3. ASSUME NEW c \in Contract, RecordPhaseReceipt(c) PROVE MemoryGood'
  BY <1>3, GoodReceipt
<1>4. ASSUME NEW c \in Contract, IssuePhaseAuthorization(c) PROVE MemoryGood'
  BY <1>4, GoodAuthorization
<1>5. ASSUME NEW c \in Contract, NEW k \in Key, Admit(c, k) PROVE MemoryGood'
  BY <1>5, <1>e, GoodAdmit DEF Admit, AdmitRefused
<1>6. ASSUME NEW c \in Contract, Heartbeat(c) PROVE MemoryGood'
  BY <1>0, <1>6, <1>a, HeartbeatAdvances DEF Heartbeat
<1>7. ASSUME NEW c \in Contract, NEW i \in DeliveryId, NEW u \in Deltas, Charge(c, i, u) PROVE MemoryGood'
  BY <1>7, <1>e, GoodCharge DEF Charge, ChargeRefused
<1>8. ASSUME NEW c \in Contract, NEW u \in Reports, ObserveTerminalUsage(c, u) PROVE MemoryGood'
  BY <1>8, GoodObserve
<1>9. ASSUME NEW c \in Contract, NEW b \in BOOLEAN, RecordTerminalResult(c, b) PROVE MemoryGood'
  BY <1>0, <1>9, <1>a, TerminalResultAdvances DEF RecordTerminalResult
<1>10. ASSUME NEW c \in Contract, NEW r \in Outcomes, Complete(c, r) PROVE MemoryGood'
  <2>1. CASE CompleteAccepted(c, r)
    BY <1>0, <2>1, <1>a, CompleteAdvances DEF CompleteAccepted
  <2>2. CASE CompleteRefused(c)
    BY <2>2, <1>e DEF CompleteRefused
  <2> QED
    BY <1>10, <2>1, <2>2 DEF Complete
<1>11. ASSUME NEW c \in Contract, CancelWorker(c) PROVE MemoryGood'
  <2>1. {c} \subseteq ActiveIn(leases)
    BY <1>11 DEF CancelWorker, ActiveIn
  <2>2. leases' = EndAll(leases, ledger, {c}, "cancelled", ByCancellation).leases
    BY <1>11 DEF CancelWorker, Ending
  <2>3. Advance
    BY <1>0, <2>1, <2>2, CancellingAdvances
  <2> QED
    BY <1>11, <1>a, <2>3 DEF CancelWorker, Ending
<1>12. CASE CancelTeam
  <2>1. leases' = EndAll(leases, ledger, ActiveIn(leases), "cancelled", ByCancellation).leases
    BY <1>12 DEF CancelTeam, Ending
  <2>2. Advance
    BY <1>0, <2>1, CancellingAdvances
  <2> QED
    BY <1>12, <1>a, <2>2 DEF CancelTeam, Ending
<1>13. CASE ReapTimeouts
  BY <1>0, <1>13, <1>a, ExpiryAdvances DEF ReapTimeouts, Ending
<1>14. ASSUME NEW c \in Contract, AcknowledgeStopped(c) PROVE MemoryGood'
  <2>1. LeasesOK(leases') /\ Moved(leases, leases') /\ SameUnits(leases, leases')
    BY <1>0, <1>14, AcknowledgeMoves
  <2> QED
    BY <1>14, <2>1, GoodByLeases DEF AcknowledgeStopped
<1>15. CASE Crash
  BY <1>0, <1>15 DEF Crash, stateVars, MemoryGood
<1>16. CASE Recover
  BY <1>16, GoodRecover
<1>17. CASE RecoverFails
  BY <1>0, <1>17 DEF RecoverFails, vars, stateVars, MemoryGood
<1>18. CASE Tick
  BY <1>0, <1>18 DEF Tick, stateVars, MemoryGood
<1> QED
  BY <1>1, <1>2, <1>3, <1>4, <1>5, <1>6, <1>7, <1>8, <1>9, <1>10, <1>11, <1>12, <1>13, <1>14,
     <1>15, <1>16, <1>17, <1>18 DEF Next

(* The invariant is inductive: what is not in the checkpoint already is     *)
(* written there from a memory that satisfies it.                           *)
LEMMA GoodStep == GoodInv /\ [Next]_vars => GoodInv'
<1> SUFFICES ASSUME GoodInv, [Next]_vars PROVE GoodInv'
  OBVIOUS
<1>1. Inv'
  BY StepInv DEF GoodInv
<1>2. CASE Next
  <2>1. MemoryGood'
    BY <1>2, GoodNext
  <2>2. disk' = disk \/ disk' = State'
    BY <1>2, NextKeeps DEF Kept, GoodInv
  <2>3. DiskGood'
    <3>1. CASE disk' = disk
      BY <3>1 DEF GoodInv, DiskGood
    <3>2. CASE disk' = State'
      <4>1. /\ disk'.leases = leases' /\ disk'.registered = registered' /\ disk'.inputs = inputs'
            /\ disk'.byKey = byKey' /\ disk'.deliveries = deliveries' /\ disk'.observed = observed'
            /\ disk'.receipts = receipts' /\ disk'.authorized = authorized'
            /\ disk'.consumed = consumed'
        BY <3>2 DEF State
      <4> QED
        BY <2>1, <4>1 DEF MemoryGood, DiskGood
    <3> QED
      BY <2>2, <3>1, <3>2
  <2> QED
    BY <1>1, <2>1, <2>3 DEF GoodInv
<1>3. CASE UNCHANGED vars
  BY <1>1, <1>3 DEF vars, stateVars, GoodInv, MemoryGood, DiskGood
<1> QED
  BY <1>2, <1>3

(* ... so it always holds. *)
LEMMA GoodAlways == Spec => []GoodInv
  BY GoodInit, GoodStep, PTL DEF Spec

(* Each delivery is charged exactly once, whatever is retried, refused,     *)
(* expired or recovered, in any team and under any order of calls: the      *)
(* property of the tight run, for every set of deliveries.                  *)
THEOREM DeliveriesChargedOnce == Spec => []ChargedExactlyOnce
<1>1. GoodInv => ChargedExactlyOnce
  <2> SUFFICES ASSUME GoodInv, NEW c \in Held(leases), observed[c] = None
               PROVE  leases[c].usage.units = DeliveredUnits(State, c)
    BY DEF ChargedExactlyOnce
  <2>1. leases[c].usage.units = UnitsTo(deliveries, c)
    BY DEF GoodInv, MemoryGood, Good, Counted
  <2>2. State.deliveries = deliveries
    BY DEF State
  <2>3. DeliveredUnits(State, c) = UnitsTo(deliveries, c)
    BY <2>2 DEF DeliveredUnits, DeliveredTo, UnitsTo, UnitsOf, AcceptedFor
  <2> QED
    BY <2>1, <2>3
<1> QED
  BY <1>1, GoodAlways, PTL

(* A child of a later phase was admitted on completed, receipted            *)
(* predecessors that are all on one commit, and consumed its own            *)
(* authorization: in any team, after any recovery.                          *)
THEOREM DownstreamFollowsCompletion == Spec => []DownstreamAfterCompletion
<1>1. GoodInv => DownstreamAfterCompletion
  <2> SUFFICES ASSUME GoodInv, NEW c \in Held(leases), Pred[c] # {}
               PROVE  /\ c \in consumed
                      /\ \A d \in Pred[c] : /\ leases[d].state = "finished"
                                            /\ leases[d].result.disposition = "completed"
                                            /\ receipts[d] # None
                      /\ Cardinality(Commits(receipts, Pred[c])) = 1
    BY DEF DownstreamAfterCompletion
  <2>1. Phased(leases, registered, inputs, receipts, authorized, consumed)
    BY DEF GoodInv, MemoryGood, Good
  <2>2. c \in Contract /\ Pred[c] \subseteq Contract
    BY ControlAssumption DEF Held
  <2>3. c \in consumed /\ inputs[c] = Pred[c] /\ c \in authorized
        /\ \A d \in Pred[c] : leases[d].result.disposition = "completed"
    BY <2>1 DEF Phased
  <2>4. \A d \in Pred[c] : receipts[d] # None /\ leases[d].state = "finished"
    BY <2>1, <2>2, <2>3 DEF Phased
  <2>5. Cardinality(Commits(receipts, Pred[c])) = 1
    BY <2>1, <2>3 DEF Phased
  <2> QED
    BY <2>3, <2>4, <2>5
<1> QED
  BY <1>1, GoodAlways, PTL

-----------------------------------------------------------------------------
(* A team that covers every planned reservation.  Without it the promises   *)
(* below fail: late usage of a child whose budget was reserved again makes  *)
(* _rebuild_ledger raise after it emptied the ledger.                       *)

RoomyTeam == Within(SumUsage(Budget, Contract), Team)

(* The ledger is the one the leases imply. *)
Follows(ls, led) ==
    /\ led.active = ActiveIn(ls)
    /\ led.settled = TerminalIn(ls)
    /\ led.consumed = SumUsage(SettledOf(ls), TerminalIn(ls))

Isolated(ls) ==
    /\ Cardinality(ActiveIn(ls)) <= MaxConcurrency
    /\ \A c \in ActiveIn(ls) : ExclusiveScope(ActiveIn(ls) \ {c}, c)

(* Sums depend on the contracts they range over only. *)
LEMMA SumUsageAgrees ==
    ASSUME NEW S, NEW f, NEW g, \A c \in S : f[c] = g[c]
    PROVE  SumUsage(f, S) = SumUsage(g, S)
<1>1. /\ [c \in S |-> f[c].wall] = [c \in S |-> g[c].wall]
      /\ [c \in S |-> f[c].units] = [c \in S |-> g[c].units]
  OBVIOUS
<1> QED
  BY <1>1 DEF SumUsage

(* Whatever two disjoint groups of contracts use within their budgets fits  *)
(* a roomy team.                                                            *)
LEMMA RoomyCovers ==
    ASSUME RoomyTeam, NEW A, NEW B, A \subseteq Contract, B \subseteq Contract, A \cap B = {},
           NEW f, \A c \in A : f[c] \in Usage /\ Within(f[c], Budget[c]),
           NEW g, \A c \in B : g[c] \in Usage /\ Within(g[c], Budget[c])
    PROVE  Within(Plus(SumUsage(f, A), SumUsage(g, B)), Team)
<1> DEFINE C == Contract \ (A \cup B)
<1>1. /\ IsFiniteSet(A) /\ IsFiniteSet(B) /\ IsFiniteSet(A \cup B) /\ IsFiniteSet(C)
      /\ A \cup B \subseteq Contract /\ C \subseteq Contract
  BY SubsetsOfContractFinite
<1>2. \A c \in Contract : Budget[c] \in Usage
  BY BudgetAssumption
<1>3. Contract = (A \cup B) \cup C /\ (A \cup B) \cap C = {}
  OBVIOUS
<1>4. SumUsage(Budget, Contract) = Plus(SumUsage(Budget, A \cup B), SumUsage(Budget, C))
  <2> HIDE DEF C
  <2>1. \A c \in (A \cup B) \cup C : Budget[c] \in Usage
    BY <1>2, <1>3
  <2>2. SumUsage(Budget, (A \cup B) \cup C) = Plus(SumUsage(Budget, A \cup B), SumUsage(Budget, C))
    BY <1>1, <1>3, <2>1, SumUsageOfUnion
  <2> QED
    BY <1>3, <2>2
<1>5. SumUsage(Budget, A \cup B) = Plus(SumUsage(Budget, A), SumUsage(Budget, B))
  <2>1. \A c \in A \cup B : Budget[c] \in Usage
    BY <1>1, <1>2
  <2> QED
    BY <1>1, <2>1, SumUsageOfUnion
<1>6. Within(SumUsage(f, A), SumUsage(Budget, A)) /\ Within(SumUsage(g, B), SumUsage(Budget, B))
  <2>1. \A c \in A : f[c] \in Usage /\ Budget[c] \in Usage /\ Within(f[c], Budget[c])
    BY <1>2
  <2>2. \A c \in B : g[c] \in Usage /\ Budget[c] \in Usage /\ Within(g[c], Budget[c])
    BY <1>2
  <2> QED
    BY <1>1, <2>1, <2>2, SumUsageMonotone
<1>7. /\ SumUsage(f, A) \in Usage /\ SumUsage(g, B) \in Usage
      /\ SumUsage(Budget, A) \in Usage /\ SumUsage(Budget, B) \in Usage
      /\ SumUsage(Budget, A \cup B) \in Usage /\ SumUsage(Budget, C) \in Usage /\ Team \in Usage
  BY <1>1, SumUsageType, ReservedType, BudgetAssumption
<1> HIDE DEF C
<1> QED
  BY <1>4, <1>5, <1>6, <1>7 DEF RoomyTeam, Within, Plus, Usage

(* What a lease settled with is within its budget. *)
LEMMA SettledWithin ==
    ASSUME NEW ls \in Leases, LeasesOK(ls), NEW c \in Contract
    PROVE  /\ SettledOf(ls)[c] \in Usage
           /\ Within(SettledOf(ls)[c], Budget[c])
           /\ c \in TerminalIn(ls) => ls[c].settled # None /\ SettledOf(ls)[c] = ls[c].settled
<1>1. ls[c] \in Lease /\ LeaseOK(ls[c], c) /\ ls[c].usage \in Usage
  BY DEF Leases, LeasesOK, Lease
<1>2. CapUsage(ls[c].usage, c) \in Usage /\ Within(CapUsage(ls[c].usage, c), Budget[c])
  BY <1>1, Capping
<1>3. ZeroUsage \in Usage /\ Within(ZeroUsage, Budget[c]) /\ None \notin Usage
  BY BudgetAssumption, ControlAssumption DEF ZeroUsage, Usage, Within
<1>4. SettledOf(ls)[c] = IF ls[c].settled = None THEN ZeroUsage ELSE ls[c].settled
  BY DEF SettledOf
<1>5. ls[c].settled = None \/ ls[c].settled = CapUsage(ls[c].usage, c)
  BY <1>1 DEF LeaseOK, NoLease
<1>6. c \in TerminalIn(ls) => ls[c].settled = CapUsage(ls[c].usage, c)
  BY <1>1 DEF TerminalIn, Held, ActiveIn, LeaseOK
<1> QED
  BY <1>2, <1>3, <1>4, <1>5, <1>6

(* The usages a settlement of S is made with fit the budgets. *)
Fits(S, used) == \A c \in S : used[c] \in Usage /\ Within(used[c], Budget[c])

(* The leases of S have ended, settled at those usages; the others stand. *)
Settles(ls, ms, S, used) ==
    /\ \A c \in S : ms[c].state \notin {"none", "active"} /\ ms[c].settled = used[c]
    /\ \A c \in Contract : c \notin S => ms[c].state = ls[c].state /\ ms[c].settled = ls[c].settled

(* In a roomy team no settlement of active leases is refused. *)
LEMMA NothingRefused ==
    ASSUME RoomyTeam, NEW ls \in Leases, LeasesOK(ls), NEW led, Follows(ls, led),
           NEW S, S \subseteq ActiveIn(ls), NEW used, Fits(S, used)
    PROVE  /\ SettleRefused(led, S, used) = {}
           /\ SettleReached(led, S, used) = S
           /\ SettleAll(led, S, used) = [active |-> ActiveIn(ls) \ S, settled |-> TerminalIn(ls) \cup S,
                                         consumed |-> Plus(SumUsage(SettledOf(ls), TerminalIn(ls)),
                                                           SumUsage(used, S))]
<1> DEFINE f == SettledOf(ls)
           T == TerminalIn(ls)
<1>1. T \subseteq Contract /\ S \subseteq Contract /\ T \cap S = {}
  BY DEF TerminalIn, ActiveIn, Held
<1>2. \A c \in T : f[c] \in Usage /\ Within(f[c], Budget[c])
  BY <1>1, SettledWithin
<1> HIDE DEF f, T
<1>3. ASSUME NEW c \in S
      PROVE  Within(Plus(led.consumed, SumUsage(used, {d \in S : d <= c})), Team)
  <2> DEFINE P == {d \in S : d <= c}
  <2>1. P \subseteq Contract /\ T \cap P = {} /\ \A d \in P : used[d] \in Usage /\ Within(used[d], Budget[d])
    BY <1>1 DEF Fits
  <2> HIDE DEF P
  <2>2. Within(Plus(SumUsage(f, T), SumUsage(used, P)), Team)
    BY <1>1, <1>2, <2>1, RoomyCovers
  <2> QED
    BY <2>2 DEF Follows, P, f, T
<1>4. SettleRefused(led, S, used) = {}
  BY <1>3 DEF SettleRefused, Follows, Fits
<1>5. SettleReached(led, S, used) = S
  BY <1>4 DEF SettleReached
<1> QED
  BY <1>4, <1>5 DEF SettleAll, Follows

(* Settling active leases that then have ended leaves the ledger of the     *)
(* new leases.                                                              *)
LEMMA SettlingFollows ==
    ASSUME RoomyTeam, NEW ls \in Leases, LeasesOK(ls), NEW led, Follows(ls, led),
           NEW S, S \subseteq ActiveIn(ls), NEW used, Fits(S, used), NEW ms, Settles(ls, ms, S, used)
    PROVE  /\ Follows(ms, SettleAll(led, S, used))
           /\ ActiveIn(ms) = ActiveIn(ls) \ S
           /\ TerminalIn(ms) = TerminalIn(ls) \cup S
<1>1. ActiveIn(ms) = ActiveIn(ls) \ S /\ TerminalIn(ms) = TerminalIn(ls) \cup S
  BY DEF ActiveIn, TerminalIn, Held, Settles
<1> DEFINE f == SettledOf(ls)
           g == SettledOf(ms)
           T == TerminalIn(ls)
<1>2. T \subseteq Contract /\ S \subseteq Contract /\ T \cap S = {}
  BY DEF TerminalIn, ActiveIn, Held
<1>3. \A c \in T : f[c] = g[c] /\ f[c] \in Usage
  <2> TAKE c \in T
  <2>1. c \in Contract /\ c \notin S
    BY <1>2
  <2>2. ms[c].settled = ls[c].settled
    BY <2>1 DEF Settles
  <2> QED
    BY <2>1, <2>2, SettledWithin DEF SettledOf
<1>4. \A c \in S : g[c] = used[c] /\ used[c] \in Usage
  BY <1>2, ControlAssumption DEF SettledOf, Settles, Fits
<1>5. /\ IsFiniteSet(T) /\ IsFiniteSet(S)
  BY <1>2, SubsetsOfContractFinite
<1>6. SettleAll(led, S, used) = [active |-> ActiveIn(ls) \ S, settled |-> TerminalIn(ls) \cup S,
                                 consumed |-> Plus(SumUsage(f, T), SumUsage(used, S))]
  BY NothingRefused
<1> HIDE DEF f, g, T
<1>7. SumUsage(f, T) = SumUsage(g, T) /\ SumUsage(used, S) = SumUsage(g, S)
  BY <1>3, <1>4, SumUsageAgrees
<1>8. SumUsage(g, T \cup S) = Plus(SumUsage(g, T), SumUsage(g, S))
  <2>1. \A c \in T \cup S : g[c] \in Usage
    BY <1>3, <1>4
  <2> QED
    BY <1>2, <1>5, <2>1, SumUsageOfUnion
<1>9. SumUsage(SettledOf(ms), TerminalIn(ms)) = SumUsage(g, T \cup S)
  BY <1>1 DEF g, T
<1> QED
  BY <1>1, <1>6, <1>7, <1>8, <1>9 DEF Follows

(* Leases whose states and settlements stand have the same ledger. *)
LEMMA SameFollows ==
    ASSUME NEW ls, NEW ms, \A c \in Contract : ms[c].state = ls[c].state /\ ms[c].settled = ls[c].settled
    PROVE  /\ ActiveIn(ms) = ActiveIn(ls)
           /\ \A led : Follows(ls, led) => Follows(ms, led)
           /\ Isolated(ls) => Isolated(ms)
<1>1. ActiveIn(ms) = ActiveIn(ls) /\ TerminalIn(ms) = TerminalIn(ls)
  BY DEF ActiveIn, TerminalIn, Held
<1>2. SettledOf(ms) = SettledOf(ls)
  BY DEF SettledOf
<1> QED
  BY <1>1, <1>2 DEF Follows, Isolated

(* Fewer active children are isolated if more were. *)
LEMMA IsolatedShrinks ==
    ASSUME NEW ls, NEW ms, ActiveIn(ms) \subseteq ActiveIn(ls), Isolated(ls)
    PROVE  Isolated(ms)
<1>1. IsFiniteSet(ActiveIn(ls)) /\ ActiveIn(ls) \subseteq Contract
  BY SubsetsOfContractFinite DEF ActiveIn
<1>2. /\ Cardinality(ActiveIn(ms)) <= Cardinality(ActiveIn(ls))
      /\ Cardinality(ActiveIn(ms)) \in Nat /\ Cardinality(ActiveIn(ls)) \in Nat
  BY <1>1, FS_Subset, FS_CardinalityType
<1>3. Cardinality(ActiveIn(ms)) <= MaxConcurrency
  BY <1>2, ControlAssumption DEF Isolated
<1>4. \A c \in ActiveIn(ms) : ExclusiveScope(ActiveIn(ms) \ {c}, c)
  BY DEF Isolated, ExclusiveScope
<1> QED
  BY <1>3, <1>4 DEF Isolated

(* All leases of S ended, and the ledger followed. *)
EndedAll(v, ls, S, s, reason) ==
    /\ v.ok
    /\ Follows(v.leases, v.ledger)
    /\ ActiveIn(v.leases) = ActiveIn(ls) \ S
    /\ \A c \in Contract : v.leases[c] = IF c \in S THEN Stopped(ls[c], c, s, reason[c]) ELSE ls[c]

(* Ending active leases in a roomy team does that. *)
LEMMA EndAllFollows ==
    ASSUME RoomyTeam, NEW ls \in Leases, LeasesOK(ls), NEW led, Follows(ls, led), now \in Nat,
           NEW S, S \subseteq ActiveIn(ls), NEW s \in Stopping, NEW reason
    PROVE  EndedAll(EndAll(ls, led, S, s, reason), ls, S, s, reason)
<1> DEFINE used == FinalUsages(ls)
           ms == [c \in Contract |-> IF c \in S THEN Stopped(ls[c], c, s, reason[c]) ELSE ls[c]]
           v == EndAll(ls, led, S, s, reason)
<1>1. \A c \in S : /\ used[c] = FinalUsage(ls[c], c) /\ used[c] \in Usage /\ Within(used[c], Budget[c])
                   /\ Stopped(ls[c], c, s, reason[c]).state = s
                   /\ Stopped(ls[c], c, s, reason[c]).settled = used[c]
  <2> TAKE c \in S
  <2>1. c \in Contract /\ ls[c] \in Lease /\ LeaseOK(ls[c], c) /\ ls[c].state = "active"
    BY DEF Leases, LeasesOK, ActiveIn
  <2>2. used[c] = FinalUsage(ls[c], c)
    BY <2>1 DEF FinalUsages
  <2>3. Within(ls[c].usage, Budget[c])
    BY <2>1, ActiveWithin
  <2>4. FinalUsage(ls[c], c) \in Usage /\ Within(FinalUsage(ls[c], c), Budget[c])
    BY <2>1, <2>3, Finalising
  <2>5. /\ Stopped(ls[c], c, s, reason[c]).state = s
        /\ Stopped(ls[c], c, s, reason[c]).settled = FinalUsage(ls[c], c)
    BY <2>1, StoppedOK
  <2> QED
    BY <2>2, <2>4, <2>5
<1>2. S \subseteq Contract /\ s # "none" /\ s # "active"
  BY DEF ActiveIn, Stopping
<1>3. Settles(ls, ms, S, used)
  <2> HIDE DEF used
  <2> QED
    BY <1>1, <1>2 DEF Settles
<1>4. Fits(S, used)
  BY <1>1 DEF Fits
<1>5. SettleRefused(led, S, used) = {} /\ SettleReached(led, S, used) = S
  <2> HIDE DEF used
  <2> QED
    BY <1>4, NothingRefused
<1>6. /\ v.leases = ms /\ v.ledger = SettleAll(led, S, used) /\ v.ok
  BY <1>5 DEF EndAll
<1>7. Follows(ms, SettleAll(led, S, used)) /\ ActiveIn(ms) = ActiveIn(ls) \ S
  <2> HIDE DEF used, ms
  <2> QED
    BY <1>3, <1>4, SettlingFollows
<1>8. \A c \in Contract : ms[c] = IF c \in S THEN Stopped(ls[c], c, s, reason[c]) ELSE ls[c]
  OBVIOUS
<1> HIDE DEF ms, used, v
<1> QED
  BY <1>6, <1>7, <1>8 DEF v, EndedAll

(* The sweep of overdue leases in a roomy team. *)
LEMMA ExpiryFollows ==
    ASSUME RoomyTeam, NEW ls \in Leases, LeasesOK(ls), NEW led, Follows(ls, led), now \in Nat
    PROVE  LET v == AfterExpiry(ls, led)
           IN  /\ v.ok
               /\ Follows(v.leases, v.ledger)
               /\ ActiveIn(v.leases) = ActiveIn(ls) \ Expired(ls)
               /\ \A c \in Contract :
                     IF c \in Expired(ls) THEN \E r : v.leases[c] = Stopped(ls[c], c, "timed_out", r)
                                          ELSE v.leases[c] = ls[c]
<1> DEFINE reason == [c \in Contract |-> IF now >= ls[c].deadline THEN "deadline" ELSE "heartbeat"]
           v == EndAll(ls, led, Expired(ls), "timed_out", reason)
<1>1. Expired(ls) \subseteq ActiveIn(ls) /\ "timed_out" \in Stopping
  BY DEF Expired, Stopping
<1> HIDE DEF reason
<1>2. AfterExpiry(ls, led) = v
  BY DEF AfterExpiry, reason
<1>3. EndedAll(v, ls, Expired(ls), "timed_out", reason)
  BY <1>1, EndAllFollows
<1> HIDE DEF v
<1> QED
  BY <1>2, <1>3 DEF EndedAll

(* Rebuilding the ledger from isolated leases succeeds in a roomy team.     *)
LEMMA RebuildFollows ==
    ASSUME RoomyTeam, NEW ls \in Leases, LeasesOK(ls), Isolated(ls)
    PROVE  RebuildFits(ls) /\ Follows(ls, Rebuilt(ls))
<1> DEFINE f == SettledOf(ls)
           T == TerminalIn(ls)
           A == ActiveIn(ls)
<1>1. T \subseteq Contract /\ A \subseteq Contract /\ T \cap A = {}
  BY DEF TerminalIn, ActiveIn, Held
<1>2. \A c \in T : f[c] \in Usage /\ Within(f[c], Budget[c]) /\ ls[c].settled # None
  BY <1>1, SettledWithin
<1>3. \A c \in Contract : Budget[c] \in Usage /\ Within(Budget[c], Budget[c])
  BY BudgetAssumption, WithinItself
<1>4. ASSUME NEW c \in T
      PROVE  RefitsTerminal(ls, c)
  <2> DEFINE P == {d \in T : d < c}
  <2>1. P \subseteq Contract /\ {c} \subseteq Contract /\ P \cap {c} = {}
    <3> HIDE DEF T
    <3>1. c \in Nat /\ ~(c < c)
      BY <1>1, ContractAssumption
    <3>2. c \notin P
      BY <3>1
    <3> QED
      BY <1>1, <3>2
  <2>2. \A d \in P : f[d] \in Usage /\ Within(f[d], Budget[d])
    BY <1>2
  <2>3. \A d \in {c} : Budget[d] \in Usage /\ Within(Budget[d], Budget[d])
    BY <2>1, <1>3
  <2>4. SumUsage(Budget, {c}) = Budget[c]
    BY <2>3, SumUsageOfOne
  <2>5. Within(Plus(SumUsage(f, P), SumUsage(Budget, {c})), Team)
    <3> HIDE DEF f, P, T
    <3> QED
      BY <2>1, <2>2, <2>3, RoomyCovers
  <2> QED
    BY <1>2, <2>4, <2>5 DEF RefitsTerminal
<1>5. Resettled(ls) = T
  BY <1>4 DEF Resettled
<1>6. ASSUME NEW c \in A
      PROVE  RefitsActive(ls, c)
  <2> DEFINE P == {d \in A : d < c}
             led == [active |-> P, settled |-> T, consumed |-> SumUsage(f, T)]
  <2>1. P \subseteq A \ {c} /\ P \subseteq Contract /\ c \in Contract /\ c \notin P /\ c \notin T
    <3> HIDE DEF A, T
    <3>1. c \in Nat /\ ~(c < c)
      BY <1>1, ContractAssumption
    <3>2. c \notin P
      BY <3>1
    <3> QED
      BY <1>1, <3>2
  <2>2. Cardinality(P) < MaxConcurrency
    <3>1. IsFiniteSet(A) /\ IsFiniteSet(A \ {c})
      BY <1>1, SubsetsOfContractFinite
    <3>2. Cardinality(A \ {c}) = Cardinality(A) - 1 /\ Cardinality(A) \in Nat
      BY <3>1, FS_RemoveElement, FS_CardinalityType
    <3>3. Cardinality(P) <= Cardinality(A \ {c}) /\ Cardinality(P) \in Nat /\ Cardinality(A \ {c}) \in Nat
      BY <2>1, <3>1, FS_Subset, FS_CardinalityType
    <3> HIDE DEF P
    <3> QED
      BY <3>2, <3>3, ControlAssumption DEF Isolated, A
  <2>3. ExclusiveScope(P, c)
    BY <2>1 DEF Isolated, ExclusiveScope
  <2>4. Within(Plus(Plus(SumUsage(f, T), SumUsage(Budget, P)), Budget[c]), Team)
    <3>1. /\ P \cup {c} \subseteq Contract /\ T \cap (P \cup {c}) = {}
          /\ \A d \in P \cup {c} : Budget[d] \in Usage /\ Within(Budget[d], Budget[d])
      BY <1>1, <1>3, <2>1
    <3>2. /\ IsFiniteSet(P) /\ IsFiniteSet({c}) /\ P \cap {c} = {}
          /\ \A d \in P \cup {c} : Budget[d] \in Usage
      BY <2>1, <3>1, SubsetsOfContractFinite
    <3> HIDE DEF P, f, T, A
    <3>3. Within(Plus(SumUsage(f, T), SumUsage(Budget, P \cup {c})), Team)
      BY <1>1, <1>2, <3>1, RoomyCovers
    <3>4. SumUsage(Budget, P \cup {c}) = Plus(SumUsage(Budget, P), SumUsage(Budget, {c}))
      BY <3>2, SumUsageOfUnion
    <3>5. SumUsage(Budget, {c}) = Budget[c] /\ Budget[c] \in Usage
      BY <3>2, SumUsageOfOne
    <3>6. SumUsage(Budget, P) \in Usage
      BY <2>1, ReservedType
    <3>7. IsFiniteSet(T)
      BY <1>1, SubsetsOfContractFinite
    <3>8. SumUsage(f, T) \in Usage
      BY <1>2, <3>7, SumUsageType
    <3> QED
      BY <3>3, <3>4, <3>5, <3>6, <3>8, BudgetAssumption DEF Within, Plus, Usage
  <2>5. CanReserve(led, c)
    BY <2>1, <2>2, <2>3, <2>4 DEF CanReserve, Reserved
  <2> QED
    BY <2>5 DEF RefitsActive
<1>7. Rereserved(ls) = A
  BY <1>5, <1>6 DEF Rereserved
<1> QED
  BY <1>5, <1>7 DEF RebuildFits, Follows, Rebuilt

-----------------------------------------------------------------------------
(* The invariant of a roomy team: memory is ahead of the checkpoint only by *)
(* leases that are overdue, so that recover() ends them again.              *)

Lagging(l, m, c) ==
    \/ m = l
    \/ /\ l.state = "active" /\ now >= Expiry(l)
       /\ m.state = "timed_out" /\ m.result = None /\ m.stop /\ m.key = l.key
       /\ m.usage.units = l.usage.units /\ m.usage.wall <= FinalUsage(l, c).wall

Recorded(d) ==
    /\ d.plan = plan /\ d.registered = registered /\ d.inputs = inputs /\ d.byKey = byKey
    /\ d.deliveries = deliveries /\ d.observed = observed /\ d.receipts = receipts
    /\ d.authorized = authorized /\ d.consumed = consumed /\ d.cancelled = cancelled

DiskFollows == disk # None =>
    /\ Isolated(disk.leases)
    /\ Recorded(disk)
    /\ \A c \in Contract : Lagging(disk.leases[c], leases[c], c)

RoomyInv ==
    /\ GoodInv
    /\ Isolated(leases)
    /\ up => Follows(leases, ledger)
    /\ cancelled => ActiveIn(leases) = {}
    /\ DiskFollows

(* What a step establishes and what it may not undo. *)
Holds ==
    /\ Isolated(leases')
    /\ up' => Follows(leases', ledger')
    /\ cancelled' => ActiveIn(leases') = {}
    /\ disk' = State' \/ DiskFollows'
    /\ cancelled => cancelled'

Undoes(c) == ~ /\ Moves(leases[c], leases'[c])
               /\ leases[c].stop /\ ~leases'[c].stop => AcknowledgeStopped(c)

Sound == Holds /\ \A c \in Contract : ~Undoes(c)

(* The types the steps below use. *)
LEMMA RoomyTypes ==
    ASSUME RoomyInv
    PROVE  /\ leases \in Leases /\ LeasesOK(leases) /\ now \in Nat /\ cancelled \in BOOLEAN
           /\ ledger \in Ledger /\ LedgerBound(ledger) /\ Inv
  BY DEF RoomyInv, GoodInv, MemoryGood, Good, Inv, TypeOK, MemoryOK, Leases, LedgerWithinTeam

(* A lease that stays moves trivially. *)
LEMMA MovesItself ==
    ASSUME NEW l \in Lease
    PROVE  Moves(l, l)
  BY WithinItself DEF Lease, Moves

(* A persisted step of the leases that neither adds an active one nor       *)
(* touches the cancellation.                                                *)
LEMMA PersistedSound ==
    ASSUME RoomyInv, Isolated(leases'), Follows(leases', ledger'),
           ActiveIn(leases') \subseteq ActiveIn(leases), cancelled' = cancelled, disk' = State',
           \A c \in Contract : Moves(leases[c], leases'[c]),
           \A c \in Contract : leases[c].stop => leases'[c].stop
    PROVE  Sound
<1>1. cancelled' => ActiveIn(leases') = {}
  BY DEF RoomyInv
<1> QED
  BY <1>1 DEF Sound, Holds, Undoes

(* A persisted step that leaves leases and ledger alone. *)
LEMMA UntouchedSound ==
    ASSUME RoomyInv, up, UNCHANGED <<leases, ledger, cancelled>>, disk' = State'
    PROVE  Sound
<1>1. \A c \in Contract : Moves(leases[c], leases[c])
  BY RoomyTypes, MovesItself DEF Leases
<1>2. Isolated(leases) /\ Follows(leases, ledger)
  BY DEF RoomyInv
<1>3. Isolated(leases') /\ Follows(leases', ledger') /\ ActiveIn(leases') \subseteq ActiveIn(leases)
  BY <1>2
<1> QED
  BY <1>1, <1>3, PersistedSound

(* A persisted step that leaves states, settlements and the ledger alone. *)
LEMMA SameStatesSound ==
    ASSUME RoomyInv, up, UNCHANGED <<ledger, cancelled>>, disk' = State', Moved(leases, leases'),
           \A c \in Contract : leases'[c].state = leases[c].state /\ leases'[c].settled = leases[c].settled,
           \A c \in Contract : leases[c].stop => leases'[c].stop
    PROVE  Sound
<1>1. Isolated(leases) /\ Follows(leases, ledger)
  BY DEF RoomyInv
<1>2. /\ ActiveIn(leases') = ActiveIn(leases) /\ Isolated(leases') /\ Follows(leases', ledger)
  BY <1>1, SameFollows
<1>3. \A c \in Contract : Moves(leases[c], leases'[c])
  BY DEF Moved
<1> QED
  BY <1>2, <1>3, PersistedSound

(* heartbeat() leaves states and settlements alone. *)
LEMMA HeartbeatSound ==
    ASSUME RoomyInv, NEW c \in Contract, Heartbeat(c)
    PROVE  Sound
<1>1. \A d \in Contract : leases'[d].state = leases[d].state /\ leases'[d].settled = leases[d].settled
  BY RoomyTypes DEF Heartbeat, Leases, Lease
<1>2. Moved(leases, leases') /\ \A d \in Contract : leases[d].stop => leases'[d].stop
  BY RoomyTypes, HeartbeatAdvances DEF Advance
<1>3. up /\ UNCHANGED <<ledger, cancelled>> /\ disk' = State'
  BY DEF Heartbeat, Persist
<1> QED
  BY <1>1, <1>2, <1>3, SameStatesSound

(* ... the same for record_terminal_result(). *)
LEMMA TerminalResultSound ==
    ASSUME RoomyInv, NEW c \in Contract, NEW b, RecordTerminalResult(c, b)
    PROVE  Sound
<1>1. \A d \in Contract : leases'[d].state = leases[d].state /\ leases'[d].settled = leases[d].settled
  BY RoomyTypes DEF RecordTerminalResult, Leases, Lease
<1>2. Moved(leases, leases') /\ \A d \in Contract : leases[d].stop => leases'[d].stop
  BY RoomyTypes, TerminalResultAdvances DEF Advance
<1>3. up /\ UNCHANGED <<ledger, cancelled>> /\ disk' = State'
  BY DEF RecordTerminalResult, Persist
<1> QED
  BY <1>1, <1>2, <1>3, SameStatesSound

(* acknowledge_stopped(): the one step that clears a stop request. *)
LEMMA AcknowledgeSound ==
    ASSUME RoomyInv, NEW c \in Contract, AcknowledgeStopped(c)
    PROVE  Sound
<1>1. /\ Moved(leases, leases')
      /\ \A d \in Contract : d # c => leases'[d] = leases[d]
      /\ leases'[c].state = leases[c].state /\ leases'[c].settled = leases[c].settled
  BY RoomyTypes, AcknowledgeMoves
<1>2. up /\ UNCHANGED <<ledger, cancelled, up>> /\ disk' = State'
  BY DEF AcknowledgeStopped, Persist
<1>3. Isolated(leases) /\ Follows(leases, ledger) /\ (cancelled => ActiveIn(leases) = {})
  BY <1>2 DEF RoomyInv
<1>4. /\ ActiveIn(leases') = ActiveIn(leases) /\ Isolated(leases') /\ Follows(leases', ledger)
  BY <1>1, <1>3, SameFollows
<1>5. \A d \in Contract : leases[d].stop /\ ~leases'[d].stop => AcknowledgeStopped(d)
  BY <1>1
<1> QED
  BY <1>1, <1>2, <1>3, <1>4, <1>5 DEF Sound, Holds, Undoes, Moved

(* Ending leases in memory and in the checkpoint. *)
LEMMA EndingSound ==
    ASSUME RoomyTeam, RoomyInv, NEW S, S \subseteq ActiveIn(leases), NEW s \in Stopping, NEW reason,
           up, Ending(EndAll(leases, ledger, S, s, reason)),
           (cancelled' = cancelled) \/ (cancelled' /\ S = ActiveIn(leases))
    PROVE  Sound
<1> DEFINE v == EndAll(leases, ledger, S, s, reason)
<1>0. /\ leases \in Leases /\ LeasesOK(leases) /\ now \in Nat /\ Follows(leases, ledger) /\ Isolated(leases)
  BY RoomyTypes DEF RoomyInv
<1>1. EndedAll(v, leases, S, s, reason)
  BY <1>0, EndAllFollows
<1>2. /\ Moved(leases, v.leases)
      /\ \A c \in Contract : leases[c].stop => v.leases[c].stop
  BY <1>0, EndAllLeases
<1>3. leases' = v.leases /\ ledger' = v.ledger /\ up' = up /\ (v.ok => disk' = State')
  BY DEF Ending, Persist
<1> HIDE DEF v
<1>4. disk' = State' /\ Follows(leases', ledger') /\ ActiveIn(leases') = ActiveIn(leases) \ S
  BY <1>1, <1>3 DEF EndedAll
<1>5. Isolated(leases')
  BY <1>0, <1>4, IsolatedShrinks
<1>6. (cancelled' => ActiveIn(leases') = {}) /\ (cancelled => cancelled')
  BY <1>4 DEF RoomyInv
<1>7. \A c \in Contract : Moves(leases[c], leases'[c]) /\ (leases[c].stop => leases'[c].stop)
  BY <1>2, <1>3 DEF Moved
<1> QED
  BY <1>4, <1>5, <1>6, <1>7 DEF Sound, Holds, Undoes

(* A call refused after the sweep leaves the checkpoint behind by the       *)
(* leases it expired.                                                       *)
LEMMA OnlyExpirySound ==
    ASSUME RoomyTeam, RoomyInv, up, OnlyExpiry
    PROVE  Sound
<1> DEFINE v == AfterExpiry(leases, ledger)
<1>0. /\ leases \in Leases /\ LeasesOK(leases) /\ now \in Nat /\ Follows(leases, ledger) /\ Isolated(leases)
      /\ (cancelled => ActiveIn(leases) = {})
  BY RoomyTypes DEF RoomyInv
<1>1. LET w == AfterExpiry(leases, ledger)
      IN  /\ w.ok
          /\ Follows(w.leases, w.ledger)
          /\ ActiveIn(w.leases) = ActiveIn(leases) \ Expired(leases)
          /\ \A c \in Contract :
                IF c \in Expired(leases) THEN \E r : w.leases[c] = Stopped(leases[c], c, "timed_out", r)
                                         ELSE w.leases[c] = leases[c]
  BY <1>0, ExpiryFollows
<1>2. /\ leases' = v.leases /\ ledger' = v.ledger
      /\ UNCHANGED <<plan, registered, inputs, byKey, deliveries, observed, receipts,
                     authorized, consumed, cancelled, disk, up, now>>
  BY DEF OnlyExpiry
<1>3. Advance
  BY <1>2, RoomyTypes, ExpiryAdvances
<1>4. /\ Follows(leases', ledger') /\ ActiveIn(leases') = ActiveIn(leases) \ Expired(leases)
      /\ \A c \in Contract :
            IF c \in Expired(leases) THEN \E r : leases'[c] = Stopped(leases[c], c, "timed_out", r)
                                     ELSE leases'[c] = leases[c]
  BY <1>1, <1>2
<1> HIDE DEF v
<1>5. Isolated(leases')
  BY <1>0, <1>4, IsolatedShrinks
<1>6. DiskFollows'
  <2> SUFFICES ASSUME disk # None
               PROVE  /\ Isolated(disk.leases) /\ Recorded(disk)'
                      /\ \A c \in Contract : Lagging(disk.leases[c], leases[c], c)'
    BY <1>2 DEF DiskFollows
  <2>1. /\ Isolated(disk.leases) /\ Recorded(disk)
        /\ \A c \in Contract : Lagging(disk.leases[c], leases[c], c)
    BY DEF RoomyInv, DiskFollows
  <2>2. Recorded(disk)'
    BY <1>2, <2>1 DEF Recorded
  <2>3. ASSUME NEW c \in Contract PROVE Lagging(disk.leases[c], leases[c], c)'
    <3>1. CASE c \in Expired(leases)
      <4>1. leases[c].state = "active" /\ now >= Expiry(leases[c])
        BY <3>1 DEF Expired, ActiveIn
      <4>2. leases[c] = disk.leases[c]
        BY <2>1, <4>1 DEF Lagging
      <4>3. PICK r : leases'[c] = Stopped(leases[c], c, "timed_out", r)
        BY <1>4, <3>1
      <4>4. leases[c] \in Lease /\ LeaseOK(leases[c], c) /\ "timed_out" \in Stopping
        BY <1>0 DEF Leases, LeasesOK, Stopping
      <4>5. /\ leases'[c].state = "timed_out" /\ leases'[c].stop /\ leases'[c].result = None
            /\ leases'[c].usage = FinalUsage(leases[c], c)
            /\ leases'[c].usage.units = leases[c].usage.units
            /\ Moves(leases[c], leases'[c])
        BY <1>0, <4>1, <4>3, <4>4, StoppedOK
      <4>6. FinalUsage(leases[c], c).wall \in Nat
        BY <1>0, <4>4, FinalUsageType DEF Usage
      <4>7. FinalUsage(disk.leases[c], c)' = FinalUsage(disk.leases[c], c)
        BY <1>2 DEF FinalUsage
      <4>8. Expiry(disk'.leases[c]) = Expiry(disk.leases[c]) /\ now' = now /\ disk' = disk
        BY <1>2
      <4> QED
        BY <4>1, <4>2, <4>5, <4>6, <4>7, <4>8 DEF Lagging, Moves
    <3>2. CASE c \notin Expired(leases)
      <4>1. leases'[c] = leases[c]
        BY <1>4, <3>2
      <4>2. FinalUsage(disk.leases[c], c)' = FinalUsage(disk.leases[c], c)
        BY <1>2 DEF FinalUsage
      <4> QED
        BY <1>2, <2>1, <4>1, <4>2 DEF Lagging
    <3> QED
      BY <3>1, <3>2
  <2> QED
    BY <2>1, <2>2, <2>3
<1>7. \A c \in Contract : ~Undoes(c)
  BY <1>3 DEF Advance, Moved, Undoes
<1> QED
  BY <1>0, <1>2, <1>4, <1>5, <1>6, <1>7 DEF Sound, Holds

(* What a call that goes on after its sweep of overdue leases finds. *)
Swept(ms, led) ==
    /\ ms \in Leases /\ LeasesOK(ms) /\ Moved(leases, ms)
    /\ \A c \in Contract : leases[c].stop => ms[c].stop
    /\ Follows(ms, led) /\ Isolated(ms)
    /\ ActiveIn(ms) \subseteq ActiveIn(leases)

(* The sweep itself establishes it. *)
LEMMA SweepGood ==
    ASSUME RoomyTeam, RoomyInv, up
    PROVE  Swept(AfterExpiry(leases, ledger).leases, AfterExpiry(leases, ledger).ledger)
<1> DEFINE ms == AfterExpiry(leases, ledger).leases
           led == AfterExpiry(leases, ledger).ledger
<1>0. /\ leases \in Leases /\ LeasesOK(leases) /\ now \in Nat /\ Follows(leases, ledger) /\ Isolated(leases)
      /\ ledger \in Ledger /\ LedgerBound(ledger)
  BY RoomyTypes DEF RoomyInv
<1>1. LET w == AfterExpiry(leases, ledger)
      IN  /\ w.ok
          /\ Follows(w.leases, w.ledger)
          /\ ActiveIn(w.leases) = ActiveIn(leases) \ Expired(leases)
          /\ \A c \in Contract :
                IF c \in Expired(leases) THEN \E r : w.leases[c] = Stopped(leases[c], c, "timed_out", r)
                                         ELSE w.leases[c] = leases[c]
  BY <1>0, ExpiryFollows
<1>2. /\ LeasesOK(ms) /\ Moved(leases, ms) /\ \A c \in Contract : leases[c].stop => ms[c].stop
  BY <1>0, ExpiryLeases
<1>3. ms \in Leases
  BY <1>0, AfterExpiryKeeps
<1>4. Follows(ms, led) /\ ActiveIn(ms) \subseteq ActiveIn(leases)
  BY <1>1
<1> HIDE DEF ms, led
<1>5. Isolated(ms)
  BY <1>0, <1>4, IsolatedShrinks
<1>6. Swept(ms, led)
  BY <1>2, <1>3, <1>4, <1>5 DEF Swept
<1> QED
  BY <1>6 DEF ms, led

(* A persisted change of one swept lease that adds no active one. *)
LEMMA AfterSweepSound ==
    ASSUME RoomyInv, NEW ms, NEW led, Swept(ms, led), leases' \in Leases, Moved(ms, leases'),
           \A c \in Contract : ms[c].stop => leases'[c].stop,
           Follows(leases', ledger'), ActiveIn(leases') \subseteq ActiveIn(ms),
           cancelled' = cancelled, disk' = State'
    PROVE  Sound
<1>1. Isolated(leases')
  BY IsolatedShrinks DEF Swept
<1>2. Moved(leases, leases')
  BY MovedTwice, RoomyTypes DEF Swept
<1>3. ActiveIn(leases') \subseteq ActiveIn(leases)
  BY DEF Swept
<1>4. \A c \in Contract : Moves(leases[c], leases'[c]) /\ (leases[c].stop => leases'[c].stop)
  BY <1>2 DEF Moved, Swept
<1> QED
  BY <1>1, <1>3, <1>4, PersistedSound

(* charge(): states and settlements stand. *)
LEMMA ChargeSound ==
    ASSUME RoomyTeam, RoomyInv, leases' \in Leases,
           NEW c \in Contract, NEW i \in DeliveryId, NEW u \in Deltas, ChargeAccepted(c, i, u)
    PROVE  Sound
<1> DEFINE vl == AfterExpiry(leases, ledger).leases
           led == AfterExpiry(leases, ledger).ledger
           m == [vl[c] EXCEPT !.usage = Plus(vl[c].usage, u)]
<1>1. /\ up /\ vl[c].state = "active" /\ Within(Plus(vl[c].usage, u), Budget[c])
      /\ leases' = [vl EXCEPT ![c].usage = Plus(@, u)]
      /\ ledger' = led /\ cancelled' = cancelled /\ disk' = State'
  BY DEF ChargeAccepted, Live, Persist
<1>2. Swept(vl, led)
  BY <1>1, SweepGood
<1>u. u \in Usage
  BY ControlAssumption
<1> HIDE DEF vl, led
<1>3. vl \in Leases /\ LeasesOK(vl) /\ vl[c] \in Lease /\ LeaseOK(vl[c], c) /\ Follows(vl, led)
  BY <1>2 DEF Swept, Leases, LeasesOK
<1>4. /\ LeaseOK(m, c) /\ Moves(vl[c], m) /\ m.state = "active" /\ m.stop = vl[c].stop
  BY <1>u, <1>1, <1>3, ChargedLease
<1>5. m.settled = vl[c].settled
  BY <1>3 DEF Lease
<1>6. leases' = [vl EXCEPT ![c] = m]
  BY <1>1
<1> HIDE DEF m
<1>7. Moved(vl, leases')
  BY <1>1, <1>3, <1>4, <1>6, OneMoves
<1>8. leases'[c] = m /\ \A d \in Contract : d # c => leases'[d] = vl[d]
  BY <1>3, <1>6 DEF Leases
<1>9. \A d \in Contract : leases'[d].state = vl[d].state /\ leases'[d].settled = vl[d].settled
  BY <1>1, <1>4, <1>5, <1>8
<1>10. ActiveIn(leases') = ActiveIn(vl) /\ Follows(leases', led)
  BY <1>3, <1>9, SameFollows
<1>11. \A d \in Contract : vl[d].stop => leases'[d].stop
  BY <1>4, <1>8
<1> QED
  BY <1>1, <1>2, <1>7, <1>10, <1>11, AfterSweepSound

(* complete(): the lease ends and is settled at its final usage. *)
LEMMA CompleteSound ==
    ASSUME RoomyTeam, RoomyInv, leases' \in Leases, NEW c \in Contract, NEW r \in Outcomes,
           CompleteAccepted(c, r)
    PROVE  Sound
<1> DEFINE vl == AfterExpiry(leases, ledger).leases
           led == AfterExpiry(leases, ledger).ledger
           used == FinalUsages(vl)
           w == FinalUsage(vl[c], c)
           m == [vl[c] EXCEPT !.state = "finished", !.result = r, !.usage = w, !.settled = w]
<1>1. /\ up /\ vl[c].state = "active"
      /\ leases' = [vl EXCEPT ![c] = m]
      /\ ledger' = SettleAll(led, {c}, used) /\ cancelled' = cancelled
      /\ SettleRefused(led, {c}, used) = {} => disk' = State'
  BY DEF CompleteAccepted, Live, Persist, FinalUsages
<1>2. Swept(vl, led)
  BY <1>1, SweepGood
<1>3. used[c] = w
  BY DEF FinalUsages
<1>r. r # None
  BY ControlAssumption, NoneAssumption DEF Result
<1>n. now \in Nat
  BY RoomyTypes
<1> HIDE DEF vl, led, used
<1>4. /\ vl \in Leases /\ LeasesOK(vl) /\ vl[c] \in Lease /\ LeaseOK(vl[c], c) /\ Follows(vl, led)
      /\ {c} \subseteq ActiveIn(vl)
  BY <1>1, <1>2 DEF Swept, Leases, LeasesOK, ActiveIn
<1>5. Within(vl[c].usage, Budget[c]) /\ ~vl[c].stop
  BY <1>1, <1>4, ActiveWithin
<1>6. w \in Usage /\ Within(w, Budget[c])
  BY <1>n, <1>4, <1>5, Finalising
<1>7. LeaseOK(m, c) /\ Moves(vl[c], m) /\ m.state = "finished" /\ m.settled = w
  BY <1>n, <1>r, <1>1, <1>4, CompletedLease
<1> HIDE DEF m, w
<1>8. Fits({c}, used)
  BY <1>3, <1>6 DEF Fits
<1>9. leases'[c] = m /\ \A d \in Contract : d # c => leases'[d] = vl[d]
  BY <1>1, <1>4 DEF Leases
<1>10. Settles(vl, leases', {c}, used)
  BY <1>3, <1>7, <1>9 DEF Settles
<1>11. SettleRefused(led, {c}, used) = {}
  BY <1>4, <1>8, NothingRefused
<1>12. Follows(leases', ledger') /\ ActiveIn(leases') = ActiveIn(vl) \ {c}
  BY <1>1, <1>4, <1>8, <1>10, SettlingFollows
<1>13. Moved(vl, leases')
  BY <1>1, <1>4, <1>7, OneMoves
<1>14. \A d \in Contract : vl[d].stop => leases'[d].stop
  BY <1>5, <1>9
<1> QED
  BY <1>1, <1>2, <1>11, <1>12, <1>13, <1>14, AfterSweepSound

(* admit(): the reservation is checked against the ledger of the leases, so *)
(* the new child is isolated from those that run.                           *)
LEMMA AdmitSound ==
    ASSUME RoomyTeam, RoomyInv, leases' \in Leases, NEW c \in Contract, NEW k \in Key,
           AdmitGranted(c, k)
    PROVE  Sound
<1> DEFINE vl == AfterExpiry(leases, ledger).leases
           led == AfterExpiry(leases, ledger).ledger
           m == NewLease(c, k)
<1>1. /\ up /\ up' = up /\ vl[c].state = "none" /\ ~cancelled /\ CanReserve(led, c)
      /\ leases' = [vl EXCEPT ![c] = m]
      /\ ledger' = Reserve(led, c) /\ cancelled' = cancelled /\ disk' = State'
  BY DEF AdmitGranted, Admissible, Persist
<1>2. Swept(vl, led)
  BY <1>1, SweepGood
<1>3. m.state = "active" /\ m.settled = None /\ ~m.stop /\ m.result = None /\ m.usage = ZeroUsage
      /\ ZeroUsage.units = 0 /\ ZeroUsage.wall = 0
  BY NewLeaseOK
<1> HIDE DEF vl, led, m
<1>4. /\ vl \in Leases /\ LeasesOK(vl) /\ Follows(vl, led) /\ Isolated(vl) /\ Moved(leases, vl)
  BY <1>2 DEF Swept
<1>5. leases'[c] = m /\ \A d \in Contract : d # c => leases'[d] = vl[d]
  BY <1>1, <1>4 DEF Leases
<1>6. /\ ActiveIn(leases') = ActiveIn(vl) \cup {c} /\ TerminalIn(leases') = TerminalIn(vl)
      /\ c \notin TerminalIn(vl) /\ c \notin ActiveIn(vl)
  BY <1>1, <1>3, <1>5 DEF ActiveIn, TerminalIn, Held
<1>7. SumUsage(SettledOf(leases'), TerminalIn(leases')) = SumUsage(SettledOf(vl), TerminalIn(vl))
  <2>1. \A d \in TerminalIn(vl) : SettledOf(leases')[d] = SettledOf(vl)[d]
    <3>1. TerminalIn(vl) \subseteq Contract
      BY DEF TerminalIn, Held
    <3> QED
      BY <1>5, <1>6, <3>1 DEF SettledOf
  <2> QED
    BY <1>6, <2>1, SumUsageAgrees
<1>8. Follows(leases', ledger')
  <2>1. /\ ledger'.active = led.active \cup {c} /\ ledger'.settled = led.settled
        /\ ledger'.consumed = led.consumed
    <3>1. led \in Ledger
      BY RoomyTypes, AfterExpiryKeeps DEF led
    <3> QED
      BY <1>1, <3>1 DEF Reserve, Ledger
  <2> QED
    BY <1>4, <1>6, <1>7, <2>1 DEF Follows
<1>9. Isolated(leases')
  <2>1. led.active = ActiveIn(vl) /\ IsFiniteSet(ActiveIn(vl)) /\ ActiveIn(vl) \subseteq Contract
    BY <1>4, SubsetsOfContractFinite DEF Follows, ActiveIn
  <2>2. Cardinality(ActiveIn(vl) \cup {c}) = Cardinality(ActiveIn(vl)) + 1 /\ Cardinality(ActiveIn(vl)) \in Nat
    BY <1>6, <2>1, FS_AddElement, FS_CardinalityType
  <2>3. Cardinality(ActiveIn(leases')) <= MaxConcurrency
    <3>1. Cardinality(ActiveIn(vl)) < MaxConcurrency /\ MaxConcurrency \in Nat
      BY <1>1, <2>1, ControlAssumption DEF CanReserve
    <3>2. Cardinality(ActiveIn(leases')) = Cardinality(ActiveIn(vl)) + 1
      BY <1>6, <2>2
    <3> QED
      BY <2>2, <3>1, <3>2
  <2>4. \A d \in ActiveIn(vl) : ExclusiveScope(ActiveIn(vl) \ {d}, d) /\ ExclusiveScope({d}, c)
    BY <1>1, <1>4, <2>1 DEF Isolated, CanReserve, ExclusiveScope
  <2>5. \A d \in ActiveIn(vl) \cup {c} : ExclusiveScope((ActiveIn(vl) \cup {c}) \ {d}, d)
    BY <2>4 DEF ExclusiveScope
  <2> QED
    BY <1>6, <2>3, <2>5 DEF Isolated
<1>10. ASSUME NEW d \in Contract PROVE Moves(leases[d], leases'[d]) /\ (leases[d].stop => leases'[d].stop)
  <2>1. CASE d = c
    <3>1. leases[c].state = "none"
      BY <1>1, <1>4 DEF Moved, Moves
    <3>2. leases[c] = NoLease
      BY <3>1, RoomyTypes DEF LeasesOK, LeaseOK
    <3>3. Within(ZeroUsage, ZeroUsage)
      BY <1>3 DEF Within
    <3> QED
      BY <1>3, <1>5, <2>1, <3>2, <3>3 DEF Moves, NoLease
  <2>2. CASE d # c
    BY <1>2, <1>5, <2>2 DEF Swept, Moved
  <2> QED
    BY <2>1, <2>2
<1> QED
  BY <1>1, <1>8, <1>9, <1>10 DEF Sound, Holds, Undoes

(* observe_terminal_usage(): within the budget the ledger stands, an overage *)
(* settles the lease, and late usage rebuilds the ledger, which fits.        *)
LEMMA ObserveSound ==
    ASSUME RoomyTeam, RoomyInv, leases' \in Leases, NEW c \in Contract, NEW u \in Reports,
           ObserveTerminalUsage(c, u)
    PROVE  Sound
<1> DEFINE l == leases[c]
           k == Observing(l, c, u)
<1>0. /\ leases \in Leases /\ LeasesOK(leases) /\ Inv /\ l \in Lease /\ LeaseOK(l, c) /\ u \in Usage
      /\ Isolated(leases)
  BY RoomyTypes, ControlAssumption DEF Leases, LeasesOK, RoomyInv
<1>1. up /\ cancelled' = cancelled /\ Follows(leases, ledger)
  BY DEF ObserveTerminalUsage, RoomyInv
<1>2. /\ LeasesOK(leases') /\ Moved(leases, leases') /\ leases'[c].stop = l.stop
      /\ \A d \in Contract : d # c => leases'[d] = leases[d]
  BY <1>0, ObserveLease
<1>3. \A d \in Contract : leases[d].stop => leases'[d].stop
  BY <1>2
<1>4. \A d \in Contract : Moves(leases[d], leases'[d])
  BY <1>2 DEF Moved
<1>5. k.state = l.state /\ k.settled = l.settled /\ k.usage \in Usage /\ k \in Lease
  BY <1>0, ObservedUsage, ObservingType
<1>6. CASE ObserveWithinBudget(c, u)
  <2>1. leases' = [leases EXCEPT ![c] = k] /\ UNCHANGED ledger /\ disk' = State'
    BY <1>6 DEF ObserveWithinBudget, Persist
  <2> HIDE DEF k
  <2>2. leases'[c] = k
    BY <1>0, <2>1 DEF Leases
  <2>3. \A d \in Contract : leases'[d].state = leases[d].state /\ leases'[d].settled = leases[d].settled
    BY <1>2, <1>5, <2>2
  <2> QED
    BY <1>1, <1>2, <1>3, <2>1, <2>3, SameStatesSound
<1>7. CASE ObserveOverage(c, u)
  <2> DEFINE a == CapUsage(k.usage, c)
             used == [d \in {c} |-> a]
             m == [k EXCEPT !.state = "over_budget", !.reason = "budget", !.settled = a]
  <2>1. /\ l.state = "active" /\ k.over # {} /\ leases' = [leases EXCEPT ![c] = m]
        /\ ledger' = SettleAll(ledger, {c}, used)
        /\ SettleRefused(ledger, {c}, used) = {} => disk' = State'
    BY <1>7 DEF ObserveOverage, Persist
  <2>2. m.state = "over_budget" /\ m.settled = a
    BY <1>0, <2>1, ObservedOver
  <2>3. a \in Usage /\ Within(a, Budget[c]) /\ used[c] = a
    BY <1>5, Capping
  <2> HIDE DEF m, a, used, k
  <2>4. leases'[c] = m /\ {c} \subseteq ActiveIn(leases)
    BY <1>0, <2>1 DEF Leases, ActiveIn
  <2>5. Fits({c}, used)
    BY <2>3 DEF Fits
  <2>6. Settles(leases, leases', {c}, used)
    BY <1>2, <2>2, <2>3, <2>4 DEF Settles
  <2>7. disk' = State'
    BY <1>0, <1>1, <2>1, <2>4, <2>5, NothingRefused
  <2>8. Follows(leases', ledger') /\ ActiveIn(leases') = ActiveIn(leases) \ {c}
    BY <1>0, <1>1, <2>1, <2>4, <2>5, <2>6, SettlingFollows
  <2>9. Isolated(leases')
    BY <1>0, <2>8, IsolatedShrinks
  <2> QED
    BY <1>1, <1>3, <1>4, <2>7, <2>8, <2>9, PersistedSound
<1>8. CASE ObserveLate(c, u)
  <2> DEFINE m == [k EXCEPT !.settled = CapUsage(k.usage, c)]
  <2>1. /\ l.state \in Controlled /\ leases' = [leases EXCEPT ![c] = m]
        /\ ledger' = Rebuilt(leases')
        /\ RebuildFits(leases') => disk' = State'
    BY <1>8 DEF ObserveLate, Persist
  <2>2. m.state = l.state /\ l.state # "active"
    BY <1>0, <2>1, ObservedLate DEF Controlled
  <2> HIDE DEF m, k
  <2>3. leases'[c] = m
    BY <1>0, <2>1 DEF Leases
  <2>4. ActiveIn(leases') = ActiveIn(leases)
    BY <1>2, <2>2, <2>3 DEF ActiveIn
  <2>5. Isolated(leases')
    BY <1>0, <2>4 DEF Isolated
  <2>6. RebuildFits(leases') /\ Follows(leases', Rebuilt(leases'))
    BY <1>2, <2>5, RebuildFollows
  <2> QED
    BY <1>1, <1>3, <1>4, <2>1, <2>4, <2>5, <2>6, PersistedSound
<1> QED
  BY <1>6, <1>7, <1>8 DEF ObserveTerminalUsage

(* Time passes, the process dies, or recover() raises: memory and           *)
(* checkpoint stand, and an overdue lease stays overdue.                    *)
LEMMA IdleSound ==
    ASSUME RoomyInv, UNCHANGED <<stateVars, ledger, disk>>, now' \in Nat, now <= now',
           up' => up
    PROVE  Sound
<1>0. UNCHANGED <<plan, registered, inputs, leases, byKey, deliveries, observed, receipts,
                  authorized, consumed, cancelled, ledger, disk>>
  BY DEF stateVars
<1>1. \A c \in Contract : Moves(leases[c], leases'[c]) /\ (leases[c].stop => leases'[c].stop)
  BY <1>0, RoomyTypes, MovesItself DEF Leases
<1>2. DiskFollows'
  <2> SUFFICES ASSUME disk # None
               PROVE  /\ Isolated(disk.leases) /\ Recorded(disk)'
                      /\ \A c \in Contract : Lagging(disk.leases[c], leases[c], c)'
    BY <1>0 DEF DiskFollows
  <2>1. /\ Isolated(disk.leases) /\ Recorded(disk)
        /\ \A c \in Contract : Lagging(disk.leases[c], leases[c], c)
    BY DEF RoomyInv, DiskFollows
  <2>2. Recorded(disk)'
    BY <1>0, <2>1 DEF Recorded
  <2>3. ASSUME NEW c \in Contract PROVE Lagging(disk.leases[c], leases[c], c)'
    <3> DEFINE l == disk.leases[c]
    <3>1. disk \in Checkpoint
      BY DEF RoomyInv, GoodInv, Inv, TypeOK
    <3>2. l \in Lease /\ leases[c] \in Lease
      BY <3>1, RoomyTypes DEF Checkpoint, Leases
    <3>3. /\ l.acquired \in Nat /\ l.expires \in Nat /\ l.deadline \in Nat /\ l.usage.wall \in Nat
          /\ Budget[c].wall \in Nat /\ now \in Nat /\ leases[c].usage.wall \in Nat /\ l.usage \in Usage
      BY <3>2, RoomyTypes, BudgetAssumption DEF Lease, Usage
    <3>4. Expiry(l) \in Nat
      BY <3>3 DEF Expiry, Smaller
    <3>5. FinalUsage(l, c).wall = Smaller(Budget[c].wall, Larger(l.usage.wall, now - l.acquired))
      BY <3>3 DEF FinalUsage, Usage
    <3>6. FinalUsage(l, c)'.wall = Smaller(Budget[c].wall, Larger(l.usage.wall, now' - l.acquired))
      BY <1>0, <3>3 DEF FinalUsage, Usage
    <3>7. FinalUsage(l, c).wall <= FinalUsage(l, c)'.wall /\ FinalUsage(l, c).wall \in Nat
          /\ FinalUsage(l, c)'.wall \in Nat
      BY <3>3, <3>5, <3>6 DEF Smaller, Larger
    <3>8. Lagging(l, leases[c], c)
      BY <2>1
    <3>9. disk'.leases[c] = l /\ leases'[c] = leases[c] /\ Expiry(disk'.leases[c]) = Expiry(l)
      BY <1>0
    <3>10. CASE leases[c] = l
      BY <3>9, <3>10 DEF Lagging
    <3>11. CASE leases[c] # l
      <4> DEFINE m == leases[c]
      <4>1. /\ l.state = "active" /\ now >= Expiry(l)
            /\ m.state = "timed_out" /\ m.result = None /\ m.stop /\ m.key = l.key
            /\ m.usage.units = l.usage.units /\ m.usage.wall <= FinalUsage(l, c).wall
        BY <3>8, <3>11 DEF Lagging
      <4>2. now' >= Expiry(l) /\ m.usage.wall <= FinalUsage(l, c)'.wall
        BY <3>3, <3>4, <3>7, <4>1
      <4> QED
        BY <3>9, <4>1, <4>2 DEF Lagging
    <3> QED
      BY <3>10, <3>11
  <2> QED
    BY <2>1, <2>2, <2>3
<1>3. /\ Isolated(leases') /\ (up' => Follows(leases', ledger'))
      /\ (cancelled' => ActiveIn(leases') = {}) /\ (cancelled => cancelled')
  BY <1>0 DEF RoomyInv
<1> QED
  BY <1>1, <1>2, <1>3 DEF Sound, Holds, Undoes

(* recover(): every lease is again what memory had made of it, because what *)
(* the checkpoint missed were expiries, and they are due again.             *)
LEMMA RecoverSound ==
    ASSUME RoomyTeam, RoomyInv, Recover
    PROVE  Sound
<1> DEFINE dl == disk.leases
           led == Rebuilt(disk.leases)
<1>0. disk \in Checkpoint /\ disk # None /\ now \in Nat /\ leases \in Leases
  BY NoneAssumption, RoomyTypes DEF Recover, RoomyInv, GoodInv, Inv, CheckpointWritten
<1>1. /\ dl \in Leases /\ LeasesOK(dl) /\ Isolated(dl) /\ Recorded(disk)
      /\ \A c \in Contract : Lagging(dl[c], leases[c], c)
  BY <1>0 DEF Checkpoint, Leases, RoomyInv, GoodInv, DiskGood, Good, DiskFollows
<1>2. Follows(dl, led)
  BY <1>1, RebuildFollows
<1>3. LET w == AfterExpiry(dl, led)
      IN  /\ w.ok
          /\ Follows(w.leases, w.ledger)
          /\ ActiveIn(w.leases) = ActiveIn(dl) \ Expired(dl)
          /\ \A c \in Contract :
                IF c \in Expired(dl) THEN \E r : w.leases[c] = Stopped(dl[c], c, "timed_out", r)
                                     ELSE w.leases[c] = dl[c]
  <2> HIDE DEF dl, led
  <2> QED
    BY <1>0, <1>1, <1>2, ExpiryFollows
<1>4. /\ leases' = AfterExpiry(dl, led).leases /\ ledger' = AfterExpiry(dl, led).ledger /\ up'
      /\ plan' = disk.plan /\ registered' = disk.registered /\ inputs' = disk.inputs
      /\ byKey' = disk.byKey /\ deliveries' = disk.deliveries /\ observed' = disk.observed
      /\ receipts' = disk.receipts /\ authorized' = disk.authorized
      /\ consumed' = disk.consumed /\ cancelled' = disk.cancelled
  BY DEF Recover
<1>5. (AfterExpiry(dl, led).ok /\ Expired(dl) # {} /\ disk' = State') \/
      (Expired(dl) = {} /\ disk' = disk)
  BY <1>3 DEF Recover, Persist
<1>6. /\ Follows(leases', ledger') /\ ActiveIn(leases') = ActiveIn(dl) \ Expired(dl)
      /\ \A c \in Contract :
            IF c \in Expired(dl) THEN \E r : leases'[c] = Stopped(dl[c], c, "timed_out", r)
                                 ELSE leases'[c] = dl[c]
  BY <1>3, <1>4
<1>7. cancelled' = cancelled
  BY <1>1, <1>4 DEF Recorded
<1>8. \A c \in Contract : c \notin Expired(dl) => leases[c] = dl[c]
  BY <1>1 DEF Expired, ActiveIn, Lagging
<1>9. Isolated(leases')
  <2> HIDE DEF dl
  <2> QED
    BY <1>1, <1>6, IsolatedShrinks
<1>10. cancelled' => ActiveIn(leases') = {}
  <2>1. ActiveIn(leases') \subseteq ActiveIn(leases)
    BY <1>6, <1>8 DEF ActiveIn
  <2> QED
    BY <1>7, <2>1 DEF RoomyInv
<1>11. disk' = State' \/ DiskFollows'
  <2> SUFFICES ASSUME Expired(dl) = {}, disk' = disk PROVE DiskFollows'
    BY <1>5
  <2>1. \A c \in Contract : leases'[c] = dl[c]
    BY <1>6
  <2>2. Recorded(disk)'
    BY <1>4 DEF Recorded
  <2>3. \A c \in Contract : Lagging(disk.leases[c], leases[c], c)'
    BY <2>1 DEF Lagging
  <2>4. Isolated(disk.leases)'
    BY <1>1
  <2> QED
    BY <2>2, <2>3, <2>4 DEF DiskFollows
<1>12. ASSUME NEW c \in Contract
       PROVE  Moves(leases[c], leases'[c]) /\ (leases[c].stop => leases'[c].stop)
  <2> DEFINE l == dl[c]
             m == leases[c]
             n == leases'[c]
  <2>0. l \in Lease /\ LeaseOK(l, c) /\ m \in Lease
    BY <1>0, <1>1 DEF Leases, LeasesOK
  <2>1. CASE c \notin Expired(dl)
    <3>1. leases'[c] = leases[c]
      BY <1>6, <1>8, <2>1
    <3> QED
      BY <2>0, <3>1, MovesItself
  <2>2. CASE c \in Expired(dl)
    <3>1. PICK r : n = Stopped(l, c, "timed_out", r)
      BY <1>6, <2>2
    <3>2. l.state = "active" /\ "timed_out" \in Stopping
      BY <2>2 DEF Expired, ActiveIn, Stopping
    <3>3. /\ Moves(l, n) /\ n.state = "timed_out" /\ n.stop /\ n.result = None
          /\ n.usage = FinalUsage(l, c) /\ n.usage.units = l.usage.units
      BY <1>0, <2>0, <3>1, <3>2, StoppedOK
    <3>4. CASE m = l
      BY <3>3, <3>4
    <3>5. CASE m # l
      <4>1. /\ m.state = "timed_out" /\ m.result = None /\ m.stop /\ m.key = l.key
            /\ m.usage.units = l.usage.units /\ m.usage.wall <= FinalUsage(l, c).wall
        BY <1>1, <3>5 DEF Lagging
      <4>2. m.usage.units \in Nat /\ n.key = l.key
        BY <2>0, <3>2, <3>3 DEF Lease, Usage, Moves
      <4>3. Within(m.usage, n.usage)
        BY <3>3, <4>1, <4>2 DEF Within
      <4> QED
        BY <3>3, <4>1, <4>2, <4>3 DEF Moves
    <3> QED
      BY <3>4, <3>5
  <2> QED
    BY <2>1, <2>2
<1> QED
  BY <1>6, <1>7, <1>9, <1>10, <1>11, <1>12 DEF Sound, Holds, Undoes

(* Every step of a roomy team is sound. *)
LEMMA NextSound ==
    ASSUME RoomyTeam, RoomyInv, Next, leases' \in Leases, now' \in Nat
    PROVE  Sound
<1>e. ASSUME up, OnlyExpiry PROVE Sound
  BY <1>e, OnlyExpirySound
<1>1. CASE RegisterPlan
  BY <1>1, UntouchedSound DEF RegisterPlan, Persist
<1>2. ASSUME NEW c \in Contract, NEW ins \in SUBSET Contract, Register(c, ins) PROVE Sound
  BY <1>2, UntouchedSound DEF Register, Persist
<1>3. ASSUME NEW c \in Contract, RecordPhaseReceipt(c) PROVE Sound
  BY <1>3, UntouchedSound DEF RecordPhaseReceipt, Persist
<1>4. ASSUME NEW c \in Contract, IssuePhaseAuthorization(c) PROVE Sound
  BY <1>4, UntouchedSound DEF IssuePhaseAuthorization, Persist
<1>5. ASSUME NEW c \in Contract, NEW k \in Key, Admit(c, k) PROVE Sound
  BY <1>5, <1>e, AdmitSound DEF Admit, AdmitRefused
<1>6. ASSUME NEW c \in Contract, Heartbeat(c) PROVE Sound
  BY <1>6, HeartbeatSound
<1>7. ASSUME NEW c \in Contract, NEW i \in DeliveryId, NEW u \in Deltas, Charge(c, i, u) PROVE Sound
  BY <1>7, <1>e, ChargeSound DEF Charge, ChargeRefused
<1>8. ASSUME NEW c \in Contract, NEW u \in Reports, ObserveTerminalUsage(c, u) PROVE Sound
  BY <1>8, ObserveSound
<1>9. ASSUME NEW c \in Contract, NEW b \in BOOLEAN, RecordTerminalResult(c, b) PROVE Sound
  BY <1>9, TerminalResultSound
<1>10. ASSUME NEW c \in Contract, NEW r \in Outcomes, Complete(c, r) PROVE Sound
  BY <1>10, <1>e, CompleteSound DEF Complete, CompleteRefused
<1>11. ASSUME NEW c \in Contract, CancelWorker(c) PROVE Sound
  <2>1. /\ {c} \subseteq ActiveIn(leases) /\ "cancelled" \in Stopping /\ up /\ cancelled' = cancelled
        /\ Ending(EndAll(leases, ledger, {c}, "cancelled", ByCancellation))
    BY <1>11 DEF CancelWorker, ActiveIn, Stopping
  <2> QED
    BY <2>1, EndingSound
<1>12. CASE CancelTeam
  <2>1. /\ "cancelled" \in Stopping /\ up /\ cancelled'
        /\ Ending(EndAll(leases, ledger, ActiveIn(leases), "cancelled", ByCancellation))
    BY <1>12 DEF CancelTeam, Stopping
  <2> QED
    BY <2>1, EndingSound
<1>13. CASE ReapTimeouts
  <2> DEFINE reason == [c \in Contract |-> IF now >= leases[c].deadline THEN "deadline" ELSE "heartbeat"]
  <2>1. /\ "timed_out" \in Stopping /\ up /\ cancelled' = cancelled /\ Expired(leases) \subseteq ActiveIn(leases)
        /\ Ending(EndAll(leases, ledger, Expired(leases), "timed_out", reason))
    BY <1>13 DEF ReapTimeouts, Stopping, Expired, AfterExpiry
  <2> HIDE DEF reason
  <2> QED
    BY <2>1, EndingSound
<1>14. ASSUME NEW c \in Contract, AcknowledgeStopped(c) PROVE Sound
  BY <1>14, AcknowledgeSound
<1>15. CASE Crash
  BY <1>15, IdleSound, RoomyTypes DEF Crash
<1>16. CASE Recover
  BY <1>16, RecoverSound
<1>17. CASE RecoverFails
  BY <1>17, IdleSound, RoomyTypes DEF RecoverFails, vars
<1>18. CASE Tick
  BY <1>18, IdleSound, RoomyTypes DEF Tick
<1> QED
  BY <1>1, <1>2, <1>3, <1>4, <1>5, <1>6, <1>7, <1>8, <1>9, <1>10, <1>11, <1>12, <1>13, <1>14,
     <1>15, <1>16, <1>17, <1>18 DEF Next

(* The invariant of a roomy team is inductive... *)
LEMMA RoomyInit == Init => RoomyInv
<1> SUFFICES ASSUME Init PROVE RoomyInv
  OBVIOUS
<1>1. ActiveIn(leases) = {} /\ Held(leases) = {} /\ TerminalIn(leases) = {}
  BY DEF Init, NoLease, ActiveIn, Held, TerminalIn
<1>2. Isolated(leases)
  BY <1>1, FS_EmptySet, ControlAssumption DEF Isolated
<1>3. Follows(leases, ledger)
  <2>1. SumUsage(SettledOf(leases), {}) = ZeroUsage
    BY SumUsageOfNone
  <2> QED
    BY <1>1, <2>1 DEF Init, EmptyLedger, Follows
<1>4. DiskFollows
  BY DEF Init, DiskFollows
<1> QED
  BY <1>1, <1>2, <1>3, <1>4, GoodInit DEF RoomyInv

(* ... step by step, and every step is sound... *)
LEMMA RoomyStep ==
    ASSUME RoomyTeam, RoomyInv, [Next]_vars
    PROVE  RoomyInv' /\ (Sound \/ UNCHANGED vars)
<1>1. GoodInv'
  BY GoodStep DEF RoomyInv
<1>2. CASE Next
  <2>1. leases' \in Leases /\ now' \in Nat
    BY <1>1 DEF GoodInv, Inv, TypeOK, MemoryOK, Leases
  <2>2. Sound
    BY <1>2, <2>1, NextSound
  <2>3. CASE disk' = State'
    <3>1. disk'.leases = leases' /\ Recorded(disk)'
      BY <2>3 DEF State, Recorded
    <3>2. DiskFollows'
      BY <2>2, <3>1 DEF DiskFollows, Sound, Holds, Lagging
    <3> QED
      BY <1>1, <2>2, <3>2 DEF RoomyInv, Sound, Holds
  <2>4. CASE DiskFollows'
    BY <1>1, <2>2, <2>4 DEF RoomyInv, Sound, Holds
  <2> QED
    BY <2>2, <2>3, <2>4 DEF Sound, Holds
<1>3. CASE UNCHANGED vars
  <2>1. DiskFollows'
    BY <1>3 DEF vars, stateVars, RoomyInv, DiskFollows, Recorded, Lagging, FinalUsage, Expiry
  <2> QED
    BY <1>1, <1>3, <2>1 DEF vars, stateVars, RoomyInv
<1> QED
  BY <1>2, <1>3

(* ... so it always holds. *)
LEMMA RoomyAlways ==
    ASSUME RoomyTeam
    PROVE  Spec => []RoomyInv
<1>1. RoomyInv /\ [Next]_vars => RoomyInv'
  BY RoomyStep
<1> QED
  BY <1>1, RoomyInit, PTL DEF Spec

(* In a team that covers every planned reservation, children that run       *)
(* together are isolated from each other and within the concurrency, and    *)
(* downstream work follows completed work, after any recovery too: what the *)
(* phases run checks, for every plan.                                       *)
THEOREM PhasesAlwaysHold ==
    ASSUME RoomyTeam
    PROVE  Spec => []PhasesHold
<1>1. RoomyInv => ActiveChildrenIsolated
  BY DEF RoomyInv, Isolated, ActiveChildrenIsolated
<1> QED
  BY <1>1, RoomyAlways, DownstreamFollowsCompletion, PTL DEF PhasesHold

(* In such a team the ledger of a running scheduler is always the one its   *)
(* leases imply, whatever the callers do (settle, _rebuild_ledger).         *)
THEOREM LedgerFollowsLeases ==
    ASSUME RoomyTeam
    PROVE  Spec => []LedgerMatchesLeases
<1>1. RoomyInv => LedgerMatchesLeases
  BY DEF RoomyInv, Follows, LedgerMatchesLeases
<1> QED
  BY <1>1, RoomyAlways, PTL

(* In such a team no step of the scheduler, a restart included, revives an  *)
(* ended lease, forgets a stop it owes, drops usage evidence or takes a     *)
(* cancellation back (_expire_locked, recover, cancel_team): the action     *)
(* property of the recovery run, for every team.                            *)
THEOREM NothingIsEverUndone ==
    ASSUME RoomyTeam
    PROVE  Spec => NothingIsUndone
<1>1. RoomyInv /\ [Next]_vars =>
         [\A c \in TerminalIn(leases) : leases'[c].state = leases[c].state]_vars
  <2> SUFFICES ASSUME RoomyInv, Sound, NEW c \in TerminalIn(leases)
               PROVE  leases'[c].state = leases[c].state
    BY RoomyStep
  <2>1. c \in Contract /\ leases[c].state \notin {"none", "active"}
    BY DEF TerminalIn, Held, ActiveIn
  <2> QED
    BY <2>1 DEF Sound, Undoes, Moves
<1>2. RoomyInv /\ [Next]_vars =>
         [\A c \in Contract : leases[c].stop /\ ~leases'[c].stop => AcknowledgeStopped(c)]_vars
  <2> SUFFICES ASSUME RoomyInv, Sound, NEW c \in Contract, leases[c].stop, ~leases'[c].stop
               PROVE  AcknowledgeStopped(c)
    BY RoomyStep
  <2> QED
    BY DEF Sound, Undoes
<1>3. RoomyInv /\ [Next]_vars =>
         [\A c \in Held(leases) :
            /\ Within(leases[c].usage, leases'[c].usage)
            /\ leases[c].result # None => leases'[c].result = leases[c].result]_vars
  <2> SUFFICES ASSUME RoomyInv, Sound, NEW c \in Held(leases)
               PROVE  /\ Within(leases[c].usage, leases'[c].usage)
                      /\ leases[c].result # None => leases'[c].result = leases[c].result
    BY RoomyStep
  <2>1. c \in Contract
    BY DEF Held
  <2> QED
    BY <2>1 DEF Sound, Undoes, Moves
<1>4. RoomyInv /\ [Next]_vars => [cancelled => cancelled' /\ ActiveIn(leases') = {}]_vars
  <2> SUFFICES ASSUME RoomyInv, Sound, cancelled
               PROVE  cancelled' /\ ActiveIn(leases') = {}
    BY RoomyStep
  <2> QED
    BY DEF Sound, Holds
<1>5. Spec => TerminalIsFinal
  BY <1>1, RoomyAlways, PTL DEF Spec, TerminalIsFinal
<1>6. Spec => StopOwedUntilAcknowledged
  BY <1>2, RoomyAlways, PTL DEF Spec, StopOwedUntilAcknowledged
<1>7. Spec => EvidenceRetained
  BY <1>3, RoomyAlways, PTL DEF Spec, EvidenceRetained
<1>8. Spec => CancellationIsPermanent
  BY <1>4, RoomyAlways, PTL DEF Spec, CancellationIsPermanent
<1> QED
  BY <1>5, <1>6, <1>7, <1>8 DEF NothingIsUndone

-----------------------------------------------------------------------------
(* Every checkpoint recovers, when callers observe usage as the             *)
(* orchestrator does: terminal usage before the terminal result is          *)
(* recorded, or at least within the budget, and no charge after it.  The    *)
(* scheduler itself does not enforce that order.                            *)

CallersAreOrderly ==
    /\ \A c \in Contract, i \in DeliveryId, u \in Deltas :
           ChargeAccepted(c, i, u) => observed[c] = None
    /\ \A c \in Contract, u \in Reports :
           ObserveTerminalUsage(c, u) => leases[c].result = None \/ Within(u, Budget[c])

(* The usage of a lease is what its deliveries and its observation say. *)
Measured(ls, dl, ob) ==
    \A c \in Held(ls) :
        /\ ls[c].usage.units = Larger(UnitsTo(dl, c), IF ob[c] = None THEN 0 ELSE ob[c].units)
        /\ WallTo(dl, c) <= ls[c].usage.wall
        /\ ob[c] # None => ob[c].wall <= ls[c].usage.wall

(* The result of a lease the controller ended is bound to that end. *)
ResultBound(l) == l.result # None /\ l.state # "finished" => BoundTerminalResult(l, l.result)

ResultsBound(ls) == \A c \in Contract : ResultBound(ls[c])

OrderlyInv ==
    /\ RoomyInv
    /\ Measured(leases, deliveries, observed) /\ ResultsBound(leases)
    /\ disk # None => Measured(disk.leases, disk.deliveries, disk.observed) /\ ResultsBound(disk.leases)

(* A lease that kept what binds its result, or has none, stays bound. *)
SameBinding(l, m) ==
    m.result # None /\ m.state # "finished" =>
        l.result = m.result /\ l.state = m.state /\ l.over = m.over /\ l.reason = m.reason

(* ... so leases that keep their bindings stay bound. *)
LEMMA StaysBound ==
    ASSUME NEW ls, NEW ms, ResultsBound(ls), \A c \in Contract : SameBinding(ls[c], ms[c])
    PROVE  ResultsBound(ms)
  BY DEF ResultsBound, ResultBound, SameBinding, BoundTerminalResult

(* Leases that move without new usage stay measured. *)
LEMMA MeasuredMoved ==
    ASSUME NEW ls \in Leases, NEW ms \in Leases, Moved(ls, ms), SameUnits(ls, ms), NEW dl, NEW ob,
           dl \in [DeliveryId -> [lease : Contract, usage : Usage] \cup {None}],
           ob \in [Contract -> Usage \cup {None}],
           Counted(ls, dl, ob), Measured(ls, dl, ob)
    PROVE  Measured(ms, dl, ob)
<1> SUFFICES ASSUME NEW c \in Held(ms)
             PROVE  /\ ms[c].usage.units = Larger(UnitsTo(dl, c), IF ob[c] = None THEN 0 ELSE ob[c].units)
                    /\ WallTo(dl, c) <= ms[c].usage.wall
                    /\ ob[c] # None => ob[c].wall <= ms[c].usage.wall
  BY DEF Measured
<1>1. c \in Contract /\ c \in Held(ls) /\ ms[c].usage.units = ls[c].usage.units
      /\ Within(ls[c].usage, ms[c].usage)
  BY DEF Held, Moved, Moves, SameUnits
<1>2. ls[c].usage.wall \in Nat /\ ms[c].usage.wall \in Nat
  BY <1>1 DEF Leases, Lease, Usage
<1>3. WallTo(dl, c) \in Nat
  BY <1>1, DeliveredType DEF Counted
<1>4. ob[c] # None => ob[c].wall \in Nat
  BY <1>1 DEF Usage
<1>5. /\ ls[c].usage.units = Larger(UnitsTo(dl, c), IF ob[c] = None THEN 0 ELSE ob[c].units)
      /\ WallTo(dl, c) <= ls[c].usage.wall
      /\ ob[c] # None => ob[c].wall <= ls[c].usage.wall
  BY <1>1 DEF Measured
<1> QED
  BY <1>1, <1>2, <1>3, <1>4, <1>5 DEF Within

(* The types and parts the steps below use. *)
LEMMA OrderlyTypes ==
    ASSUME OrderlyInv
    PROVE  /\ RoomyInv /\ leases \in Leases /\ LeasesOK(leases) /\ now \in Nat /\ Inv
           /\ ledger \in Ledger /\ LedgerBound(ledger)
           /\ deliveries \in [DeliveryId -> [lease : Contract, usage : Usage] \cup {None}]
           /\ observed \in [Contract -> Usage \cup {None}]
           /\ Counted(leases, deliveries, observed)
           /\ Measured(leases, deliveries, observed) /\ ResultsBound(leases)
<1>1. RoomyInv /\ GoodInv
  BY DEF OrderlyInv, RoomyInv
<1> QED
  BY <1>1, RoomyTypes DEF OrderlyInv, GoodInv, MemoryGood, Good, Inv, TypeOK, MemoryOK

(* What a step has to establish about the memory. *)
Evidenced == Measured(leases', deliveries', observed') /\ ResultsBound(leases')

(* A step without new usage. *)
LEMMA AdvanceEvidenced ==
    ASSUME OrderlyInv, leases' \in Leases, Advance, UNCHANGED <<deliveries, observed>>,
           \A c \in Contract : SameBinding(leases[c], leases'[c])
    PROVE  Evidenced
<1>1. Measured(leases', deliveries, observed)
  BY OrderlyTypes, MeasuredMoved DEF Advance
<1>2. ResultsBound(leases')
  BY OrderlyTypes, StaysBound
<1> QED
  BY <1>1, <1>2 DEF Evidenced

(* Ending leases binds nothing new: they have no result. *)
LEMMA StoppedBinding ==
    ASSUME NEW ls \in Leases, LeasesOK(ls), now \in Nat, NEW led, NEW S, S \subseteq ActiveIn(ls),
           NEW s \in Stopping, NEW reason
    PROVE  \A c \in Contract : SameBinding(ls[c], EndAll(ls, led, S, s, reason).leases[c])
<1> DEFINE ms == EndAll(ls, led, S, s, reason).leases
<1>0. LET es == EndAll(ls, led, S, s, reason).leases
      IN  /\ \A c \in Contract : \/ es[c] = ls[c]
                                 \/ c \in S /\ es[c] = Stopped(ls[c], c, s, reason[c])
          /\ LeasesOK(es)
          /\ Moved(ls, es)
          /\ SameUnits(ls, es)
          /\ \A c \in Contract : ls[c].stop => es[c].stop
  BY EndAllLeases
<1> TAKE c \in Contract
<1>1. ms[c] = ls[c] \/ (c \in S /\ ms[c] = Stopped(ls[c], c, s, reason[c]))
  BY <1>0
<1>2. CASE ms[c] = ls[c]
  BY <1>2 DEF SameBinding
<1>3. CASE c \in S /\ ms[c] = Stopped(ls[c], c, s, reason[c])
  <2>1. ls[c] \in Lease /\ LeaseOK(ls[c], c) /\ ls[c].state = "active"
    BY <1>3 DEF Leases, LeasesOK, ActiveIn
  <2>2. Stopped(ls[c], c, s, reason[c]).result = None
    BY <2>1, StoppedOK
  <2>3. ms[c].result = None
    BY <1>3, <2>2
  <2> HIDE DEF ms
  <2>4. SameBinding(ls[c], ms[c])
    BY <2>3 DEF SameBinding
  <2> QED
    BY <2>4 DEF ms
<1> QED
  BY <1>1, <1>2, <1>3

(* The sweep of overdue leases. *)
LEMMA ExpiryBinding ==
    ASSUME NEW ls \in Leases, LeasesOK(ls), now \in Nat, NEW led
    PROVE  \A c \in Contract : SameBinding(ls[c], AfterExpiry(ls, led).leases[c])
<1> DEFINE reason == [c \in Contract |-> IF now >= ls[c].deadline THEN "deadline" ELSE "heartbeat"]
<1>1. AfterExpiry(ls, led) = EndAll(ls, led, Expired(ls), "timed_out", reason)
  BY DEF AfterExpiry
<1> HIDE DEF reason
<1>2. Expired(ls) \subseteq ActiveIn(ls) /\ "timed_out" \in Stopping
  BY DEF Expired, Stopping
<1> QED
  BY <1>1, <1>2, StoppedBinding

(* Memory with its overdue leases ended: measured, bound, and typed. *)
LEMMA SweptEvidenced ==
    ASSUME NEW ls \in Leases, LeasesOK(ls), now \in Nat, NEW led, NEW dl, NEW ob,
           dl \in [DeliveryId -> [lease : Contract, usage : Usage] \cup {None}],
           ob \in [Contract -> Usage \cup {None}], AfterExpiry(ls, led).leases \in Leases,
           Counted(ls, dl, ob), Measured(ls, dl, ob), ResultsBound(ls)
    PROVE  LET ms == AfterExpiry(ls, led).leases
           IN  /\ LeasesOK(ms) /\ Moved(ls, ms) /\ Counted(ms, dl, ob)
               /\ Measured(ms, dl, ob) /\ ResultsBound(ms)
<1> DEFINE ms == AfterExpiry(ls, led).leases
<1>1. LeasesOK(ms) /\ Moved(ls, ms) /\ SameUnits(ls, ms)
  BY ExpiryLeases
<1>2. \A c \in Contract : SameBinding(ls[c], ms[c])
  BY ExpiryBinding
<1>3. ms \in Leases
  OBVIOUS
<1> HIDE DEF ms
<1>4. Measured(ms, dl, ob)
  BY <1>1, <1>3, MeasuredMoved
<1>5. ResultsBound(ms)
  BY <1>2, StaysBound
<1>6. Counted(ms, dl, ob)
  BY <1>1, CountedMoved
<1> QED
  BY <1>1, <1>4, <1>5, <1>6 DEF ms

(* The steps that end leases, or only sweep. *)
LEMMA EndingEvidenced ==
    ASSUME OrderlyInv, leases' \in Leases, NEW S, S \subseteq ActiveIn(leases),
           leases' = EndAll(leases, ledger, S, "cancelled", ByCancellation).leases,
           UNCHANGED <<deliveries, observed>>
    PROVE  Evidenced
<1>1. "cancelled" \in Stopping
  BY DEF Stopping
<1>2. \A c \in Contract : SameBinding(leases[c], leases'[c])
  BY <1>1, OrderlyTypes, StoppedBinding
<1>3. Advance
  BY OrderlyTypes, CancellingAdvances
<1> QED
  BY <1>2, <1>3, AdvanceEvidenced

(* ... by a sweep. *)
LEMMA ExpiryEvidenced ==
    ASSUME OrderlyInv, leases' \in Leases, leases' = AfterExpiry(leases, ledger).leases,
           UNCHANGED <<deliveries, observed>>
    PROVE  Evidenced
<1>1. \A c \in Contract : SameBinding(leases[c], leases'[c])
  BY OrderlyTypes, ExpiryBinding
<1>2. Advance
  BY OrderlyTypes, ExpiryAdvances
<1> QED
  BY <1>1, <1>2, AdvanceEvidenced

(* heartbeat() and acknowledge_stopped() touch nothing that binds. *)
LEMMA HeartbeatEvidenced ==
    ASSUME OrderlyInv, leases' \in Leases, NEW c \in Contract, Heartbeat(c)
    PROVE  Evidenced
<1>1. \A d \in Contract : SameBinding(leases[d], leases'[d])
  BY OrderlyTypes DEF Heartbeat, Leases, Lease, SameBinding
<1>2. Advance
  BY OrderlyTypes, HeartbeatAdvances
<1> QED
  BY <1>1, <1>2, AdvanceEvidenced DEF Heartbeat

(* acknowledge_stopped(): the same. *)
LEMMA AcknowledgeEvidenced ==
    ASSUME OrderlyInv, leases' \in Leases, NEW c \in Contract, AcknowledgeStopped(c)
    PROVE  Evidenced
<1>1. \A d \in Contract : SameBinding(leases[d], leases'[d])
  BY OrderlyTypes DEF AcknowledgeStopped, Leases, Lease, SameBinding
<1>2. Moved(leases, leases') /\ SameUnits(leases, leases')
  BY OrderlyTypes, AcknowledgeMoves
<1>3. UNCHANGED <<deliveries, observed>>
  BY DEF AcknowledgeStopped
<1>4. Measured(leases', deliveries, observed)
  BY <1>2, OrderlyTypes, MeasuredMoved
<1>5. ResultsBound(leases')
  BY <1>1, OrderlyTypes, StaysBound
<1> QED
  BY <1>3, <1>4, <1>5 DEF Evidenced

(* record_terminal_result() checks the binding it creates. *)
LEMMA TerminalResultEvidenced ==
    ASSUME OrderlyInv, leases' \in Leases, NEW c \in Contract, NEW b, RecordTerminalResult(c, b)
    PROVE  Evidenced
<1> DEFINE r == [disposition |-> "failed", commit |-> None, budget |-> b, reason |-> leases[c].reason]
<1>0. /\ BoundTerminalResult(leases[c], r)
      /\ leases' = [leases EXCEPT ![c].result = r]
      /\ UNCHANGED <<deliveries, observed>>
  BY DEF RecordTerminalResult
<1> HIDE DEF r
<1>1. /\ \A d \in Contract : d # c => leases'[d] = leases[d]
      /\ leases'[c].result = r /\ leases'[c].state = leases[c].state
      /\ leases'[c].over = leases[c].over /\ leases'[c].reason = leases[c].reason
  BY <1>0, OrderlyTypes DEF Leases, Lease
<1>2. ResultBound(leases'[c])
  BY <1>0, <1>1 DEF ResultBound, BoundTerminalResult
<1>3. ResultsBound(leases')
  BY <1>1, <1>2, OrderlyTypes DEF ResultsBound
<1>4. Measured(leases', deliveries, observed)
  BY OrderlyTypes, TerminalResultAdvances, MeasuredMoved DEF Advance
<1> QED
  BY <1>0, <1>3, <1>4 DEF Evidenced

(* complete() after its sweep. *)
LEMMA CompleteEvidenced ==
    ASSUME OrderlyInv, leases' \in Leases, NEW c \in Contract, NEW r \in Outcomes, CompleteAccepted(c, r)
    PROVE  Evidenced
<1> DEFINE vl == AfterExpiry(leases, ledger).leases
           w == FinalUsage(vl[c], c)
           m == [vl[c] EXCEPT !.state = "finished", !.result = r, !.usage = w, !.settled = w]
<1>0. leases' = [vl EXCEPT ![c] = m] /\ UNCHANGED <<deliveries, observed>>
  BY DEF CompleteAccepted, FinalUsages
<1>1. vl \in Leases
  BY OrderlyTypes, AfterExpiryKeeps
<1>2. \A d \in Contract : SameBinding(leases[d], vl[d])
  BY OrderlyTypes, ExpiryBinding
<1>3. Advance
  BY OrderlyTypes, CompleteAdvances
<1> HIDE DEF vl, w
<1>4. m.state = "finished"
  BY <1>1 DEF Leases, Lease
<1> HIDE DEF m
<1>5. leases'[c].state = "finished" /\ \A d \in Contract : d # c => leases'[d] = vl[d]
  BY <1>0, <1>1, <1>4 DEF Leases
<1>6. \A d \in Contract : SameBinding(leases[d], leases'[d])
  BY <1>2, <1>5 DEF SameBinding
<1> QED
  BY <1>0, <1>3, <1>6, AdvanceEvidenced

(* admit(): nothing was delivered or observed for the new lease. *)
LEMMA AdmitEvidenced ==
    ASSUME OrderlyInv, leases' \in Leases, NEW c \in Contract, NEW k \in Key, AdmitGranted(c, k)
    PROVE  Evidenced
<1> DEFINE vl == AfterExpiry(leases, ledger).leases
           m == NewLease(c, k)
<1>0. /\ leases' = [vl EXCEPT ![c] = m] /\ UNCHANGED <<deliveries, observed>> /\ vl[c].state = "none"
  BY DEF AdmitGranted, Admissible
<1>1. vl \in Leases
  BY OrderlyTypes, AfterExpiryKeeps
<1>2. /\ LeasesOK(vl) /\ Counted(vl, deliveries, observed)
      /\ Measured(vl, deliveries, observed) /\ ResultsBound(vl)
  BY <1>1, OrderlyTypes, SweptEvidenced
<1>3. m.usage.units = 0 /\ m.usage.wall = 0 /\ m.result = None
  BY NewLeaseOK
<1>d. /\ deliveries \in [DeliveryId -> [lease : Contract, usage : Usage] \cup {None}]
      /\ observed \in [Contract -> Usage \cup {None}]
  BY OrderlyTypes
<1> HIDE DEF vl, m
<1>4. leases'[c] = m /\ \A d \in Contract : d # c => leases'[d] = vl[d]
  BY <1>0, <1>1 DEF Leases
<1>5. ResultsBound(leases')
  BY <1>2, <1>3, <1>4 DEF ResultsBound, ResultBound
<1>6. AcceptedFor(deliveries, c) = {} /\ observed[c] = None
  BY <1>0, <1>2 DEF Counted, AcceptedFor, Held
<1>7. UnitsTo(deliveries, c) = 0 /\ WallTo(deliveries, c) = 0
  BY <1>2, <1>6, <1>d, DeliveredType DEF Counted
<1>8. Measured(leases', deliveries, observed)
  <2> SUFFICES ASSUME NEW d \in Held(leases')
               PROVE  /\ leases'[d].usage.units = Larger(UnitsTo(deliveries, d),
                                                         IF observed[d] = None THEN 0 ELSE observed[d].units)
                      /\ WallTo(deliveries, d) <= leases'[d].usage.wall
                      /\ observed[d] # None => observed[d].wall <= leases'[d].usage.wall
    BY DEF Measured
  <2>1. CASE d = c
    BY <1>3, <1>4, <1>6, <1>7, <2>1 DEF Larger
  <2>2. CASE d # c
    <3>1. d \in Held(vl) /\ leases'[d] = vl[d]
      BY <1>4, <2>2 DEF Held
    <3> QED
      BY <1>2, <3>1 DEF Measured
  <2> QED
    BY <2>1, <2>2
<1> QED
  BY <1>0, <1>5, <1>8 DEF Evidenced

(* charge(): delivered and recorded usage grow together, because nothing    *)
(* was observed yet.                                                        *)
LEMMA ChargeEvidenced ==
    ASSUME OrderlyInv, leases' \in Leases, NEW c \in Contract, NEW i \in DeliveryId, NEW u \in Deltas,
           ChargeAccepted(c, i, u), observed[c] = None
    PROVE  Evidenced
<1> DEFINE vl == AfterExpiry(leases, ledger).leases
           m == [vl[c] EXCEPT !.usage = Plus(vl[c].usage, u)]
           em == Delivering(deliveries, i, c, u)
<1>0. /\ vl[c].state = "active" /\ deliveries[i] = None
      /\ Within(Plus(vl[c].usage, u), Budget[c])
      /\ leases' = [vl EXCEPT ![c].usage = Plus(@, u)]
      /\ deliveries' = em /\ UNCHANGED observed
  BY DEF ChargeAccepted, Live, Delivering
<1>u. u \in Usage
  BY ControlAssumption
<1>d. /\ deliveries \in [DeliveryId -> [lease : Contract, usage : Usage] \cup {None}]
      /\ observed \in [Contract -> Usage \cup {None}]
  BY OrderlyTypes
<1>1. vl \in Leases
  BY OrderlyTypes, AfterExpiryKeeps
<1>2. /\ LeasesOK(vl) /\ Counted(vl, deliveries, observed)
      /\ Measured(vl, deliveries, observed) /\ ResultsBound(vl)
  BY <1>1, OrderlyTypes, SweptEvidenced
<1> HIDE DEF vl, em
<1>3. vl[c] \in Lease /\ LeaseOK(vl[c], c) /\ c \in Held(vl)
  BY <1>0, <1>1, <1>2 DEF Leases, LeasesOK, Held
<1>4. m.usage = Plus(vl[c].usage, u) /\ m.result = None
  <2>1. vl[c].result = None
    BY <1>0, <1>3, ActiveWithin
  <2> QED
    BY <1>3, <2>1 DEF Lease
<1>5. leases' = [vl EXCEPT ![c] = m]
  BY <1>0
<1> HIDE DEF m
<1>6. leases'[c] = m /\ \A d \in Contract : d # c => leases'[d] = vl[d]
  BY <1>1, <1>5 DEF Leases
<1>7. ResultsBound(leases')
  BY <1>2, <1>4, <1>6 DEF ResultsBound, ResultBound
<1>8. /\ UnitsTo(em, c) = UnitsTo(deliveries, c) + u.units
      /\ WallTo(em, c) = WallTo(deliveries, c) + u.wall
      /\ \A d \in Contract : d # c =>
             UnitsTo(em, d) = UnitsTo(deliveries, d) /\ WallTo(em, d) = WallTo(deliveries, d)
  <2>1. IsFiniteSet({j \in DeliveryId : deliveries[j] # None})
    BY <1>2 DEF Counted
  <2>2. LET en == Delivering(deliveries, i, c, u)
        IN  /\ IsFiniteSet({j \in DeliveryId : en[j] # None})
            /\ UnitsTo(en, c) = UnitsTo(deliveries, c) + u.units
            /\ WallTo(en, c) = WallTo(deliveries, c) + u.wall
            /\ \A d \in Contract : d # c =>
                   UnitsTo(en, d) = UnitsTo(deliveries, d) /\ WallTo(en, d) = WallTo(deliveries, d)
    BY <1>d, <1>u, <1>0, <2>1, DeliveryAdds
  <2> QED
    BY <2>2 DEF em
<1>9. UnitsTo(deliveries, c) \in Nat /\ WallTo(deliveries, c) \in Nat
  BY <1>2, <1>d, DeliveredType DEF Counted
<1>10. /\ u.units \in Nat /\ u.wall \in Nat /\ vl[c].usage.units \in Nat /\ vl[c].usage.wall \in Nat
       /\ m.usage.units = vl[c].usage.units + u.units /\ m.usage.wall = vl[c].usage.wall + u.wall
  BY <1>u, <1>3, <1>4 DEF Lease, Usage, Plus
<1>11. vl[c].usage.units = Larger(UnitsTo(deliveries, c), 0) /\ WallTo(deliveries, c) <= vl[c].usage.wall
  BY <1>2, <1>3 DEF Measured
<1>12. m.usage.units = Larger(UnitsTo(em, c), 0) /\ WallTo(em, c) <= m.usage.wall
  BY <1>8, <1>9, <1>10, <1>11 DEF Larger
<1>13. Measured(leases', em, observed)
  <2> SUFFICES ASSUME NEW d \in Held(leases')
               PROVE  /\ leases'[d].usage.units = Larger(UnitsTo(em, d),
                                                         IF observed[d] = None THEN 0 ELSE observed[d].units)
                      /\ WallTo(em, d) <= leases'[d].usage.wall
                      /\ observed[d] # None => observed[d].wall <= leases'[d].usage.wall
    BY DEF Measured
  <2>1. CASE d = c
    BY <1>6, <1>12, <2>1
  <2>2. CASE d # c
    <3>1. d \in Contract /\ d \in Held(vl) /\ leases'[d] = vl[d]
      BY <1>6, <2>2 DEF Held
    <3>2. UnitsTo(em, d) = UnitsTo(deliveries, d) /\ WallTo(em, d) = WallTo(deliveries, d)
      BY <1>8, <2>2, <3>1
    <3> QED
      BY <1>2, <3>1, <3>2 DEF Measured
  <2> QED
    BY <2>1, <2>2
<1> QED
  BY <1>0, <1>7, <1>13 DEF Evidenced

(* A report within the budget makes no lease over that was not. *)
LEMMA ReportWithin ==
    ASSUME NEW l \in Lease, NEW c \in Contract, NEW u \in Usage, Within(u, Budget[c]),
           Observing(l, c, u).over # {}
    PROVE  OverageDimensions(l.usage, c) # {}
<1> DEFINE w == UsageMax(l.usage, u)
<1>0. /\ l.usage \in Usage /\ l.usage.wall \in Nat /\ l.usage.units \in Nat
      /\ u.wall \in Nat /\ u.units \in Nat /\ Budget[c].wall \in Nat /\ Budget[c].units \in Nat
  BY BudgetAssumption DEF Lease, Usage
<1>1. w \in Usage /\ (Within(l.usage, Budget[c]) => Within(w, Budget[c]))
  BY <1>0 DEF UsageMax, Larger, Usage, Within
<1>2. OverageDimensions(w, c) # {}
  BY ObservedUsage
<1> HIDE DEF w
<1> QED
  BY <1>0, <1>1, <1>2, NoOverage

(* observe_terminal_usage(): the observation joins the evidence, and an     *)
(* overage it discovers finds no result that does not name it.              *)
LEMMA ObserveEvidenced ==
    ASSUME OrderlyInv, leases' \in Leases, NEW c \in Contract, NEW u \in Reports,
           ObserveTerminalUsage(c, u), leases[c].result = None \/ Within(u, Budget[c])
    PROVE  Evidenced
<1> DEFINE l == leases[c]
           n == leases'[c]
           k == Observing(l, c, u)
<1>0. /\ leases \in Leases /\ l \in Lease /\ LeaseOK(l, c) /\ u \in Usage /\ LeasesOK(leases) /\ Inv
      /\ deliveries \in [DeliveryId -> [lease : Contract, usage : Usage] \cup {None}]
      /\ observed \in [Contract -> Usage \cup {None}]
      /\ Counted(leases, deliveries, observed)
      /\ Measured(leases, deliveries, observed) /\ ResultsBound(leases)
  BY OrderlyTypes, ControlAssumption DEF Leases, LeasesOK
<1>1. /\ observed[c] = None /\ observed' = [observed EXCEPT ![c] = u] /\ UNCHANGED deliveries
  BY DEF ObserveTerminalUsage
<1>2. /\ l.state # "none" /\ n.usage = UsageMax(l.usage, u) /\ n.result = l.result
      /\ \A d \in Contract : d # c => leases'[d] = leases[d]
  BY <1>0, ObserveLease
<1>3. ResultBound(n)
  <2>1. CASE l.state = "active"
    BY <1>0, <1>2, <2>1, ActiveWithin DEF ResultBound
  <2>2. CASE l.state # "active"
    <3> DEFINE m == [k EXCEPT !.settled = CapUsage(k.usage, c)]
    <3>1. l.state \in Controlled /\ leases' = [leases EXCEPT ![c] = m]
      BY <2>2 DEF ObserveTerminalUsage, ObserveWithinBudget, ObserveOverage, ObserveLate
    <3>2. m.over = k.over /\ m.state = l.state /\ m.result = l.result /\ m.reason = l.reason
      <4>1. k \in Lease /\ k.state = l.state /\ k.result = l.result /\ k.reason = l.reason
        BY <1>0, ObservedUsage, ObservingType
      <4> HIDE DEF k
      <4> QED
        BY <4>1 DEF Lease
    <3>3. l.state # "finished" /\ l.state # "none"
      BY <3>1 DEF Controlled
    <3>4. l.result # None /\ k.over # {} => l.over # {}
      <4>1. l.over = OverageDimensions(l.usage, c)
        BY <1>0, <3>3 DEF LeaseOK
      <4> QED
        BY <1>0, <4>1, ReportWithin
    <3>5. l.result # None => BoundTerminalResult(l, l.result)
      BY <1>0, <3>3 DEF ResultsBound, ResultBound
    <3> HIDE DEF m, k
    <3>6. n = m
      BY <1>0, <3>1 DEF Leases
    <3> QED
      BY <3>2, <3>4, <3>5, <3>6 DEF ResultBound, BoundTerminalResult
  <2> QED
    BY <2>1, <2>2
<1>4. ResultsBound(leases')
  BY <1>0, <1>2, <1>3 DEF ResultsBound
<1>5. UnitsTo(deliveries, c) \in Nat /\ WallTo(deliveries, c) \in Nat
  BY <1>0, DeliveredType DEF Counted
<1>6. /\ u.units \in Nat /\ u.wall \in Nat /\ l.usage.units \in Nat /\ l.usage.wall \in Nat
      /\ n.usage.units = Larger(l.usage.units, u.units) /\ n.usage.wall = Larger(l.usage.wall, u.wall)
  BY <1>0, <1>2 DEF Lease, Usage, UsageMax
<1>7. l.usage.units = Larger(UnitsTo(deliveries, c), 0) /\ WallTo(deliveries, c) <= l.usage.wall
  BY <1>0, <1>1, <1>2 DEF Measured, Held
<1>8. /\ n.usage.units = Larger(UnitsTo(deliveries, c), u.units)
      /\ WallTo(deliveries, c) <= n.usage.wall /\ u.wall <= n.usage.wall
  BY <1>5, <1>6, <1>7 DEF Larger
<1>9. observed'[c] = u /\ u # None /\ \A d \in Contract : d # c => observed'[d] = observed[d]
  BY <1>0, <1>1, ControlAssumption
<1>10. Measured(leases', deliveries, observed')
  <2> SUFFICES ASSUME NEW d \in Held(leases')
               PROVE  /\ leases'[d].usage.units = Larger(UnitsTo(deliveries, d),
                                                         IF observed'[d] = None THEN 0 ELSE observed'[d].units)
                      /\ WallTo(deliveries, d) <= leases'[d].usage.wall
                      /\ observed'[d] # None => observed'[d].wall <= leases'[d].usage.wall
    BY DEF Measured
  <2>1. CASE d = c
    BY <1>8, <1>9, <2>1
  <2>2. CASE d # c
    <3>1. d \in Contract /\ d \in Held(leases) /\ leases'[d] = leases[d] /\ observed'[d] = observed[d]
      BY <1>2, <1>9, <2>2 DEF Held
    <3> QED
      BY <1>0, <3>1 DEF Measured
  <2> QED
    BY <2>1, <2>2
<1> QED
  BY <1>1, <1>4, <1>10 DEF Evidenced

(* recover(): the evidence of the checkpoint. *)
LEMMA RecoverEvidenced ==
    ASSUME OrderlyInv, leases' \in Leases, Recover
    PROVE  Evidenced
<1> DEFINE ls == disk.leases
           led == Rebuilt(disk.leases)
<1>0. disk \in Checkpoint /\ disk # None /\ now \in Nat
  BY NoneAssumption, OrderlyTypes DEF Recover, Inv, CheckpointWritten
<1>1. /\ ls \in Leases
      /\ disk.deliveries \in [DeliveryId -> [lease : Contract, usage : Usage] \cup {None}]
      /\ disk.observed \in [Contract -> Usage \cup {None}]
  BY <1>0 DEF Checkpoint, Leases
<1>2. LeasesOK(ls) /\ Counted(ls, disk.deliveries, disk.observed)
  BY <1>0 DEF OrderlyInv, RoomyInv, GoodInv, DiskGood, Good
<1>3. Measured(ls, disk.deliveries, disk.observed) /\ ResultsBound(ls)
  BY <1>0 DEF OrderlyInv
<1>4. leases' = AfterExpiry(ls, led).leases /\ deliveries' = disk.deliveries /\ observed' = disk.observed
  BY DEF Recover
<1> HIDE DEF ls, led
<1>5. Measured(leases', disk.deliveries, disk.observed) /\ ResultsBound(leases')
  BY <1>0, <1>1, <1>2, <1>3, <1>4, SweptEvidenced
<1> QED
  BY <1>4, <1>5 DEF Evidenced

(* One orderly step. *)
LEMMA NextEvidenced ==
    ASSUME OrderlyInv, Next, CallersAreOrderly, leases' \in Leases
    PROVE  Evidenced
<1>s. ASSUME UNCHANGED <<leases, deliveries, observed>> PROVE Evidenced
  BY <1>s DEF OrderlyInv, Evidenced
<1>e. ASSUME OnlyExpiry PROVE Evidenced
  BY <1>e, ExpiryEvidenced DEF OnlyExpiry
<1>1. CASE RegisterPlan
  BY <1>1, <1>s DEF RegisterPlan
<1>2. ASSUME NEW c \in Contract, NEW ins \in SUBSET Contract, Register(c, ins) PROVE Evidenced
  BY <1>2, <1>s DEF Register
<1>3. ASSUME NEW c \in Contract, RecordPhaseReceipt(c) PROVE Evidenced
  BY <1>3, <1>s DEF RecordPhaseReceipt
<1>4. ASSUME NEW c \in Contract, IssuePhaseAuthorization(c) PROVE Evidenced
  BY <1>4, <1>s DEF IssuePhaseAuthorization
<1>5. ASSUME NEW c \in Contract, NEW k \in Key, Admit(c, k) PROVE Evidenced
  BY <1>5, <1>e, AdmitEvidenced DEF Admit, AdmitRefused
<1>6. ASSUME NEW c \in Contract, Heartbeat(c) PROVE Evidenced
  BY <1>6, HeartbeatEvidenced
<1>7. ASSUME NEW c \in Contract, NEW i \in DeliveryId, NEW u \in Deltas, Charge(c, i, u) PROVE Evidenced
  <2>1. CASE ChargeAccepted(c, i, u)
    <3>1. observed[c] = None
      BY <2>1 DEF CallersAreOrderly
    <3> QED
      BY <2>1, <3>1, ChargeEvidenced
  <2>2. CASE ChargeRefused(c, i, u)
    BY <2>2, <1>e DEF ChargeRefused
  <2> QED
    BY <1>7, <2>1, <2>2 DEF Charge
<1>8. ASSUME NEW c \in Contract, NEW u \in Reports, ObserveTerminalUsage(c, u) PROVE Evidenced
  <2>1. leases[c].result = None \/ Within(u, Budget[c])
    BY <1>8 DEF CallersAreOrderly
  <2> QED
    BY <1>8, <2>1, ObserveEvidenced
<1>9. ASSUME NEW c \in Contract, NEW b \in BOOLEAN, RecordTerminalResult(c, b) PROVE Evidenced
  BY <1>9, TerminalResultEvidenced
<1>10. ASSUME NEW c \in Contract, NEW r \in Outcomes, Complete(c, r) PROVE Evidenced
  BY <1>10, <1>e, CompleteEvidenced DEF Complete, CompleteRefused
<1>11. ASSUME NEW c \in Contract, CancelWorker(c) PROVE Evidenced
  <2>1. {c} \subseteq ActiveIn(leases)
    BY <1>11 DEF CancelWorker, ActiveIn
  <2>2. /\ leases' = EndAll(leases, ledger, {c}, "cancelled", ByCancellation).leases
        /\ UNCHANGED <<deliveries, observed>>
    BY <1>11 DEF CancelWorker, Ending
  <2> QED
    BY <2>1, <2>2, EndingEvidenced
<1>12. CASE CancelTeam
  <2>1. /\ leases' = EndAll(leases, ledger, ActiveIn(leases), "cancelled", ByCancellation).leases
        /\ UNCHANGED <<deliveries, observed>>
    BY <1>12 DEF CancelTeam, Ending
  <2> QED
    BY <2>1, EndingEvidenced
<1>13. CASE ReapTimeouts
  BY <1>13, ExpiryEvidenced DEF ReapTimeouts, Ending
<1>14. ASSUME NEW c \in Contract, AcknowledgeStopped(c) PROVE Evidenced
  BY <1>14, AcknowledgeEvidenced
<1>15. CASE Crash
  BY <1>15, <1>s DEF Crash, stateVars
<1>16. CASE Recover
  BY <1>16, RecoverEvidenced
<1>17. CASE RecoverFails
  BY <1>17, <1>s DEF RecoverFails, vars, stateVars
<1>18. CASE Tick
  BY <1>18, <1>s DEF Tick, stateVars
<1> QED
  BY <1>1, <1>2, <1>3, <1>4, <1>5, <1>6, <1>7, <1>8, <1>9, <1>10, <1>11, <1>12, <1>13, <1>14,
     <1>15, <1>16, <1>17, <1>18 DEF Next

(* The invariant of a roomy team with orderly callers is inductive. *)
LEMMA OrderlyInit == Init => OrderlyInv
<1> SUFFICES ASSUME Init PROVE OrderlyInv
  OBVIOUS
<1>1. \A c \in Contract : leases[c] = NoLease
  BY DEF Init
<1>2. Held(leases) = {} /\ ResultsBound(leases)
  BY <1>1 DEF Held, NoLease, ResultsBound, ResultBound
<1>3. Measured(leases, deliveries, observed)
  BY <1>2 DEF Measured
<1>4. disk = None
  BY DEF Init
<1> QED
  BY <1>2, <1>3, <1>4, RoomyInit DEF OrderlyInv

(* ... step by step. *)
LEMMA OrderlyStep ==
    ASSUME RoomyTeam, OrderlyInv, [Next]_vars, [CallersAreOrderly]_vars
    PROVE  OrderlyInv'
<1>1. RoomyInv'
  BY RoomyStep DEF OrderlyInv
<1>2. CASE UNCHANGED vars
  BY <1>1, <1>2 DEF vars, stateVars, OrderlyInv
<1>3. CASE Next /\ CallersAreOrderly
  <2>1. leases' \in Leases
    BY <1>1 DEF RoomyInv, GoodInv, Inv, TypeOK, MemoryOK, Leases
  <2>2. Measured(leases', deliveries', observed') /\ ResultsBound(leases')
    BY <1>3, <2>1, NextEvidenced DEF Evidenced
  <2>3. disk' = disk \/ disk' = State'
    BY <1>3, NextKeeps DEF Kept, OrderlyInv, RoomyInv, GoodInv
  <2>4. CASE disk' = disk
    BY <1>1, <2>2, <2>4 DEF OrderlyInv
  <2>5. CASE disk' = State'
    <3>1. disk'.leases = leases' /\ disk'.deliveries = deliveries' /\ disk'.observed = observed'
      BY <2>5 DEF State
    <3> QED
      BY <1>1, <2>2, <3>1 DEF OrderlyInv
  <2> QED
    BY <2>3, <2>4, <2>5
<1> QED
  BY <1>2, <1>3

(* A checkpoint that satisfies it passes _validate_recovered_state() lease  *)
(* by lease...                                                              *)
LEMMA LeaseIsValid ==
    ASSUME NEW d \in Checkpoint, NEW c \in Held(d.leases),
           LeasesOK(d.leases), Keyed(d.leases, d.registered, d.byKey),
           Counted(d.leases, d.deliveries, d.observed),
           Measured(d.leases, d.deliveries, d.observed), ResultsBound(d.leases)
    PROVE  ValidLease(d, c)
<1> DEFINE l == d.leases[c]
<1>0. /\ c \in Contract /\ l \in Lease /\ LeaseOK(l, c) /\ l.state # "none"
      /\ d.deliveries \in [DeliveryId -> [lease : Contract, usage : Usage] \cup {None}]
      /\ d.observed \in [Contract -> Usage \cup {None}] /\ l.usage \in Usage
  BY DEF Held, Checkpoint, LeasesOK, Lease
<1>1. c \in d.registered /\ d.byKey[l.key] = c
  BY DEF Keyed
<1>2. CapUsage(l.usage, c) \in Usage /\ None \notin Usage
  BY <1>0, Capping, ControlAssumption
<1>3. /\ IF l.state = "active" THEN l.settled = None /\ l.result = None ELSE l.settled # None
      /\ l.state = "finished" => l.result # None
      /\ l.state = "over_budget" => l.over # {}
      /\ l.stop => l.state \in {"cancelled", "timed_out"}
      /\ l.over = OverageDimensions(l.usage, c)
      /\ l.settled # None => l.settled = CapUsage(l.usage, c)
  <2> HIDE DEF l
  <2> QED
    BY <1>0, <1>2 DEF LeaseOK, Stopping
<1>4. l.result # None /\ l.state # "finished" => BoundTerminalResult(l, l.result)
  BY <1>0 DEF ResultsBound, ResultBound
<1>5. DeliveredUnits(d, c) = UnitsTo(d.deliveries, c) /\ DeliveredWall(d, c) = WallTo(d.deliveries, c)
  BY DEF DeliveredUnits, DeliveredWall, DeliveredTo, UnitsTo, WallTo, UnitsOf, WallOf, AcceptedFor
<1>6. UnitsTo(d.deliveries, c) \in Nat /\ WallTo(d.deliveries, c) \in Nat
  BY <1>0, DeliveredType DEF Counted
<1>7. /\ l.usage.units = Larger(UnitsTo(d.deliveries, c),
                                IF d.observed[c] = None THEN 0 ELSE d.observed[c].units)
      /\ WallTo(d.deliveries, c) <= l.usage.wall
      /\ d.observed[c] # None => d.observed[c].wall <= l.usage.wall
  BY DEF Measured
<1>8. l.usage.wall \in Nat /\ (d.observed[c] # None => d.observed[c].wall \in Nat)
  BY <1>0 DEF Usage
<1>9. /\ Evidence(d, c).wall = Larger(WallTo(d.deliveries, c),
                                      IF d.observed[c] = None THEN 0 ELSE d.observed[c].wall)
      /\ Evidence(d, c).units = Larger(UnitsTo(d.deliveries, c),
                                       IF d.observed[c] = None THEN 0 ELSE d.observed[c].units)
  BY <1>5 DEF Evidence, UsageMax, ZeroUsage
<1>10. Evidence(d, c).wall <= l.usage.wall
  BY <1>6, <1>7, <1>8, <1>9 DEF Larger
<1>11. Evidence(d, c).units = l.usage.units
  BY <1>7, <1>9
<1> QED
  BY <1>1, <1>3, <1>4, <1>10, <1>11 DEF ValidLease

(* ... and in its receipts and authorizations. *)
LEMMA EvidenceIsValid ==
    ASSUME NEW d \in Checkpoint,
           Phased(d.leases, d.registered, d.inputs, d.receipts, d.authorized, d.consumed)
    PROVE  ValidEvidence(d)
<1>0. d.inputs \in [Contract -> SUBSET Contract] /\ d.authorized \subseteq Contract
  BY DEF Checkpoint
<1>1. \A c \in Contract : Owned(d.leases, d.receipts, d.inputs[c])
  BY <1>0 DEF Phased, Owned
<1> QED
  BY <1>0, <1>1 DEF Phased, ValidEvidence

(* In a team that covers every planned reservation, with callers that       *)
(* observe usage in the orchestrator's order, the ledger in memory is       *)
(* always the one its leases imply and recover() accepts every checkpoint:  *)
(* what the recovery run checks, for every team, plan and schedule.         *)
THEOREM MemoryAndDiskAlwaysAgree ==
    ASSUME RoomyTeam
    PROVE  Spec /\ [][CallersAreOrderly]_vars => []MemoryAndDiskAgree
<1>1. OrderlyInv => MemoryAndDiskAgree
  <2> SUFFICES ASSUME OrderlyInv PROVE MemoryAndDiskAgree
    OBVIOUS
  <2>1. LedgerMatchesLeases
    BY DEF OrderlyInv, RoomyInv, Follows, LedgerMatchesLeases
  <2>2. ASSUME disk # None PROVE Recoverable(disk)
    <3>1. disk \in Checkpoint /\ disk.leases \in Leases
      BY <2>2 DEF OrderlyInv, RoomyInv, GoodInv, Inv, TypeOK, Checkpoint, Leases
    <3>2. /\ LeasesOK(disk.leases) /\ Keyed(disk.leases, disk.registered, disk.byKey)
          /\ Counted(disk.leases, disk.deliveries, disk.observed)
          /\ Phased(disk.leases, disk.registered, disk.inputs, disk.receipts, disk.authorized,
                    disk.consumed)
          /\ Isolated(disk.leases)
      BY <2>2 DEF OrderlyInv, RoomyInv, GoodInv, DiskGood, Good, DiskFollows
    <3>3. Measured(disk.leases, disk.deliveries, disk.observed) /\ ResultsBound(disk.leases)
      BY <2>2 DEF OrderlyInv
    <3>4. RebuildFits(disk.leases)
      BY <3>1, <3>2, RebuildFollows
    <3>5. \A c \in Held(disk.leases) : ValidLease(disk, c)
      BY <3>1, <3>2, <3>3, LeaseIsValid
    <3>6. ValidEvidence(disk)
      BY <3>1, <3>2, EvidenceIsValid
    <3> QED
      BY <3>4, <3>5, <3>6 DEF Recoverable
  <2> QED
    BY <2>1, <2>2 DEF MemoryAndDiskAgree, CheckpointRecoverable
<1>2. OrderlyInv /\ [Next]_vars /\ [CallersAreOrderly]_vars => OrderlyInv'
  BY OrderlyStep
<1> QED
  BY <1>1, <1>2, OrderlyInit, PTL DEF Spec
=============================================================================
