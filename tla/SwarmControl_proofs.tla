-------------------------- MODULE SwarmControl_proofs --------------------------
(***************************************************************************)
(* Proofs about SwarmControl for every plan, every budget, every set of     *)
(* worker reports and every length of the run: the scheduler's memory and   *)
(* its checkpoint are well typed, and the ledger never overbooks the team,  *)
(* whatever the scheduler refuses half way.                                 *)
(***************************************************************************)
EXTENDS SwarmControl, TLAPS, FiniteSetTheorems, WellFoundedInduction

-----------------------------------------------------------------------------
(* Sums over finite sets. *)

(* Induction on a finite set, in first-order form: a family of subsets that *)
(* is not empty has a member none of whose proper subsets is in the family. *)
LEMMA MinimalSubset ==
    ASSUME NEW S, IsFiniteSet(S), NEW F, F \subseteq SUBSET S, F # {}
    PROVE  \E T \in F : \A U \in F : U \subseteq T => U = T
<1>1. F \subseteq FiniteSubsetsOf(S)
  BY FS_Subset, Zenon DEF FiniteSubsetsOf
<1>2. IsWellFoundedOn(StrictSubsetOrdering(S), FiniteSubsetsOf(S))
  BY FS_StrictSubsetOrderingWellFounded
<1>3. PICK T \in F : \A U \in F : ~(<<U, T>> \in StrictSubsetOrdering(S))
  BY <1>1, <1>2, WFMin, Zenon
<1> QED
  BY <1>3 DEF StrictSubsetOrdering

(* A finite non-empty set of numbers has a largest one. *)
LEMMA LargestElement ==
    ASSUME NEW S, IsFiniteSet(S)
    PROVE  S \subseteq Nat /\ S # {} => \E m \in S : \A s \in S : s <= m
<1> DEFINE F == {T \in SUBSET S : /\ T \subseteq Nat
                                  /\ T # {}
                                  /\ ~(\E m \in T : \A s \in T : s <= m)}
<1> SUFFICES ASSUME F # {} PROVE FALSE
  OBVIOUS
<1>0. F \subseteq SUBSET S
  OBVIOUS
<1>1. PICK T \in F : \A U \in F : U \subseteq T => U = T
  <2> HIDE DEF F
  <2> QED
    BY <1>0, MinimalSubset, SMTT(30)
<1>2. PICK x \in T : TRUE
  OBVIOUS
<1> DEFINE U == T \ {x}
<1>3. CASE U = {}
  BY <1>3
<1>4. CASE U # {}
  <2>1. U \notin F
    BY <1>1, <1>2
  <2>2. PICK m \in U : \A s \in U : s <= m
    BY <2>1, <1>4
  <2> QED
    BY <2>2, <1>2
<1> QED
  BY <1>3, <1>4

(* Pairs distributes over union. *)
LEMMA PairsOfUnion ==
    ASSUME NEW f, NEW S, NEW T
    PROVE  /\ Pairs(f, {}) = {}
           /\ Pairs(f, S \cup T) = Pairs(f, S) \cup Pairs(f, T)
  BY DEF Pairs

(* The pairs of one contract are as many as its amount. *)
LEMMA PairsOfOne ==
    ASSUME NEW f, NEW c, f[c] \in Nat
    PROVE  IsFiniteSet(Pairs(f, {c})) /\ Cardinality(Pairs(f, {c})) = f[c]
<1>1. Pairs(f, {c}) = {c} \X (1 .. f[c])
  BY DEF Pairs
<1>2. IsFiniteSet({c}) /\ Cardinality({c}) = 1
  BY FS_Singleton
<1>3. IsFiniteSet(1 .. f[c]) /\ Cardinality(1 .. f[c]) = f[c]
  BY FS_Interval
<1>4. /\ IsFiniteSet({c} \X (1 .. f[c]))
      /\ Cardinality({c} \X (1 .. f[c])) = Cardinality({c}) * Cardinality(1 .. f[c])
  BY <1>2, <1>3, FS_Product, Zenon
<1>5. 1 * f[c] = f[c]
  OBVIOUS
<1> QED
  BY <1>1, <1>2, <1>3, <1>4, <1>5, Zenon

(* Pairs over a finite set is finite: a minimal subset with infinitely many pairs cannot
   exist. *)
LEMMA PairsFinite ==
    ASSUME NEW S, IsFiniteSet(S), NEW f, \A c \in S : f[c] \in Nat
    PROVE  IsFiniteSet(Pairs(f, S))
<1> DEFINE F == {T \in SUBSET S : ~IsFiniteSet(Pairs(f, T))}
<1> SUFFICES ASSUME F # {} PROVE FALSE
  OBVIOUS
<1>0. F \subseteq SUBSET S
  OBVIOUS
<1>1. PICK T \in F : \A U \in F : U \subseteq T => U = T
  <2> HIDE DEF F
  <2> QED
    BY <1>0, MinimalSubset, SMTT(30)
<1>2. T # {}
  BY <1>1, PairsOfUnion, FS_EmptySet
<1>3. PICK x \in T : TRUE
  BY <1>2
<1> DEFINE U == T \ {x}
<1>4. IsFiniteSet(Pairs(f, U))
  BY <1>1, <1>3
<1>5. IsFiniteSet(Pairs(f, {x}))
  BY <1>3, PairsOfOne
<1>6. T = U \cup {x}
  BY <1>3
<1>7. Pairs(f, T) = Pairs(f, U) \cup Pairs(f, {x})
  BY <1>6, PairsOfUnion
<1>8. IsFiniteSet(Pairs(f, T))
  BY <1>4, <1>5, <1>7, FS_Union
<1> QED
  BY <1>1, <1>8

(* Total is the sum of f over S: it is additive over disjoint sets...       *)
LEMMA TotalOfUnion ==
    ASSUME NEW S, NEW T, IsFiniteSet(S), IsFiniteSet(T), S \cap T = {},
           NEW f, \A c \in S \cup T : f[c] \in Nat
    PROVE  /\ Total(f, S) \in Nat
           /\ Total(f, S \cup T) = Total(f, S) + Total(f, T)
<1>1. IsFiniteSet(Pairs(f, S)) /\ IsFiniteSet(Pairs(f, T))
  BY PairsFinite
<1>2. Pairs(f, S) \cap Pairs(f, T) = {}
  BY DEF Pairs
<1>3. Pairs(f, S \cup T) = Pairs(f, S) \cup Pairs(f, T)
  BY PairsOfUnion
<1>4. Cardinality(Pairs(f, S) \cup Pairs(f, T))
        = Cardinality(Pairs(f, S)) + Cardinality(Pairs(f, T))
            - Cardinality(Pairs(f, S) \cap Pairs(f, T))
  BY <1>1, FS_Union
<1>5. Cardinality(Pairs(f, S)) \in Nat /\ Cardinality(Pairs(f, T)) \in Nat
  BY <1>1, FS_CardinalityType
<1>6. Cardinality(Pairs(f, S) \cap Pairs(f, T)) = 0
  BY <1>2, FS_EmptySet
<1>7. Cardinality(Pairs(f, S \cup T))
        = Cardinality(Pairs(f, S)) + Cardinality(Pairs(f, T))
  <2> DEFINE a == Cardinality(Pairs(f, S))
             b == Cardinality(Pairs(f, T))
             i == Cardinality(Pairs(f, S) \cap Pairs(f, T))
             u == Cardinality(Pairs(f, S) \cup Pairs(f, T))
  <2>1. u = a + b - i /\ a \in Nat /\ b \in Nat /\ i = 0
    BY <1>4, <1>5, <1>6, Zenon
  <2>2. Cardinality(Pairs(f, S \cup T)) = u
    BY <1>3, Zenon
  <2> HIDE DEF a, b, i, u
  <2>3. u = a + b
    BY <2>1
  <2> QED
    BY <2>2, <2>3, Zenon DEF a, b
<1> QED
  BY <1>5, <1>7, Zenon DEF Total

(* The total over one contract is its amount. *)
LEMMA TotalOfOne ==
    ASSUME NEW f, NEW c, f[c] \in Nat
    PROVE  Total(f, {c}) = f[c]
  BY PairsOfOne DEF Total

(* The total over no contract is zero. *)
LEMMA TotalOfNone ==
    ASSUME NEW f
    PROVE  Total(f, {}) = 0
  BY PairsOfUnion, FS_EmptySet DEF Total

(* ... and monotone in f. *)
LEMMA TotalMonotone ==
    ASSUME NEW S, IsFiniteSet(S), NEW f, NEW g,
           \A c \in S : f[c] \in Nat /\ g[c] \in Nat /\ f[c] <= g[c]
    PROVE  Total(f, S) <= Total(g, S)
<1>1. IsFiniteSet(Pairs(g, S))
  BY PairsFinite
<1>2. Pairs(f, S) \subseteq Pairs(g, S)
  BY DEF Pairs
<1> QED
  BY <1>1, <1>2, FS_Subset DEF Total

(* Total only depends on the values on S. *)
LEMMA TotalAgrees ==
    ASSUME NEW S, NEW f, NEW g, \A c \in S : f[c] = g[c]
    PROVE  Total(f, S) = Total(g, S)
<1>1. Pairs(f, S) = Pairs(g, S)
  BY DEF Pairs
<1> QED
  BY <1>1 DEF Total

-----------------------------------------------------------------------------
(* Sums of usages, dimension by dimension. *)

(* The sum of usages is a usage. *)
LEMMA SumUsageType ==
    ASSUME NEW S, IsFiniteSet(S), NEW f, \A c \in S : f[c] \in Usage
    PROVE  SumUsage(f, S) \in Usage
<1> DEFINE w == [c \in S |-> f[c].wall]
           n == [c \in S |-> f[c].units]
<1>1. \A c \in S : w[c] \in Nat /\ n[c] \in Nat
  BY DEF Usage
<1>2. IsFiniteSet({}) /\ S \cap {} = {}
  BY FS_EmptySet
<1>3. Total(w, S) \in Nat
  <2> HIDE DEF w
  <2> QED
    BY <1>1, <1>2, TotalOfUnion
<1>4. Total(n, S) \in Nat
  <2> HIDE DEF n
  <2> QED
    BY <1>1, <1>2, TotalOfUnion
<1> QED
  BY <1>3, <1>4 DEF SumUsage, Usage

(* The sum over disjoint sets adds up. *)
LEMMA SumUsageOfUnion ==
    ASSUME NEW S, NEW T, IsFiniteSet(S), IsFiniteSet(T), S \cap T = {},
           NEW f, \A c \in S \cup T : f[c] \in Usage
    PROVE  SumUsage(f, S \cup T) = Plus(SumUsage(f, S), SumUsage(f, T))
<1> DEFINE w(X) == [c \in X |-> f[c].wall]
           n(X) == [c \in X |-> f[c].units]
<1>1. \A c \in S \cup T : w(S \cup T)[c] \in Nat /\ n(S \cup T)[c] \in Nat
  BY DEF Usage
<1>2. Total(w(S \cup T), S \cup T) = Total(w(S \cup T), S) + Total(w(S \cup T), T)
  <2> HIDE DEF w
  <2> QED
    BY <1>1, TotalOfUnion
<1>3. Total(n(S \cup T), S \cup T) = Total(n(S \cup T), S) + Total(n(S \cup T), T)
  <2> HIDE DEF n
  <2> QED
    BY <1>1, TotalOfUnion
<1>4. /\ \A c \in S : w(S \cup T)[c] = w(S)[c] /\ n(S \cup T)[c] = n(S)[c]
      /\ \A c \in T : w(S \cup T)[c] = w(T)[c] /\ n(S \cup T)[c] = n(T)[c]
  OBVIOUS
<1>5. /\ Total(w(S \cup T), S) = Total(w(S), S)
      /\ Total(w(S \cup T), T) = Total(w(T), T)
      /\ Total(n(S \cup T), S) = Total(n(S), S)
      /\ Total(n(S \cup T), T) = Total(n(T), T)
  <2> HIDE DEF w, n
  <2> QED
    BY <1>4, TotalAgrees
<1> QED
  BY <1>2, <1>3, <1>5 DEF SumUsage, Plus

(* The sum over one contract is its usage. *)
LEMMA SumUsageOfOne ==
    ASSUME NEW f, NEW c, f[c] \in Usage
    PROVE  SumUsage(f, {c}) = f[c]
<1> DEFINE w == [d \in {c} |-> f[d].wall]
           n == [d \in {c} |-> f[d].units]
<1>1. w[c] = f[c].wall /\ n[c] = f[c].units /\ w[c] \in Nat /\ n[c] \in Nat
  BY DEF Usage
<1>2. Total(w, {c}) = w[c] /\ Total(n, {c}) = n[c]
  <2> HIDE DEF w, n
  <2> QED
    BY <1>1, TotalOfOne
<1>3. SumUsage(f, {c}) = [wall |-> f[c].wall, units |-> f[c].units]
  BY <1>1, <1>2 DEF SumUsage
<1> QED
  BY <1>3 DEF Usage

(* The sum over no contract is the zero usage. *)
LEMMA SumUsageOfNone ==
    ASSUME NEW f
    PROVE  SumUsage(f, {}) = ZeroUsage
  BY TotalOfNone DEF SumUsage, ZeroUsage

(* Smaller usages have a smaller sum. *)
LEMMA SumUsageMonotone ==
    ASSUME NEW S, IsFiniteSet(S), NEW f, NEW g,
           \A c \in S : f[c] \in Usage /\ g[c] \in Usage /\ Within(f[c], g[c])
    PROVE  Within(SumUsage(f, S), SumUsage(g, S))
<1> DEFINE fw == [c \in S |-> f[c].wall]
           gw == [c \in S |-> g[c].wall]
           fn == [c \in S |-> f[c].units]
           gn == [c \in S |-> g[c].units]
<1>1. \A c \in S : /\ fw[c] \in Nat /\ gw[c] \in Nat /\ fw[c] <= gw[c]
                   /\ fn[c] \in Nat /\ gn[c] \in Nat /\ fn[c] <= gn[c]
  BY DEF Usage, Within
<1>2. Total(fw, S) <= Total(gw, S) /\ Total(fn, S) <= Total(gn, S)
  <2> HIDE DEF fw, gw, fn, gn
  <2> QED
    BY <1>1, TotalMonotone
<1> QED
  BY <1>2 DEF SumUsage, Within

-----------------------------------------------------------------------------
(* The ledger. *)

(* Every set of contracts is finite. *)
LEMMA SubsetsOfContractFinite ==
    ASSUME NEW S, S \subseteq Contract
    PROVE  IsFiniteSet(S)
  BY ContractAssumption, FS_Subset

(* What a set of contracts reserves is a usage. *)
LEMMA ReservedType ==
    ASSUME NEW S, S \subseteq Contract
    PROVE  SumUsage(Budget, S) \in Usage
<1>1. \A c \in S : Budget[c] \in Usage
  BY BudgetAssumption
<1>2. IsFiniteSet(S)
  BY SubsetsOfContractFinite
<1> QED
  BY <1>1, <1>2, SumUsageType

(* A new ledger is bounded. *)
LEMMA EmptyLedgerBound == EmptyLedger \in Ledger /\ LedgerBound(EmptyLedger)
<1>1. Reserved(EmptyLedger) = ZeroUsage
  BY SumUsageOfNone DEF Reserved, EmptyLedger
<1> QED
  BY <1>1, BudgetAssumption
     DEF LedgerBound, EmptyLedger, ZeroUsage, Plus, Within, Usage, Ledger

(* reserve() keeps the bound. *)
LEMMA ReserveKeepsBound ==
    ASSUME NEW led \in Ledger, NEW c \in Contract, CanReserve(led, c)
    PROVE  Reserve(led, c) \in Ledger /\ LedgerBound(Reserve(led, c))
<1>1. led.active \subseteq Contract /\ led.consumed \in Usage
  BY DEF Ledger
<1>2. /\ IsFiniteSet(led.active)
      /\ IsFiniteSet({c})
      /\ led.active \cap {c} = {}
      /\ \A d \in led.active \cup {c} : Budget[d] \in Usage
  BY <1>1, SubsetsOfContractFinite, BudgetAssumption, FS_Singleton DEF CanReserve
<1>3. SumUsage(Budget, led.active \cup {c})
        = Plus(SumUsage(Budget, led.active), SumUsage(Budget, {c}))
  BY <1>2, SumUsageOfUnion
<1>4. SumUsage(Budget, {c}) = Budget[c]
  BY <1>2, SumUsageOfOne
<1>5. SumUsage(Budget, led.active) \in Usage
  BY <1>1, ReservedType
<1>6. /\ Reserve(led, c) \in Ledger
      /\ Reserve(led, c).consumed = led.consumed
      /\ Reserve(led, c).active = led.active \cup {c}
  BY DEF Reserve, Ledger
<1>7. Within(Plus(Plus(led.consumed, SumUsage(Budget, led.active)), Budget[c]), Team)
  BY DEF CanReserve, Reserved
<1>8. Within(Plus(led.consumed, Plus(SumUsage(Budget, led.active), Budget[c])), Team)
  BY <1>1, <1>2, <1>5, <1>7, BudgetAssumption DEF Within, Plus, Usage
<1> QED
  BY <1>3, <1>4, <1>6, <1>8 DEF LedgerBound, Reserved

(* A loop of settle() calls keeps the bound, wherever it stops. *)
LEMMA SettleAllKeepsBound ==
    ASSUME NEW led \in Ledger, LedgerBound(led),
           NEW S, S \subseteq Contract, NEW used, \A c \in S : used[c] \in Usage
    PROVE  SettleAll(led, S, used) \in Ledger /\ LedgerBound(SettleAll(led, S, used))
<1> DEFINE done == SettleReached(led, S, used) \ SettleRefused(led, S, used)
           rest == led.active \ done
<1>1. /\ done \subseteq led.active
      /\ done \subseteq S
      /\ \A c \in done : Within(used[c], Budget[c])
  BY DEF SettleReached, SettleRefused
<1>2. led.active \subseteq Contract /\ led.consumed \in Usage /\ led.settled \subseteq Contract
  BY DEF Ledger
<1> HIDE DEF done
<1>3. /\ IsFiniteSet(done) /\ IsFiniteSet(rest)
      /\ rest \cap done = {} /\ led.active = rest \cup done
      /\ \A c \in rest \cup done : Budget[c] \in Usage
  BY <1>1, <1>2, SubsetsOfContractFinite, BudgetAssumption
<1>4. SumUsage(used, done) \in Usage
  BY <1>1, <1>3, SumUsageType
<1>5. Within(SumUsage(used, done), SumUsage(Budget, done))
  BY <1>1, <1>3, SumUsageMonotone
<1>6. SumUsage(Budget, led.active) = Plus(SumUsage(Budget, rest), SumUsage(Budget, done))
  BY <1>3, SumUsageOfUnion
<1>7. /\ SumUsage(Budget, rest) \in Usage
      /\ SumUsage(Budget, done) \in Usage
  BY <1>1, <1>2, ReservedType
<1>8. Within(Plus(led.consumed, SumUsage(Budget, led.active)), Team)
  BY DEF LedgerBound, Reserved
<1>9. Within(Plus(Plus(led.consumed, SumUsage(used, done)), SumUsage(Budget, rest)), Team)
  <2> DEFINE a == led.consumed
             b == SumUsage(used, done)
             d == SumUsage(Budget, done)
             r == SumUsage(Budget, rest)
  <2>1. /\ a \in Usage /\ b \in Usage /\ d \in Usage /\ r \in Usage
        /\ Within(b, d) /\ Within(Plus(a, Plus(r, d)), Team)
    BY <1>2, <1>4, <1>5, <1>6, <1>7, <1>8
  <2> HIDE DEF a, b, d, r
  <2>2. Within(Plus(Plus(a, b), r), Team)
    BY <2>1, BudgetAssumption DEF Usage, Within, Plus
  <2> QED
    BY <2>2 DEF a, b, d, r
<1>10. SettleAll(led, S, used) = [active   |-> rest,
                                  settled  |-> led.settled \cup done,
                                  consumed |-> Plus(led.consumed, SumUsage(used, done))]
  BY DEF SettleAll, done
<1>11. Plus(led.consumed, SumUsage(used, done)) \in Usage
  BY <1>2, <1>4 DEF Plus, Usage
<1>12. SettleAll(led, S, used) \in Ledger
  BY <1>1, <1>2, <1>10, <1>11 DEF Ledger
<1> QED
  BY <1>9, <1>10, <1>12 DEF LedgerBound, Reserved

-----------------------------------------------------------------------------
Leases == [Contract -> Lease]

-----------------------------------------------------------------------------
(* The operators on leases. *)

(* The usage a stopped lease settles with is a usage. *)
LEMMA FinalUsageType ==
    ASSUME NEW l \in Lease, NEW c \in Contract, now \in Nat
    PROVE  FinalUsage(l, c) \in Usage
<1>1. l.usage \in Usage /\ l.acquired \in Nat /\ Budget[c] \in Usage
  BY BudgetAssumption DEF Lease
<1>2. /\ l.usage.wall \in Nat /\ l.usage.units \in Nat
      /\ Budget[c].wall \in Nat
  BY <1>1 DEF Usage
<1>3. Smaller(Budget[c].wall, Larger(l.usage.wall, now - l.acquired)) \in Nat
  BY <1>1, <1>2 DEF Smaller, Larger
<1> QED
  BY <1>1, <1>3 DEF FinalUsage, Usage

(* Stopping a lease gives a lease. *)
LEMMA StoppedType ==
    ASSUME NEW l \in Lease, NEW c \in Contract, now \in Nat,
           NEW s \in LeaseState, NEW r \in Reason
    PROVE  Stopped(l, c, s, r) \in Lease
<1>1. FinalUsage(l, c) \in Usage
  BY FinalUsageType
<1> QED
  BY <1>1 DEF Stopped, Lease

(* Ending any set of leases keeps the types and the ledger's bound.         *)
LEMMA EndAllKeeps ==
    ASSUME NEW ls \in Leases, NEW led \in Ledger, LedgerBound(led), now \in Nat,
           NEW S, S \subseteq Contract, NEW s \in LeaseState,
           NEW reason \in [Contract -> Reason]
    PROVE  /\ EndAll(ls, led, S, s, reason).leases \in Leases
           /\ EndAll(ls, led, S, s, reason).ledger \in Ledger
           /\ LedgerBound(EndAll(ls, led, S, s, reason).ledger)
<1> DEFINE used == FinalUsages(ls)
<1>1. \A c \in Contract : used[c] \in Usage
  BY FinalUsageType DEF FinalUsages, Leases
<1>2. \A c \in Contract : Stopped(ls[c], c, s, reason[c]) \in Lease
  BY StoppedType DEF Leases
<1>3. SettleAll(led, S, used) \in Ledger /\ LedgerBound(SettleAll(led, S, used))
  <2> HIDE DEF used
  <2> QED
    BY <1>1, SettleAllKeepsBound
<1>4. [c \in Contract |-> IF c \in SettleReached(led, S, used)
                            THEN Stopped(ls[c], c, s, reason[c]) ELSE ls[c]] \in Leases
  BY <1>2 DEF Leases
<1> QED
  BY <1>3, <1>4 DEF EndAll

(* Expiring the overdue leases keeps their type and the ledger's bound. *)
LEMMA AfterExpiryKeeps ==
    ASSUME NEW ls \in Leases, NEW led \in Ledger, LedgerBound(led), now \in Nat
    PROVE  /\ AfterExpiry(ls, led).leases \in Leases
           /\ AfterExpiry(ls, led).ledger \in Ledger
           /\ LedgerBound(AfterExpiry(ls, led).ledger)
<1> DEFINE reason == [c \in Contract |-> IF now >= ls[c].deadline THEN "deadline" ELSE "heartbeat"]
<1>1. reason \in [Contract -> Reason] /\ Expired(ls) \subseteq Contract /\ "timed_out" \in LeaseState
  BY DEF Reason, Expired, ActiveIn, LeaseState, Controlled
<1> HIDE DEF reason
<1>2. AfterExpiry(ls, led) = EndAll(ls, led, Expired(ls), "timed_out", reason)
  BY DEF AfterExpiry, reason
<1> QED
  BY <1>1, <1>2, EndAllKeeps

(* Rebuilding the ledger from any leases gives a ledger within its bound,   *)
(* whether the rebuild finished or stopped at a refusal.                    *)
LEMMA RebuiltKeeps ==
    ASSUME NEW ls \in Leases
    PROVE  Rebuilt(ls) \in Ledger /\ LedgerBound(Rebuilt(ls))
<1> DEFINE f == SettledOf(ls)
           R == Resettled(ls)
           A == Rereserved(ls)
<1>1. \A c \in Contract : f[c] \in Usage
  BY DEF SettledOf, Leases, Lease, ZeroUsage, Usage
<1>2. /\ TerminalIn(ls) \subseteq Contract
      /\ ActiveIn(ls) \subseteq Contract
      /\ R \subseteq TerminalIn(ls)
      /\ A \subseteq ActiveIn(ls)
  BY DEF TerminalIn, ActiveIn, Held, Resettled, Rereserved
<1>3. SumUsage(f, R) \in Usage /\ SumUsage(Budget, A) \in Usage
  <2>1. IsFiniteSet(R) /\ \A c \in R : f[c] \in Usage
    BY <1>1, <1>2, SubsetsOfContractFinite
  <2>2. SumUsage(f, R) \in Usage
    <3> HIDE DEF f, R
    <3> QED
      BY <2>1, SumUsageType
  <2>3. SumUsage(Budget, A) \in Usage
    BY <1>2, ReservedType
  <2> QED
    BY <2>2, <2>3
<1>4. Rebuilt(ls) \in Ledger
  BY <1>2, <1>3 DEF Rebuilt, Ledger
<1>5. Within(SumUsage(f, R), Team)
  <2>1. CASE R = {}
    BY <2>1, SumUsageOfNone, BudgetAssumption DEF ZeroUsage, Within, Usage
  <2>2. CASE R # {}
    <3>1. IsFiniteSet(R) /\ R \subseteq Nat
      BY <1>2, SubsetsOfContractFinite, ContractAssumption
    <3>2. PICK m \in R : \A c \in R : c <= m
      <4> HIDE DEF R
      <4> QED
        BY <2>2, <3>1, LargestElement
    <3> DEFINE P == {d \in TerminalIn(ls) : d < m}
    <3>3. R = P \cup {m} /\ P \cap {m} = {}
      <4>1. m \in TerminalIn(ls) /\ m \in Nat /\ TerminalIn(ls) \subseteq Nat
        BY <1>2, <3>1, <3>2, ContractAssumption
      <4>2. \A d \in TerminalIn(ls) : d <= m => RefitsTerminal(ls, d)
        BY <3>2 DEF Resettled
      <4>3. P \subseteq R
        BY <4>1, <4>2 DEF Resettled
      <4>4. R \subseteq P \cup {m}
        BY <3>2, <1>2, <4>1
      <4> QED
        BY <3>2, <4>1, <4>3, <4>4
    <3>4. RefitsTerminal(ls, m)
      BY <1>2, <3>1, <3>2 DEF Resettled
    <3>5. Within(Plus(SumUsage(f, P), Budget[m]), Team) /\ Within(f[m], Budget[m])
      BY <3>4 DEF RefitsTerminal
    <3>6. /\ IsFiniteSet(P) /\ IsFiniteSet({m})
          /\ \A c \in P \cup {m} : f[c] \in Usage
          /\ Budget[m] \in Usage /\ f[m] \in Usage
      BY <1>1, <1>2, <3>2, SubsetsOfContractFinite, FS_Singleton, BudgetAssumption
    <3> HIDE DEF P, f, R
    <3>7. SumUsage(f, R) = Plus(SumUsage(f, P), SumUsage(f, {m}))
      BY <3>3, <3>6, SumUsageOfUnion
    <3>8. SumUsage(f, {m}) = f[m] /\ SumUsage(f, P) \in Usage
      BY <3>6, SumUsageOfOne, SumUsageType
    <3> QED
      BY <3>5, <3>6, <3>7, <3>8, BudgetAssumption DEF Within, Plus, Usage
  <2> QED
    BY <2>1, <2>2
<1>6. Within(Plus(SumUsage(f, R), SumUsage(Budget, A)), Team)
  <2>1. CASE A = {}
    <3>1. SumUsage(Budget, A) = ZeroUsage
      BY <2>1, SumUsageOfNone
    <3> HIDE DEF A, R, f
    <3> QED
      BY <1>3, <1>5, <3>1 DEF ZeroUsage, Plus, Within, Usage
  <2>2. CASE A # {}
    <3>1. R = TerminalIn(ls)
      BY <2>2 DEF Rereserved
    <3>2. IsFiniteSet(A) /\ A \subseteq Nat
      BY <1>2, SubsetsOfContractFinite, ContractAssumption
    <3>3. PICK m \in A : \A c \in A : c <= m
      <4> HIDE DEF A
      <4> QED
        BY <2>2, <3>2, LargestElement
    <3> DEFINE P == {d \in ActiveIn(ls) : d < m}
    <3>4. A = {c \in ActiveIn(ls) : \A d \in ActiveIn(ls) : d <= c => RefitsActive(ls, d)}
      BY <3>1 DEF Rereserved
    <3>5. A = P \cup {m} /\ P \cap {m} = {}
      <4>1. m \in ActiveIn(ls) /\ m \in Nat /\ ActiveIn(ls) \subseteq Nat
        BY <1>2, <3>2, <3>3, ContractAssumption
      <4>2. \A d \in ActiveIn(ls) : d <= m => RefitsActive(ls, d)
        BY <3>3, <3>4
      <4> HIDE DEF A
      <4>3. P \subseteq A
        BY <3>4, <4>1, <4>2
      <4>4. A \subseteq P \cup {m}
        BY <3>3, <3>4, <4>1
      <4>5. m \notin P
        BY <4>1
      <4> HIDE DEF P
      <4> QED
        BY <3>3, <4>3, <4>4, <4>5
    <3>6. RefitsActive(ls, m)
      BY <1>2, <3>2, <3>3, <3>4
    <3>7. Within(Plus(Plus(SumUsage(f, R), SumUsage(Budget, P)), Budget[m]), Team)
      BY <3>1, <3>6 DEF RefitsActive, CanReserve, Reserved
    <3>8. /\ IsFiniteSet(P) /\ IsFiniteSet({m}) /\ P \subseteq Contract /\ m \in Contract
          /\ \A c \in P \cup {m} : Budget[c] \in Usage
      BY <1>2, <3>3, SubsetsOfContractFinite, FS_Singleton, BudgetAssumption
    <3> HIDE DEF P, f, R, A
    <3>9. SumUsage(Budget, A) = Plus(SumUsage(Budget, P), SumUsage(Budget, {m}))
      BY <3>5, <3>8, SumUsageOfUnion
    <3>10. SumUsage(Budget, {m}) = Budget[m] /\ SumUsage(Budget, P) \in Usage
      BY <3>8, SumUsageOfOne, ReservedType
    <3> QED
      BY <1>3, <3>7, <3>8, <3>9, <3>10, BudgetAssumption DEF Within, Plus, Usage
  <2> QED
    BY <2>1, <2>2
<1> QED
  BY <1>4, <1>6 DEF LedgerBound, Reserved, Rebuilt

(* Recording an observation keeps a lease well typed; its usage is capped   *)
(* to a usage. *)
LEMMA ObservingType ==
    ASSUME NEW l \in Lease, NEW c \in Contract, NEW u \in Usage
    PROVE  /\ Observing(l, c, u) \in Lease
           /\ CapUsage(Observing(l, c, u).usage, c) \in Usage
<1>1. l.usage \in Usage /\ Budget[c] \in Usage
  BY BudgetAssumption DEF Lease
<1>2. UsageMax(l.usage, u) \in Usage
  BY <1>1 DEF UsageMax, Larger, Usage
<1>3. OverageDimensions(UsageMax(l.usage, u), c) \in SUBSET {"wall", "units"}
  BY DEF OverageDimensions
<1>4. Observing(l, c, u) \in Lease /\ Observing(l, c, u).usage = UsageMax(l.usage, u)
  BY <1>2, <1>3 DEF Observing, Lease
<1>5. CapUsage(UsageMax(l.usage, u), c) \in Usage
  BY <1>1, <1>2 DEF CapUsage, Smaller, Usage
<1> QED
  BY <1>4, <1>5

-----------------------------------------------------------------------------
(* The inductive invariant. *)

(* Only a scheduler that registered its plan can crash, so that a process   *)
(* that is down left a checkpoint. *)
CheckpointWritten == plan \/ ~up => disk \in Checkpoint

Inv == TypeOK /\ LedgerWithinTeam /\ CheckpointWritten

(* What every action establishes: the memory is well typed, the ledger is   *)
(* within its bound, and the checkpoint is either untouched or this memory. *)
Kept ==
    /\ MemoryOK'
    /\ ledger' \in Ledger
    /\ LedgerBound(ledger')
    /\ up' \in BOOLEAN
    /\ now' \in Nat
    /\ \/ disk' = disk /\ (plan' \/ ~up' => plan \/ ~up)
       \/ disk' = State'

(* A step that keeps the memory's part and writes or leaves the checkpoint keeps the
   invariant. *)
LEMMA KeptSuffices ==
    ASSUME Inv, Kept
    PROVE  Inv'
<1>1. State' \in Checkpoint
  BY DEF Kept, MemoryOK, State, Checkpoint
<1>2. disk' \in Checkpoint \cup {None} /\ CheckpointWritten'
  <2>1. CASE disk' = disk /\ (plan' \/ ~up' => plan \/ ~up)
    BY <2>1 DEF Inv, TypeOK, CheckpointWritten
  <2>2. CASE disk' = State'
    BY <1>1, <2>2 DEF CheckpointWritten
  <2> QED
    BY <2>1, <2>2 DEF Kept
<1>3. LedgerWithinTeam'
  BY DEF Kept, LedgerWithinTeam
<1> QED
  BY <1>2, <1>3 DEF Kept, Inv, TypeOK

(* An action that only replaces leases and the ledger. *)
LEMMA KeptByLeases ==
    ASSUME Inv, leases' \in Leases, ledger' \in Ledger, LedgerBound(ledger'),
           UNCHANGED <<plan, registered, inputs, byKey, deliveries, observed, receipts,
                       authorized, consumed, up, now>>,
           cancelled' \in BOOLEAN,
           disk' = disk \/ disk' = State'
    PROVE  Kept
  BY DEF Kept, Inv, TypeOK, MemoryOK, Leases

(* The empty scheduler satisfies the invariant. *)
LEMMA InitInv == Init => Inv
<1> SUFFICES ASSUME Init PROVE Inv
  OBVIOUS
<1>1. NoLease \in Lease
  BY DEF NoLease, Lease, LeaseState, Usage, ZeroUsage
<1>2. MemoryOK
  BY <1>1 DEF Init, MemoryOK
<1>3. CheckpointWritten
  BY DEF Init, CheckpointWritten
<1>4. ledger \in Ledger /\ LedgerBound(ledger)
  BY EmptyLedgerBound DEF Init
<1>5. TypeOK
  BY <1>2, <1>4 DEF Init, TypeOK
<1> QED
  BY <1>3, <1>4, <1>5 DEF Inv, LedgerWithinTeam

(* A call refused after the expiry sweep keeps the memory's part. *)
LEMMA OnlyExpiryKeeps ==
    ASSUME Inv, OnlyExpiry
    PROVE  Kept
<1>1. leases \in Leases /\ ledger \in Ledger /\ LedgerBound(ledger) /\ now \in Nat
  BY DEF Inv, TypeOK, MemoryOK, Leases, LedgerWithinTeam
<1>2. /\ AfterExpiry(leases, ledger).leases \in Leases
      /\ AfterExpiry(leases, ledger).ledger \in Ledger
      /\ LedgerBound(AfterExpiry(leases, ledger).ledger)
  BY <1>1, AfterExpiryKeeps
<1>3. cancelled' \in BOOLEAN
  BY DEF OnlyExpiry, Inv, TypeOK, MemoryOK
<1> QED
  BY <1>2, <1>3, KeptByLeases DEF OnlyExpiry

(* A call that ends leases with values already known to be good keeps the memory's part. *)
LEMMA EndingKeeps ==
    ASSUME Inv, cancelled' \in BOOLEAN, NEW v, Ending(v),
           v.leases \in Leases, v.ledger \in Ledger, LedgerBound(v.ledger)
    PROVE  Kept
<1>1. disk' = disk \/ disk' = State'
  BY DEF Ending, Persist
<1> QED
  BY <1>1, KeptByLeases DEF Ending

(* One step of the scheduler. *)
LEMMA NextKeeps ==
    ASSUME Inv, Next
    PROVE  Kept
<1> USE DEF Persist
<1>0. /\ leases \in Leases /\ ledger \in Ledger /\ LedgerBound(ledger)
      /\ now \in Nat /\ cancelled \in BOOLEAN
  BY DEF Inv, TypeOK, MemoryOK, Leases, LedgerWithinTeam
<1> DEFINE v == AfterExpiry(leases, ledger)
<1>v. v.leases \in Leases /\ v.ledger \in Ledger /\ LedgerBound(v.ledger)
  BY <1>0, AfterExpiryKeeps
<1>1. CASE RegisterPlan
  BY <1>1, <1>0 DEF RegisterPlan, Kept, Inv, TypeOK, MemoryOK
<1>2. ASSUME NEW c \in Contract, NEW ins \in SUBSET Contract, Register(c, ins)
      PROVE  Kept
  BY <1>2, <1>0 DEF Register, Kept, Inv, TypeOK, MemoryOK
<1>3. ASSUME NEW c \in Contract, RecordPhaseReceipt(c)
      PROVE  Kept
  <2>1. OutputCommit(leases, receipts, inputs, c) \in Commit
    <3>1. leases[c].result \in Result /\ inputs[c] \subseteq Contract
      BY <1>3, <1>0 DEF RecordPhaseReceipt, Leases, Lease, Inv, TypeOK, MemoryOK
    <3>2. leases[c].result.commit \in Commit \cup {None}
      BY <3>1 DEF Result
    <3>3. \A d \in inputs[c] : receipts[d] \in Commit
      BY <1>3, <3>1 DEF RecordPhaseReceipt, Owned, Inv, TypeOK, MemoryOK
    <3>4. Commits(receipts, inputs[c]) \subseteq Commit
      BY <3>3 DEF Commits
    <3>5. CASE inputs[c] # {}
      <4>1. Commits(receipts, inputs[c]) # {}
        BY <3>5 DEF Commits
      <4>2. (CHOOSE k \in Commits(receipts, inputs[c]) : TRUE) \in Commit
        BY <3>4, <4>1
      <4> QED
        BY <3>2, <3>5, <4>2 DEF OutputCommit
    <3>6. CASE inputs[c] = {}
      BY <3>2, <3>6, ControlAssumption DEF OutputCommit
    <3> QED
      BY <3>5, <3>6
  <2> QED
    BY <2>1, <1>3, <1>0 DEF RecordPhaseReceipt, Kept, Inv, TypeOK, MemoryOK
<1>4. ASSUME NEW c \in Contract, IssuePhaseAuthorization(c)
      PROVE  Kept
  BY <1>4, <1>0 DEF IssuePhaseAuthorization, Kept, Inv, TypeOK, MemoryOK
<1>5. ASSUME NEW c \in Contract, NEW k \in Key, AdmitGranted(c, k)
      PROVE  Kept
  <2>1. NewLease(c, k) \in Lease
    <3>1. Budget[c].wall \in Nat /\ LeaseTtl \in Nat
      BY BudgetAssumption, ControlAssumption DEF Usage
    <3>2. now + Budget[c].wall \in Nat /\ Smaller(now + LeaseTtl, now + Budget[c].wall) \in Nat
      BY <3>1, <1>0 DEF Smaller
    <3> QED
      BY <3>2, <1>0 DEF NewLease, NoLease, Lease, LeaseState, Usage, ZeroUsage
  <2>2. Reserve(v.ledger, c) \in Ledger /\ LedgerBound(Reserve(v.ledger, c))
    <3>1. CanReserve(v.ledger, c)
      BY <1>5 DEF AdmitGranted, Admissible
    <3> HIDE DEF v
    <3> QED
      BY <1>v, <3>1, ReserveKeepsBound
  <2>3. leases' \in Leases
    BY <1>5, <1>v, <2>1 DEF AdmitGranted, Leases
  <2>4. byKey' \in [Key -> Contract \cup {None}] /\ consumed' \subseteq Contract
    BY <1>5 DEF AdmitGranted, Inv, TypeOK, MemoryOK
  <2> QED
    BY <1>5, <2>2, <2>3, <2>4 DEF AdmitGranted, Kept, Inv, TypeOK, MemoryOK, Leases
<1>6. ASSUME NEW c \in Contract, NEW k \in Key, AdmitRefused(c, k)
      PROVE  Kept
  BY <1>6, OnlyExpiryKeeps DEF AdmitRefused
<1>7. ASSUME NEW c \in Contract, Heartbeat(c)
      PROVE  Kept
  <2>1. Smaller(now + LeaseTtl, leases[c].deadline) \in Nat
    BY <1>0, ControlAssumption DEF Smaller, Leases, Lease
  <2>2. leases' \in Leases
    BY <1>7, <1>0, <2>1 DEF Heartbeat, Leases, Lease
  <2> QED
    BY <1>7, <1>0, <2>2, KeptByLeases DEF Heartbeat
<1>8. ASSUME NEW c \in Contract, NEW i \in DeliveryId, NEW u \in Deltas, ChargeAccepted(c, i, u)
      PROVE  Kept
  <2>1. u \in Usage /\ v.leases[c] \in Lease
    BY <1>v, ControlAssumption DEF Leases
  <2>2. Plus(v.leases[c].usage, u) \in Usage
    BY <2>1 DEF Lease, Plus, Usage
  <2>3. leases' \in Leases
    BY <1>8, <1>v, <2>2 DEF ChargeAccepted, Leases, Lease
  <2>4. deliveries' \in [DeliveryId -> [lease : Contract, usage : Usage] \cup {None}]
    BY <1>8, <2>1 DEF ChargeAccepted, Inv, TypeOK, MemoryOK
  <2> QED
    BY <1>8, <1>v, <2>3, <2>4 DEF ChargeAccepted, Kept, Inv, TypeOK, MemoryOK, Leases
<1>9. ASSUME NEW c \in Contract, NEW i \in DeliveryId, NEW u \in Deltas, ChargeRefused(c, i, u)
      PROVE  Kept
  BY <1>9, OnlyExpiryKeeps DEF ChargeRefused
<1>10. ASSUME NEW c \in Contract, NEW u \in Reports, ObserveTerminalUsage(c, u)
       PROVE  Kept
  <2> DEFINE l == Observing(leases[c], c, u)
             accounted == CapUsage(l.usage, c)
  <2>1. u \in Usage /\ leases[c] \in Lease
    BY <1>0, ControlAssumption DEF Leases
  <2>2. l \in Lease /\ accounted \in Usage
    BY <2>1, ObservingType
  <2>3. observed' \in [Contract -> Usage \cup {None}]
    BY <1>10, <2>1 DEF ObserveTerminalUsage, Inv, TypeOK, MemoryOK
  <2>4. SUFFICES /\ leases' \in Leases /\ ledger' \in Ledger /\ LedgerBound(ledger')
                 /\ disk' = disk \/ disk' = State'
    BY <1>10, <2>3 DEF ObserveTerminalUsage, Kept, Inv, TypeOK, MemoryOK, Leases
  <2>5. CASE ObserveWithinBudget(c, u)
    BY <1>0, <2>2, <2>5 DEF ObserveWithinBudget, Leases
  <2>6. CASE ObserveOverage(c, u)
    <3>1. [l EXCEPT !.state = "over_budget", !.reason = "budget", !.settled = accounted] \in Lease
      <4> HIDE DEF l, accounted
      <4> QED
        BY <2>2 DEF Lease, LeaseState, Controlled, Reason
    <3>2. leases' \in Leases
      BY <1>0, <3>1, <2>6 DEF ObserveOverage, Leases
    <3> DEFINE used == [d \in {c} |-> accounted]
    <3>3. {c} \subseteq Contract /\ \A d \in {c} : used[d] \in Usage
      BY <2>2
    <3>4. SettleAll(ledger, {c}, used) \in Ledger /\ LedgerBound(SettleAll(ledger, {c}, used))
      <4> HIDE DEF used
      <4> QED
        BY <1>0, <3>3, SettleAllKeepsBound
    <3> QED
      BY <3>2, <3>4, <2>6 DEF ObserveOverage
  <2>7. CASE ObserveLate(c, u)
    <3>1. [l EXCEPT !.settled = accounted] \in Lease
      <4> HIDE DEF l, accounted
      <4> QED
        BY <2>2 DEF Lease
    <3>2. leases' \in Leases
      BY <1>0, <3>1, <2>7 DEF ObserveLate, Leases
    <3>3. Rebuilt(leases') \in Ledger /\ LedgerBound(Rebuilt(leases'))
      BY <3>2, RebuiltKeeps
    <3> QED
      BY <3>2, <3>3, <2>7 DEF ObserveLate
  <2> QED
    BY <1>10, <2>5, <2>6, <2>7 DEF ObserveTerminalUsage
<1>11. ASSUME NEW c \in Contract, NEW b \in BOOLEAN, RecordTerminalResult(c, b)
       PROVE  Kept
  <2> DEFINE r == [disposition |-> "failed", commit |-> None, budget |-> b,
                   reason |-> leases[c].reason]
  <2>1. leases[c] \in Lease /\ r \in Result
    BY <1>0 DEF Leases, Lease, Result
  <2>2. leases' \in Leases
    <3> HIDE DEF r
    <3>1. leases' = [leases EXCEPT ![c].result = r]
      BY <1>11 DEF RecordTerminalResult, r
    <3> QED
      BY <1>0, <2>1, <3>1 DEF Leases, Lease
  <2> QED
    BY <1>11, <1>0, <2>2, KeptByLeases DEF RecordTerminalResult
<1>12. ASSUME NEW c \in Contract, NEW r \in Outcomes, CompleteAccepted(c, r)
       PROVE  Kept
  <2> DEFINE used == FinalUsages(v.leases)
  <2>1. \A d \in Contract : used[d] \in Usage
    BY <1>v, <1>0, FinalUsageType DEF FinalUsages, Leases
  <2>2. r \in Result
    BY ControlAssumption DEF Result
  <2>3. leases' \in Leases
    <3>1. leases' = [v.leases EXCEPT ![c] = [@ EXCEPT !.state = "finished", !.result = r,
                                                 !.usage = used[c], !.settled = used[c]]]
      BY <1>12 DEF CompleteAccepted
    <3>2. v.leases[c] \in Lease /\ used[c] \in Usage
      BY <1>v, <2>1 DEF Leases
    <3> HIDE DEF v, used
    <3>3. [v.leases[c] EXCEPT !.state = "finished", !.result = r,
                              !.usage = used[c], !.settled = used[c]] \in Lease
      BY <2>2, <3>2 DEF Lease, LeaseState
    <3> QED
      BY <1>v, <3>1, <3>3 DEF Leases
  <2>4. SettleAll(v.ledger, {c}, used) \in Ledger /\ LedgerBound(SettleAll(v.ledger, {c}, used))
    <3> HIDE DEF v, used
    <3> QED
      BY <1>v, <2>1, SettleAllKeepsBound
  <2> QED
    BY <1>12, <1>0, <2>3, <2>4, KeptByLeases DEF CompleteAccepted
<1>13. ASSUME NEW c \in Contract, CompleteRefused(c)
       PROVE  Kept
  BY <1>13, OnlyExpiryKeeps DEF CompleteRefused
<1>r. ByCancellation \in [Contract -> Reason] /\ "cancelled" \in LeaseState
  BY DEF ByCancellation, Reason, LeaseState, Controlled
<1>14. ASSUME NEW c \in Contract, CancelWorker(c)
       PROVE  Kept
  <2> DEFINE w == EndAll(leases, ledger, {c}, "cancelled", ByCancellation)
  <2>1. w.leases \in Leases /\ w.ledger \in Ledger /\ LedgerBound(w.ledger)
    BY <1>0, <1>r, EndAllKeeps
  <2>2. Ending(w) /\ cancelled' \in BOOLEAN
    BY <1>14, <1>0 DEF CancelWorker
  <2> HIDE DEF w
  <2> QED
    BY <2>1, <2>2, EndingKeeps
<1>15. CASE CancelTeam
  <2> DEFINE w == EndAll(leases, ledger, ActiveIn(leases), "cancelled", ByCancellation)
  <2>1. w.leases \in Leases /\ w.ledger \in Ledger /\ LedgerBound(w.ledger)
    <3>1. ActiveIn(leases) \subseteq Contract
      BY DEF ActiveIn
    <3> QED
      BY <1>0, <1>r, <3>1, EndAllKeeps
  <2>2. Ending(w) /\ cancelled' \in BOOLEAN
    BY <1>15 DEF CancelTeam
  <2> HIDE DEF w
  <2> QED
    BY <2>1, <2>2, EndingKeeps
<1>16. CASE ReapTimeouts
  <2>1. Ending(v) /\ cancelled' \in BOOLEAN
    BY <1>16, <1>0 DEF ReapTimeouts
  <2> HIDE DEF v
  <2> QED
    BY <1>v, <2>1, EndingKeeps
<1>17. ASSUME NEW c \in Contract, AcknowledgeStopped(c)
       PROVE  Kept
  <2>1. leases[c] \in Lease
    BY <1>0 DEF Leases
  <2>2. [leases[c] EXCEPT !.stop = FALSE] \in Lease
    BY <2>1 DEF Lease
  <2>3. leases' \in Leases
    BY <1>17, <1>0, <2>2 DEF AcknowledgeStopped, Leases
  <2> QED
    BY <1>17, <1>0, <2>3, KeptByLeases DEF AcknowledgeStopped
<1>18. CASE Crash
  BY <1>18, <1>0 DEF Crash, stateVars, Kept, Inv, TypeOK, MemoryOK
<1>19. CASE Recover
  <2>1. disk \in Checkpoint
    BY <1>19 DEF Recover, Inv, CheckpointWritten
  <2> DEFINE ls == disk.leases
             w == AfterExpiry(ls, Rebuilt(ls))
  <2>2. ls \in Leases
    BY <2>1 DEF Checkpoint, Leases
  <2>3. w.leases \in Leases /\ w.ledger \in Ledger /\ LedgerBound(w.ledger)
    <3> HIDE DEF ls
    <3>1. Rebuilt(ls) \in Ledger /\ LedgerBound(Rebuilt(ls))
      BY <2>2, RebuiltKeeps
    <3> QED
      BY <1>0, <2>2, <3>1, AfterExpiryKeeps
  <2>4. leases' = w.leases /\ ledger' = w.ledger
    BY <1>19 DEF Recover
  <2> HIDE DEF w, ls
  <2>5. MemoryOK'
    BY <1>19, <2>1, <2>3, <2>4 DEF Recover, Checkpoint, MemoryOK, Leases
  <2>6. disk' = disk \/ disk' = State'
    BY <1>19 DEF Recover
  <2>7. up' = TRUE /\ ~up /\ now' = now
    BY <1>19 DEF Recover
  <2> QED
    BY <1>0, <2>3, <2>4, <2>5, <2>6, <2>7 DEF Kept
<1>20. CASE RecoverFails
  BY <1>20, <1>0 DEF RecoverFails, vars, stateVars, Kept, Inv, TypeOK, MemoryOK
<1>21. CASE Tick
  BY <1>21, <1>0 DEF Tick, stateVars, Kept, Inv, TypeOK, MemoryOK
<1> QED
  BY <1>1, <1>2, <1>3, <1>4, <1>5, <1>6, <1>7, <1>8, <1>9, <1>10, <1>11, <1>12, <1>13, <1>14,
     <1>15, <1>16, <1>17, <1>18, <1>19, <1>20, <1>21
     DEF Next, Admit, Charge, Complete

(* The invariant is inductive. *)
LEMMA StepInv == Inv /\ [Next]_vars => Inv'
<1> SUFFICES ASSUME Inv, [Next]_vars PROVE Inv'
  OBVIOUS
<1>1. CASE Next
  BY <1>1, NextKeeps, KeptSuffices
<1>2. CASE UNCHANGED vars
  BY <1>2 DEF vars, stateVars, Inv, TypeOK, MemoryOK, LedgerWithinTeam, CheckpointWritten
<1> QED
  BY <1>1, <1>2

(* ... so it always holds. *)
LEMMA SpecInv == Spec => []Inv
  BY InitInv, StepInv, PTL DEF Spec

(* The scheduler's memory and its checkpoint are well typed in every run.   *)
THEOREM TypeCorrect == Spec => []TypeOK
<1>1. Inv => TypeOK
  BY DEF Inv
<1> QED
  BY <1>1, SpecInv, PTL

(* TeamBudgetLedger never overbooks the team, in any dimension: not by      *)
(* admission, not when a settlement is refused half way through a loop, not *)
(* when late usage or a restart rebuilds the ledger and the rebuild stops   *)
(* at a refusal.                                                            *)
THEOREM LedgerNeverOverbooks == Spec => []LedgerWithinTeam
<1>1. Inv => LedgerWithinTeam
  BY DEF Inv
<1> QED
  BY <1>1, SpecInv, PTL
=============================================================================
