------------------------------ MODULE SwarmBudget ------------------------------
(***************************************************************************)
(* The aggregate reservation ledger of a bounded subagent team             *)
(* (arena/swarm.py, class TeamBudgetLedger) and the usage arithmetic that   *)
(* SwarmScheduler does on it (arena/swarm_control.py, the _usage_max,       *)
(* _overage_dimensions, _cap_usage helpers).                                *)
(*                                                                         *)
(* A BudgetUsage has four dimensions.  Wall time is kept because the        *)
(* scheduler derives it from its clock; tokens, tool calls and cost are     *)
(* treated alike everywhere and are one dimension, "units", here.  A        *)
(* contract is its position in the lease_id order, the only order the code  *)
(* uses on contracts.                                                       *)
(***************************************************************************)
EXTENDS Integers, FiniteSets

CONSTANTS
    Contract,        \* the planned child contracts, numbered in lease_id order
    Budget,          \* [Contract -> Usage]: the child reservation (ExecutionBudget)
    Team,            \* Usage: the aggregate ceiling (TeamBudget)
    MaxConcurrency,  \* TeamBudget.max_concurrency
    Worktree,        \* [Contract -> worktree id]
    WriteScope       \* [Contract -> set of files the writable paths cover]

Usage == [wall : Nat, units : Nat]

ASSUME ContractAssumption == Contract \subseteq Nat /\ IsFiniteSet(Contract)
ASSUME BudgetAssumption == Budget \in [Contract -> Usage] /\ Team \in Usage

-----------------------------------------------------------------------------
(* Usage arithmetic. *)

Smaller(a, b) == IF a <= b THEN a ELSE b
Larger(a, b) == IF a >= b THEN a ELSE b

ZeroUsage == [wall |-> 0, units |-> 0]

Plus(u, v) == [wall |-> u.wall + v.wall, units |-> u.units + v.units]

Within(u, limit) == u.wall <= limit.wall /\ u.units <= limit.units

UsageMax(u, v) ==
    [wall |-> Larger(u.wall, v.wall), units |-> Larger(u.units, v.units)]

CapUsage(u, c) ==
    [wall |-> Smaller(u.wall, Budget[c].wall),
     units |-> Smaller(u.units, Budget[c].units)]

OverageDimensions(u, c) ==
    (IF u.wall > Budget[c].wall THEN {"wall"} ELSE {})
      \cup (IF u.units > Budget[c].units THEN {"units"} ELSE {})

(* A sum over a finite set, by counting one pair for every unit: no         *)
(* recursion, so that what it satisfies can be proved.                      *)
Pairs(f, S) == UNION {{c} \X (1 .. f[c]) : c \in S}
Total(f, S) == Cardinality(Pairs(f, S))

SumUsage(f, S) ==
    [wall |-> Total([c \in S |-> f[c].wall], S),
     units |-> Total([c \in S |-> f[c].units], S)]

-----------------------------------------------------------------------------
(* The ledger: the active reservations, the contracts already settled (the  *)
(* code keeps their usage too and never reads it back) and what they used.  *)

Ledger == [active : SUBSET Contract, settled : SUBSET Contract, consumed : Usage]

EmptyLedger == [active |-> {}, settled |-> {}, consumed |-> ZeroUsage]

Reserved(led) == SumUsage(Budget, led.active)

ExclusiveScope(active, c) ==
    \A d \in active :
        Worktree[d] = Worktree[c] => WriteScope[d] \cap WriteScope[c] = {}

(* Mutant: a ledger that forgets the running reservations.                  *)
CanReserve_IgnoresReserved(led, c) ==
    /\ c \notin led.active \cup led.settled
    /\ Cardinality(led.active) < MaxConcurrency
    /\ ExclusiveScope(led.active, c)
    /\ Within(Plus(led.consumed, Budget[c]), Team)

CanReserve(led, c) ==
    /\ c \notin led.active \cup led.settled
    /\ Cardinality(led.active) < MaxConcurrency
    /\ ExclusiveScope(led.active, c)
    /\ Within(Plus(Plus(led.consumed, Reserved(led)), Budget[c]), Team)

Reserve(led, c) == [led EXCEPT !.active = @ \cup {c}]

(* settle() applied to the contracts of S in lease_id order with the usage  *)
(* used[c]: the calls that raise...                                         *)
SettleRefused(led, S, used) ==
    {c \in S : ~ /\ c \in led.active
                 /\ Within(used[c], Budget[c])
                 /\ Within(Plus(led.consumed,
                                SumUsage(used, {d \in S : d <= c})), Team)}

(* ... the contracts the loop reaches before (and with) the first of them...*)
SettleReached(led, S, used) ==
    {c \in S : \A b \in SettleRefused(led, S, used) : c <= b}

(* Mutant: settling refunds the unused part out of what was consumed.       *)
SettleAll_Refunds(led, S, used) ==
    LET done == SettleReached(led, S, used) \ SettleRefused(led, S, used)
    IN  [active   |-> led.active \ done,
         settled  |-> led.settled \cup done,
         consumed |-> [wall |-> led.consumed.wall + SumUsage(used, done).wall,
                       units |-> led.consumed.units + SumUsage(used, done).units
                                   - SumUsage(Budget, done).units]]

(* ... and the ledger it leaves.                                            *)
SettleAll(led, S, used) ==
    LET done == SettleReached(led, S, used) \ SettleRefused(led, S, used)
    IN  [active   |-> led.active \ done,
         settled  |-> led.settled \cup done,
         consumed |-> Plus(led.consumed, SumUsage(used, done))]

(* TeamBudgetLedger's promise: consumption and reservations fit the team.   *)
LedgerBound(led) == Within(Plus(led.consumed, Reserved(led)), Team)
=============================================================================
