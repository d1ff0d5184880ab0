------------------------------ MODULE SwarmControl ------------------------------
(***************************************************************************)
(* SwarmScheduler (arena/swarm_control.py): the trusted scheduling          *)
(* authority of one bounded subagent team.  Every public method runs under  *)
(* one re-entrant lock, so each is one action here; the last thing a method *)
(* that changes state does is _persist(), an atomic replacement of the      *)
(* checkpoint file, so a crash inside a method is a crash before it.  What  *)
(* the model keeps separate is the memory of the scheduler and its          *)
(* checkpoint: some methods change memory and return or raise without       *)
(* persisting.                                                              *)
(*                                                                         *)
(* A method that raises or returns before it changed anything is a          *)
(* stuttering step and has no action.  A child contract has exactly one     *)
(* lease (lease_id is a field of the contract), so leases are indexed by    *)
(* contract.                                                                *)
(***************************************************************************)
EXTENDS SwarmBudget

CONSTANTS
    Pred,            \* [Contract -> SUBSET Contract]: contracts of the predecessor phases
    LeaseTtl,        \* lease_ttl_s
    Key,             \* idempotency keys callers use
    DeliveryId,      \* delivery ids of charge()
    Deltas,          \* the usage increments charge() is called with
    Reports,         \* the terminal usages workers report
    Outcomes,        \* the structured results workers return
    Commit,          \* commits workers may observe
    Base,            \* identity.base_commit
    None,            \* Python's None
    MaxTime          \* bound on the clock

VARIABLES
    plan,            \* _plan is not None
    registered,      \* the keys of _contracts
    inputs,          \* [Contract -> SUBSET Contract]: whose receipts phase_inputs binds
    leases,          \* _leases
    byKey,           \* _by_key
    deliveries,      \* _usage_deliveries
    observed,        \* _terminal_usage_deliveries, at most one for a lease
    receipts,        \* _receipts: the output commit of a contract's receipt
    authorized,      \* the contracts _authorizations holds one for
    consumed,        \* the contracts whose authorization is in _consumed_authorizations
    cancelled,       \* _cancelled
    ledger,          \* _ledger
    disk,            \* the checkpoint file
    up,              \* the scheduler process is running
    now              \* the clock

stateVars == <<plan, registered, inputs, leases, byKey, deliveries, observed,
               receipts, authorized, consumed, cancelled>>
vars == <<stateVars, ledger, disk, up, now>>

ASSUME ControlAssumption ==
    /\ Pred \in [Contract -> SUBSET Contract]
    /\ LeaseTtl \in Nat \ {0}
    /\ MaxConcurrency \in Nat \ {0}
    /\ MaxTime \in Nat
    /\ Deltas \subseteq Usage /\ Reports \subseteq Usage
    /\ Base \in Commit
    /\ None \notin Commit \cup Key \cup Usage
    /\ Outcomes \subseteq [disposition : {"completed", "failed"}, commit : Commit \cup {None},
                           reason : {None}, budget : {FALSE}]

-----------------------------------------------------------------------------
(* The data. *)

Controlled == {"over_budget", "cancelled", "timed_out"}
LeaseState == {"none", "active", "finished"} \cup Controlled
Reason == {"deadline", "heartbeat", "cancelled", "budget"}

(* A structured worker result: its disposition, the commit it observed, and *)
(* for a controller terminal result the bound reason and whether its reason *)
(* codes name the budget.                                                   *)
Result == [disposition : {"completed", "failed"}, commit : Commit \cup {None},
           reason : Reason \cup {None}, budget : BOOLEAN]

Lease == [state : LeaseState, key : Key \cup {None},
          acquired : Nat, expires : Nat, deadline : Nat,
          usage : Usage, settled : Usage \cup {None},
          over : SUBSET {"wall", "units"},
          result : Result \cup {None}, reason : Reason \cup {None},
          stop : BOOLEAN]

NoLease == [state |-> "none", key |-> None, acquired |-> 0, expires |-> 0,
            deadline |-> 0, usage |-> ZeroUsage, settled |-> None, over |-> {},
            result |-> None, reason |-> None, stop |-> FALSE]

Held(ls) == {c \in Contract : ls[c].state # "none"}
ActiveIn(ls) == {c \in Contract : ls[c].state = "active"}
TerminalIn(ls) == Held(ls) \ ActiveIn(ls)

Expiry(l) == Smaller(l.expires, l.deadline)
Live(l) == l.state = "active" /\ now < Expiry(l)

(* _state(): what a checkpoint holds. *)
State == [plan |-> plan, registered |-> registered, inputs |-> inputs,
          leases |-> leases, byKey |-> byKey, deliveries |-> deliveries,
          observed |-> observed, receipts |-> receipts, authorized |-> authorized,
          consumed |-> consumed, cancelled |-> cancelled]

Persist == disk' = State'

-----------------------------------------------------------------------------
(* Ending leases.  Elapsed wall time is finalised first, then the lease     *)
(* changes, and the ledger is settled last: when settle() raises, the lease *)
(* that made it raise has already changed, and later ones have not.         *)

FinalUsage(l, c) ==
    [l.usage EXCEPT !.wall = Smaller(Budget[c].wall, Larger(@, now - l.acquired))]

FinalUsages(ls) == [c \in Contract |-> FinalUsage(ls[c], c)]

(* The lease a loop of terminations leaves, and the ledger after it.        *)
(* Mutant: the settlement misses the elapsed wall time just finalised.      *)
Stopped_SettlesRaw(l, c, state, reason) ==
    [l EXCEPT !.state = state, !.reason = reason, !.stop = TRUE,
              !.usage = FinalUsage(l, c), !.settled = l.usage]

Stopped(l, c, state, reason) ==
    [l EXCEPT !.state = state, !.reason = reason, !.stop = TRUE,
              !.usage = FinalUsage(l, c), !.settled = FinalUsage(l, c)]

EndAll(ls, led, S, state, reason) ==
    LET used == FinalUsages(ls)
    IN  [leases |-> [c \in Contract |->
                        IF c \in SettleReached(led, S, used)
                          THEN Stopped(ls[c], c, state, reason[c]) ELSE ls[c]],
         ledger |-> SettleAll(led, S, used),
         ok     |-> SettleRefused(led, S, used) = {}]

(* _expire_locked(now). *)
Expired(ls) == {c \in ActiveIn(ls) : now >= Expiry(ls[c])}

AfterExpiry(ls, led) ==
    EndAll(ls, led, Expired(ls), "timed_out",
           [c \in Contract |-> IF now >= ls[c].deadline THEN "deadline" ELSE "heartbeat"])

(* The effect of a method that expired leases and then returned early or    *)
(* raised: memory only, nothing is persisted.                               *)
OnlyExpiry ==
    LET v == AfterExpiry(leases, ledger)
    IN  /\ leases' = v.leases
        /\ ledger' = v.ledger
        /\ UNCHANGED <<plan, registered, inputs, byKey, deliveries, observed, receipts,
                       authorized, consumed, cancelled, disk, up, now>>

(* _rebuild_ledger(): terminal leases in order, each reserved at its full   *)
(* budget and settled at once, then the active ones.  Any refusal raises    *)
(* and leaves the ledger built so far.                                      *)
SettledOf(ls) == [c \in Contract |-> IF ls[c].settled = None THEN ZeroUsage ELSE ls[c].settled]

RefitsTerminal(ls, c) ==
    /\ ls[c].settled # None
    /\ Within(Plus(SumUsage(SettledOf(ls), {d \in TerminalIn(ls) : d < c}), Budget[c]), Team)
    /\ Within(SettledOf(ls)[c], Budget[c])

Resettled(ls) ==
    {c \in TerminalIn(ls) : \A d \in TerminalIn(ls) : d <= c => RefitsTerminal(ls, d)}

RefitsActive(ls, c) ==
    CanReserve([active   |-> {d \in ActiveIn(ls) : d < c},
                settled  |-> TerminalIn(ls),
                consumed |-> SumUsage(SettledOf(ls), TerminalIn(ls))], c)

Rereserved(ls) ==
    IF Resettled(ls) # TerminalIn(ls) THEN {}
    ELSE {c \in ActiveIn(ls) : \A d \in ActiveIn(ls) : d <= c => RefitsActive(ls, d)}

Rebuilt(ls) == [active   |-> Rereserved(ls),
                settled  |-> Resettled(ls),
                consumed |-> SumUsage(SettledOf(ls), Resettled(ls))]

RebuildFits(ls) == Resettled(ls) = TerminalIn(ls) /\ Rereserved(ls) = ActiveIn(ls)

-----------------------------------------------------------------------------
(* Plan, contracts, receipts and authorizations. *)

RegisterPlan ==
    /\ up
    /\ ~plan
    /\ plan' = TRUE
    /\ UNCHANGED <<registered, inputs, leases, byKey, deliveries, observed, receipts,
                   authorized, consumed, cancelled, ledger, up, now>>
    /\ Persist

(* A contract is registered with the phase inputs its issuer bound, any set *)
(* of receipts that exist: register() does not check them, admission does.  *)
Register(c, ins) ==
    /\ up
    /\ plan
    /\ c \notin registered
    /\ \A d \in ins : receipts[d] # None
    /\ registered' = registered \cup {c}
    /\ inputs' = [inputs EXCEPT ![c] = ins]
    /\ UNCHANGED <<plan, leases, byKey, deliveries, observed, receipts, authorized,
                   consumed, cancelled, ledger, up, now>>
    /\ Persist

(* _owned_receipts(): every receipt exists and a finished lease backs it.   *)
Owned(ls, rs, S) == \A d \in S : rs[d] # None /\ ls[d].state = "finished" /\ ls[d].result # None

Commits(rs, S) == {rs[d] : d \in S}

OutputCommit(ls, rs, ins, c) ==
    IF ls[c].result.commit # None THEN ls[c].result.commit
    ELSE IF ins[c] = {} THEN Base ELSE CHOOSE k \in Commits(rs, ins[c]) : TRUE

RecordPhaseReceipt(c) ==
    /\ up
    /\ leases[c].state = "finished"
    /\ leases[c].result # None
    /\ receipts[c] = None
    /\ Owned(leases, receipts, inputs[c])
    /\ Cardinality(Commits(receipts, inputs[c])) <= 1
    /\ receipts' = [receipts EXCEPT ![c] = OutputCommit(leases, receipts, inputs, c)]
    /\ UNCHANGED <<plan, registered, inputs, leases, byKey, deliveries, observed,
                   authorized, consumed, cancelled, ledger, up, now>>
    /\ Persist

(* A second authorization of a contract differs in authorized_at: it raises.*)
IssuePhaseAuthorization(c) ==
    /\ up
    /\ c \in registered
    /\ inputs[c] # {}
    /\ Owned(leases, receipts, inputs[c])
    /\ Cardinality(Commits(receipts, inputs[c])) = 1
    /\ c \notin authorized
    /\ authorized' = authorized \cup {c}
    /\ UNCHANGED <<plan, registered, inputs, leases, byKey, deliveries, observed, receipts,
                   consumed, cancelled, ledger, up, now>>
    /\ Persist

-----------------------------------------------------------------------------
(* Admission. *)

(* _require_admission_authorization(); the caller presents the contract's   *)
(* authorization exactly when the phase is not a root, the rest is refused. *)
(* Mutant: any owned completed receipts do, not the planned predecessors.   *)
AdmissionAuthorized_AnyInputs(ls, c) ==
    IF Pred[c] = {} THEN inputs[c] = {}
    ELSE /\ c \in authorized
         /\ c \notin consumed
         /\ Owned(ls, receipts, inputs[c])
         /\ \A d \in inputs[c] : ls[d].result.disposition = "completed"

AdmissionAuthorized(ls, c) ==
    IF Pred[c] = {} THEN inputs[c] = {}
    ELSE /\ c \in authorized
         /\ c \notin consumed
         /\ Owned(ls, receipts, inputs[c])
         /\ inputs[c] = Pred[c]
         /\ \A d \in inputs[c] : ls[d].result.disposition = "completed"

Admissible(v, c, k) ==
    /\ v.ok
    /\ c \in registered
    /\ byKey[k] = None
    /\ ~cancelled
    /\ v.leases[c].state = "none"
    /\ AdmissionAuthorized(v.leases, c)
    /\ CanReserve(v.ledger, c)

NewLease(c, k) ==
    LET deadline == now + Budget[c].wall
    IN  [NoLease EXCEPT !.state = "active", !.key = k, !.acquired = now,
                        !.expires = Smaller(now + LeaseTtl, deadline),
                        !.deadline = deadline]

AdmitGranted(c, k) ==
    LET v == AfterExpiry(leases, ledger)
    IN  /\ up
        /\ Admissible(v, c, k)
        /\ ledger' = Reserve(v.ledger, c)
        /\ leases' = [v.leases EXCEPT ![c] = NewLease(c, k)]
        /\ byKey' = [byKey EXCEPT ![k] = c]
        /\ consumed' = IF Pred[c] = {} THEN consumed ELSE consumed \cup {c}
        /\ UNCHANGED <<plan, registered, inputs, deliveries, observed, receipts, authorized,
                       cancelled, up, now>>
        /\ Persist

(* Every other answer of admit(): a duplicate, a refusal, an error.         *)
AdmitRefused(c, k) ==
    /\ up
    /\ ~Admissible(AfterExpiry(leases, ledger), c, k)
    /\ OnlyExpiry

Admit(c, k) == AdmitGranted(c, k) \/ AdmitRefused(c, k)

Heartbeat(c) ==
    /\ up
    /\ Live(leases[c])
    /\ leases' = [leases EXCEPT ![c].expires = Smaller(now + LeaseTtl, leases[c].deadline)]
    /\ UNCHANGED <<plan, registered, inputs, byKey, deliveries, observed, receipts,
                   authorized, consumed, cancelled, ledger, up, now>>
    /\ Persist

-----------------------------------------------------------------------------
(* Usage and results. *)

(* Mutant: a redelivered charge counts again.                               *)
ChargeAccepted_Redelivered(c, d, u) ==
    LET v == AfterExpiry(leases, ledger)
    IN  /\ up
        /\ v.ok
        /\ Live(v.leases[c])
        /\ Within(Plus(v.leases[c].usage, u), Budget[c])
        /\ leases' = [v.leases EXCEPT ![c].usage = Plus(@, u)]
        /\ ledger' = v.ledger
        /\ deliveries' = [deliveries EXCEPT ![d] = [lease |-> c, usage |-> u]]
        /\ UNCHANGED <<plan, registered, inputs, byKey, observed, receipts, authorized,
                       consumed, cancelled, up, now>>
        /\ Persist

ChargeAccepted(c, d, u) ==
    LET v == AfterExpiry(leases, ledger)
    IN  /\ up
        /\ v.ok
        /\ Live(v.leases[c])
        /\ deliveries[d] = None
        /\ Within(Plus(v.leases[c].usage, u), Budget[c])
        /\ leases' = [v.leases EXCEPT ![c].usage = Plus(@, u)]
        /\ ledger' = v.ledger
        /\ deliveries' = [deliveries EXCEPT ![d] = [lease |-> c, usage |-> u]]
        /\ UNCHANGED <<plan, registered, inputs, byKey, observed, receipts, authorized,
                       consumed, cancelled, up, now>>
        /\ Persist

ChargeRefused(c, d, u) ==
    LET v == AfterExpiry(leases, ledger)
    IN  /\ up
        /\ ~ /\ v.ok
             /\ Live(v.leases[c])
             /\ deliveries[d] = None
             /\ Within(Plus(v.leases[c].usage, u), Budget[c])
        /\ OnlyExpiry

Charge(c, d, u) == ChargeAccepted(c, d, u) \/ ChargeRefused(c, d, u)

(* The lease with a terminal usage observation folded in. *)
Observing(l, c, u) ==
    [l EXCEPT !.usage = UsageMax(@, u), !.over = OverageDimensions(UsageMax(l.usage, u), c)]

(* An active lease within its budget only records the evidence.             *)
ObserveWithinBudget(c, u) ==
    /\ leases[c].state = "active"
    /\ Observing(leases[c], c, u).over = {}
    /\ leases' = [leases EXCEPT ![c] = Observing(@, c, u)]
    /\ ledger' = ledger
    /\ Persist

(* An active lease over its budget ends, settled at the contract ceiling.   *)
ObserveOverage(c, u) ==
    LET l == Observing(leases[c], c, u)
        accounted == CapUsage(l.usage, c)
        used == [d \in {c} |-> accounted]
    IN  /\ leases[c].state = "active"
        /\ l.over # {}
        /\ leases' = [leases EXCEPT ![c] = [l EXCEPT !.state = "over_budget",
                                                     !.reason = "budget",
                                                     !.settled = accounted]]
        /\ ledger' = SettleAll(ledger, {c}, used)
        /\ IF SettleRefused(ledger, {c}, used) = {} THEN Persist ELSE UNCHANGED disk

(* Late usage of a lease the controller already ended: the ledger is        *)
(* rebuilt from the leases, and a refusal there leaves memory changed.      *)
ObserveLate(c, u) ==
    LET l == Observing(leases[c], c, u)
    IN  /\ leases[c].state \in Controlled
        /\ leases' = [leases EXCEPT ![c] = [l EXCEPT !.settled = CapUsage(l.usage, c)]]
        /\ ledger' = Rebuilt(leases')
        /\ IF RebuildFits(leases') THEN Persist ELSE UNCHANGED disk

ObserveTerminalUsage(c, u) ==
    /\ up
    /\ observed[c] = None
    /\ observed' = [observed EXCEPT ![c] = u]
    /\ UNCHANGED <<plan, registered, inputs, byKey, deliveries, receipts, authorized,
                   consumed, cancelled, up, now>>
    /\ ObserveWithinBudget(c, u) \/ ObserveOverage(c, u) \/ ObserveLate(c, u)

(* _require_controller_terminal_result() *)
BoundTerminalResult(l, r) ==
    /\ r.disposition = "failed"
    /\ l.over # {} => r.budget
    /\ l.state \in {"timed_out", "cancelled"} => r.reason = l.reason

RecordTerminalResult(c, budget) ==
    LET r == [disposition |-> "failed", commit |-> None, budget |-> budget,
              reason |-> leases[c].reason]
    IN  /\ up
        /\ leases[c].state \in Controlled
        /\ leases[c].result = None
        /\ BoundTerminalResult(leases[c], r)
        /\ leases' = [leases EXCEPT ![c].result = r]
        /\ UNCHANGED <<plan, registered, inputs, byKey, deliveries, observed, receipts,
                       authorized, consumed, cancelled, ledger, up, now>>
        /\ Persist

CompleteAccepted(c, r) ==
    LET v == AfterExpiry(leases, ledger)
        used == FinalUsages(v.leases)
    IN  /\ up
        /\ v.ok
        /\ Live(v.leases[c])
        /\ leases' = [v.leases EXCEPT ![c] = [@ EXCEPT !.state = "finished", !.result = r,
                                                       !.usage = used[c], !.settled = used[c]]]
        /\ ledger' = SettleAll(v.ledger, {c}, used)
        /\ UNCHANGED <<plan, registered, inputs, byKey, deliveries, observed, receipts,
                       authorized, consumed, cancelled, up, now>>
        /\ IF SettleRefused(v.ledger, {c}, used) = {} THEN Persist ELSE UNCHANGED disk

CompleteRefused(c) ==
    LET v == AfterExpiry(leases, ledger)
    IN  /\ up
        /\ ~(v.ok /\ Live(v.leases[c]))
        /\ OnlyExpiry

Complete(c, r) == CompleteAccepted(c, r) \/ CompleteRefused(c)

-----------------------------------------------------------------------------
(* Cancellation, timeouts, stop acknowledgements. *)

Ending(v) ==
    /\ leases' = v.leases
    /\ ledger' = v.ledger
    /\ UNCHANGED <<plan, registered, inputs, byKey, deliveries, observed, receipts,
                   authorized, consumed, up, now>>
    /\ IF v.ok THEN Persist ELSE UNCHANGED disk

ByCancellation == [c \in Contract |-> "cancelled"]

CancelWorker(c) ==
    /\ up
    /\ leases[c].state = "active"
    /\ cancelled' = cancelled
    /\ Ending(EndAll(leases, ledger, {c}, "cancelled", ByCancellation))

CancelTeam ==
    /\ up
    /\ ~cancelled
    /\ cancelled' = TRUE
    /\ Ending(EndAll(leases, ledger, ActiveIn(leases), "cancelled", ByCancellation))

ReapTimeouts ==
    /\ up
    /\ Expired(leases) # {}
    /\ cancelled' = cancelled
    /\ Ending(AfterExpiry(leases, ledger))

AcknowledgeStopped(c) ==
    /\ up
    /\ leases[c].stop
    /\ leases' = [leases EXCEPT ![c].stop = FALSE]
    /\ UNCHANGED <<plan, registered, inputs, byKey, deliveries, observed, receipts,
                   authorized, consumed, cancelled, ledger, up, now>>
    /\ Persist

-----------------------------------------------------------------------------
(* Restart. *)

(* Memory is lost: what it held is kept only to compare it with what the    *)
(* next process recovers.  Before register_plan() there is no checkpoint,   *)
(* and a restart is a new scheduler.                                        *)
Crash ==
    /\ up
    /\ plan
    /\ up' = FALSE
    /\ UNCHANGED <<stateVars, ledger, disk, now>>

DeliveredTo(d, c) == {i \in DeliveryId : d.deliveries[i] # None /\ d.deliveries[i].lease = c}

DeliveredUnits(d, c) ==
    Total([i \in DeliveryId |->
              IF d.deliveries[i] = None THEN 0 ELSE d.deliveries[i].usage.units],
          DeliveredTo(d, c))

DeliveredWall(d, c) ==
    Total([i \in DeliveryId |->
              IF d.deliveries[i] = None THEN 0 ELSE d.deliveries[i].usage.wall],
          DeliveredTo(d, c))

Evidence(d, c) ==
    UsageMax([wall |-> DeliveredWall(d, c), units |-> DeliveredUnits(d, c)],
             IF d.observed[c] = None THEN ZeroUsage ELSE d.observed[c])

(* _validate_recovered_state(), lease by lease... *)
ValidLease(d, c) ==
    LET l == d.leases[c]
    IN  /\ c \in d.registered
        /\ IF l.state = "active" THEN l.settled = None /\ l.result = None
                                 ELSE l.settled # None
        /\ l.state = "finished" => l.result # None
        /\ l.state = "over_budget" => l.over # {}
        /\ l.stop => l.state \in {"cancelled", "timed_out"}
        /\ l.result # None /\ l.state # "finished" => BoundTerminalResult(l, l.result)
        /\ l.over = OverageDimensions(l.usage, c)
        /\ l.settled # None => l.settled = CapUsage(l.usage, c)
        /\ d.byKey[l.key] = c
        /\ Evidence(d, c).wall <= l.usage.wall
        /\ Evidence(d, c).units = l.usage.units

(* ... and the receipts, authorizations and their consumption.              *)
ValidEvidence(d) ==
    /\ \A c \in Contract : d.receipts[c] # None =>
            /\ d.leases[c].result # None
            /\ Owned(d.leases, d.receipts, d.inputs[c])
            /\ d.receipts[c] = OutputCommit(d.leases, d.receipts, d.inputs, c)
    /\ \A c \in d.authorized :
            c \in d.registered /\ Owned(d.leases, d.receipts, d.inputs[c])
    /\ \A c \in d.consumed : c \in d.authorized /\ c \in Held(d.leases)

Recoverable(d) ==
    /\ RebuildFits(d.leases)
    /\ \A c \in Held(d.leases) : ValidLease(d, c)
    /\ ValidEvidence(d)

(* Mutant: recover() does not reap.                                         *)
Recover_NoReap ==
    /\ ~up
    /\ Recoverable(disk)
    /\ up' = TRUE
    /\ leases' = disk.leases
    /\ ledger' = Rebuilt(disk.leases)
    /\ plan' = disk.plan /\ registered' = disk.registered /\ inputs' = disk.inputs
    /\ byKey' = disk.byKey /\ deliveries' = disk.deliveries /\ observed' = disk.observed
    /\ receipts' = disk.receipts /\ authorized' = disk.authorized
    /\ consumed' = disk.consumed /\ cancelled' = disk.cancelled
    /\ UNCHANGED <<disk, now>>

(* recover() loads, rebuilds, validates and then reaps expired leases.      *)
Recover ==
    LET v == AfterExpiry(disk.leases, Rebuilt(disk.leases))
    IN  /\ ~up
        /\ Recoverable(disk)
        /\ up' = TRUE
        /\ plan' = disk.plan
        /\ registered' = disk.registered
        /\ inputs' = disk.inputs
        /\ leases' = v.leases
        /\ byKey' = disk.byKey
        /\ deliveries' = disk.deliveries
        /\ observed' = disk.observed
        /\ receipts' = disk.receipts
        /\ authorized' = disk.authorized
        /\ consumed' = disk.consumed
        /\ cancelled' = disk.cancelled
        /\ ledger' = v.ledger
        /\ now' = now
        /\ IF v.ok /\ Expired(disk.leases) # {} THEN Persist ELSE UNCHANGED disk

(* recover() raises: the checkpoint stays as it is, and so does the next try.*)
RecoverFails ==
    /\ ~up
    /\ ~Recoverable(disk)
    /\ UNCHANGED vars

Tick ==
    /\ now < MaxTime
    /\ now' = now + 1
    /\ UNCHANGED <<stateVars, ledger, disk, up>>

-----------------------------------------------------------------------------

Init ==
    /\ plan = FALSE
    /\ registered = {}
    /\ inputs = [c \in Contract |-> {}]
    /\ leases = [c \in Contract |-> NoLease]
    /\ byKey = [k \in Key |-> None]
    /\ deliveries = [i \in DeliveryId |-> None]
    /\ observed = [c \in Contract |-> None]
    /\ receipts = [c \in Contract |-> None]
    /\ authorized = {}
    /\ consumed = {}
    /\ cancelled = FALSE
    /\ ledger = EmptyLedger
    /\ disk = None
    /\ up = TRUE
    /\ now = 0

Next ==
    \/ RegisterPlan
    \/ \E c \in Contract, ins \in SUBSET Contract : Register(c, ins)
    \/ \E c \in Contract : RecordPhaseReceipt(c)
    \/ \E c \in Contract : IssuePhaseAuthorization(c)
    \/ \E c \in Contract, k \in Key : Admit(c, k)
    \/ \E c \in Contract : Heartbeat(c)
    \/ \E c \in Contract, i \in DeliveryId, u \in Deltas : Charge(c, i, u)
    \/ \E c \in Contract, u \in Reports : ObserveTerminalUsage(c, u)
    \/ \E c \in Contract, b \in BOOLEAN : RecordTerminalResult(c, b)
    \/ \E c \in Contract, r \in Outcomes : Complete(c, r)
    \/ \E c \in Contract : CancelWorker(c)
    \/ CancelTeam
    \/ ReapTimeouts
    \/ \E c \in Contract : AcknowledgeStopped(c)
    \/ Crash
    \/ Recover
    \/ RecoverFails
    \/ Tick

Spec == Init /\ [][Next]_vars

-----------------------------------------------------------------------------
(* Properties. *)

Checkpoint ==
    [plan : BOOLEAN, registered : SUBSET Contract, inputs : [Contract -> SUBSET Contract],
     leases : [Contract -> Lease], byKey : [Key -> Contract \cup {None}],
     deliveries : [DeliveryId -> [lease : Contract, usage : Usage] \cup {None}],
     observed : [Contract -> Usage \cup {None}],
     receipts : [Contract -> Commit \cup {None}],
     authorized : SUBSET Contract, consumed : SUBSET Contract, cancelled : BOOLEAN]

(* None is neither a contract nor one of the records it stands in for. *)
ASSUME NoneAssumption ==
    None \notin Contract \cup Result \cup Checkpoint \cup [lease : Contract, usage : Usage]

(* Type correctness of the scheduler's memory and of its checkpoint.        *)
MemoryOK ==
    /\ plan \in BOOLEAN
    /\ registered \subseteq Contract
    /\ inputs \in [Contract -> SUBSET Contract]
    /\ leases \in [Contract -> Lease]
    /\ byKey \in [Key -> Contract \cup {None}]
    /\ deliveries \in [DeliveryId -> [lease : Contract, usage : Usage] \cup {None}]
    /\ observed \in [Contract -> Usage \cup {None}]
    /\ receipts \in [Contract -> Commit \cup {None}]
    /\ authorized \subseteq Contract
    /\ consumed \subseteq Contract
    /\ cancelled \in BOOLEAN

TypeOK ==
    /\ MemoryOK
    /\ ledger \in Ledger
    /\ disk \in Checkpoint \cup {None}
    /\ up \in BOOLEAN
    /\ now \in Nat

(* TeamBudgetLedger never overbooks: what finished children used and what   *)
(* active children reserved fits the team budget in every dimension, also   *)
(* when a settlement or a rebuild was refused half way.                     *)
LedgerWithinTeam == LedgerBound(ledger)

(* The ledger is the leases: every active lease holds its reservation and   *)
(* every ended one is settled once, at the usage its lease records.         *)
LedgerMatchesLeases ==
    up => /\ ledger.active = ActiveIn(leases)
          /\ ledger.settled = TerminalIn(leases)
          /\ ledger.consumed = SumUsage(SettledOf(leases), TerminalIn(leases))

(* Children that run at the same time never exceed the team's concurrency   *)
(* and never share writable files of one worktree, across restarts too.     *)
ActiveChildrenIsolated ==
    up => /\ Cardinality(ActiveIn(leases)) <= MaxConcurrency
          /\ \A c \in ActiveIn(leases) : ExclusiveScope(ActiveIn(leases) \ {c}, c)

(* A non-root child ever admitted had every planned predecessor finished,   *)
(* completed and receipted, all on one commit, and consumed its             *)
(* authorization (admit / _require_admission_authorization).                *)
DownstreamAfterCompletion ==
    \A c \in Held(leases) : Pred[c] # {} =>
        /\ c \in consumed
        /\ \A d \in Pred[c] : /\ leases[d].state = "finished"
                              /\ leases[d].result.disposition = "completed"
                              /\ receipts[d] # None
        /\ Cardinality(Commits(receipts, Pred[c])) = 1

(* "Stop requests, raw usage, receipts, consumed authorizations, and        *)
(* terminal results all survive content-checked restart recovery": the      *)
(* checkpoint on disk is always one that recover() accepts.                 *)
CheckpointRecoverable == disk # None => Recoverable(disk)

(* "A late process result can never resurrect or complete a lease": an      *)
(* ended lease keeps its state for ever, also when its expiry was never     *)
(* persisted and the scheduler crashed and recovered.                       *)
TerminalIsFinal ==
    [][\A c \in TerminalIn(leases) : leases'[c].state = leases[c].state]_vars

(* A process that must be stopped stays a stop request until somebody       *)
(* acknowledges it (stop_requests / acknowledge_stopped), across restarts.  *)
StopOwedUntilAcknowledged ==
    [][\A c \in Contract : leases[c].stop /\ ~leases'[c].stop => AcknowledgeStopped(c)]_vars

(* Evidence is never lost: the recorded usage of a lease never shrinks and  *)
(* its result, once accepted, never changes, across restarts too.           *)
EvidenceRetained ==
    [][\A c \in Held(leases) :
            /\ Within(leases[c].usage, leases'[c].usage)
            /\ leases[c].result # None => leases'[c].result = leases[c].result]_vars

(* cancel_team "permanently closes admission", across restarts too.         *)
CancellationIsPermanent ==
    [][cancelled => cancelled' /\ ActiveIn(leases') = {}]_vars

(* Each delivery is charged exactly once: with no terminal observation, the *)
(* recorded units of a lease are the sum of the deliveries accepted for it. *)
ChargedExactlyOnce ==
    \A c \in Held(leases) : observed[c] = None =>
        leases[c].usage.units = DeliveredUnits(State, c)

(* Whatever expires, is cancelled or observed late, and wherever the        *)
(* scheduler dies: the ledger in memory is the one its leases imply, and    *)
(* the checkpoint is one that recover() accepts.                            *)
MemoryAndDiskAgree == LedgerMatchesLeases /\ CheckpointRecoverable

(* No step of the scheduler, a restart included, revives an ended lease,    *)
(* forgets a stop it owes, drops usage evidence or takes a cancellation     *)
(* back.                                                                    *)
NothingIsUndone ==
    TerminalIsFinal /\ StopOwedUntilAcknowledged /\ EvidenceRetained /\ CancellationIsPermanent

(* A downstream child runs on completed predecessors only, and children     *)
(* that are active together neither share a path nor overlap in scope.      *)
PhasesHold == DownstreamAfterCompletion /\ ActiveChildrenIsolated
=============================================================================
