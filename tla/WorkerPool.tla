------------------------------- MODULE WorkerPool -------------------------------
(***************************************************************************)
(* PoolController (pool.py), AutoscalePolicy over it (autoscale_policy.py,  *)
(* with the headroom of autocode/autoscale.py) and the placement on a fleet *)
(* node.  The harness's spawn and archive do not suspend, so scale, drain   *)
(* and destroy run in one step on the event loop, but each of their calls   *)
(* may raise half-way.  execute() suspends once, while the evidence of a    *)
(* scale-down is recorded.  The panes live in tmux, where other programs    *)
(* close them too.                                                          *)
(***************************************************************************)
EXTENDS Integers, Sequences, SequencesExt, FiniteSets

CONSTANTS
    Pane,            \* session ids the harness may draw
    SafeLow, Target, SafeHigh, HardCeiling,     \* RollingTarget
    MaxFree,         \* bound on what the host's cores, memory and disk allow
    Host,            \* nodes of the fleet
    Self             \* this node

ASSUME PoolAssumption ==
    /\ SafeLow \in Nat /\ Target \in Nat /\ SafeHigh \in Nat
    /\ SafeLow <= Target /\ Target <= SafeHigh
    /\ HardCeiling \in Nat \ {0} /\ MaxFree \in Nat /\ IsFiniteSet(Pane)
    /\ Self \in Host /\ "none" \notin Host

VARIABLES
    order,           \* the pool's members, oldest first
    drained,         \* members that are drained
    result,          \* [member -> "none", "archived" or "absent"]: drain_result
    open,            \* panes that exist in tmux
    transcript,      \* panes whose transcript is on disk
    external,        \* panes closed by other programs, or whose window never opened
    failed,          \* panes of which a tmux command failed while they were drained
    free,            \* builds the host's cores, memory and disk allow now
    proposal,        \* the parked proposal, or no record
    running,         \* an execute() that waits for its evidence
    done,            \* what the last call returned
    fleetNow,        \* [Host -> state of its view]
    fleetSeen,       \* the observation a placement is made from
    placed           \* where the last placement went

poolState == <<order, drained, result, open, transcript, external, failed>>
policy == <<free, proposal, running>>
fleetState == <<fleetNow, fleetSeen, placed>>
poolVars == <<poolState, policy, done, fleetState>>

-----------------------------------------------------------------------------
(* The pool's verbs.  Members are known by their place in the order. *)

Active == {i \in DOMAIN order : order[i] \notin drained}

ActivePanes == {order[i] : i \in Active}

Current == Cardinality(Active)

Oldest(n) == {i \in Active : Cardinality({j \in Active : j < i}) < n}

(* What may go wrong with a pane in a call: it raises (a refused spawn, a   *)
(* transcript that cannot be written), or a tmux command fails, which       *)
(* nothing looks at: the windows cannot be listed, the scrollback cannot be *)
(* captured, the window is not killed.                                      *)
Trouble == [pane : Pane, how : {"raises", "unlisted", "uncaptured", "unkilled"}]

With(bad, how) == {b.pane : b \in {x \in bad : x.how = how}}

(* drain() of one member after the other, the oldest first: archive()       *)
(* persists the transcript and stops the pane, or says there is none, or    *)
(* raises before the pane was stopped, which ends the call.  (Mutant: the   *)
(* member is marked first.)                                                 *)
Stopped(places, bad) == {i \in places : \A j \in places : j <= i => order[j] \notin With(bad, "raises") \cap open}

Marked_First(places, bad) ==
    {i \in places : \A j \in places : j < i => order[j] \notin With(bad, "raises") \cap open}

Marked(places, bad) == Stopped(places, bad)

(* A pane that is not listed is taken for one that is gone. *)
Drains(places, bad) ==
    LET called == {order[i] : i \in Stopped(places, bad)}
        found == (called \cap open) \ With(bad, "unlisted")
    IN  /\ drained' = drained \cup {order[i] : i \in Marked(places, bad)}
        /\ result' = [p \in DOMAIN result |-> IF p \notin called THEN result[p]
                                              ELSE IF p \in found THEN "archived" ELSE "absent"]
        /\ transcript' = transcript \cup (found \ With(bad, "uncaptured"))
        /\ open' = open \ (found \ With(bad, "unkilled"))
        /\ failed' = failed \cup {p \in called \cap open : \E b \in bad : b.pane = p}
        /\ UNCHANGED <<order, external>>

(* spawn() of n panes: one that is refused raises, is not tracked and       *)
(* ends the call; one whose window does not open (phantom) is tracked all   *)
(* the same.                                                                *)
Unused == Pane \ Range(order)

NewPanes(n) == SubSeq(SetToSeq(Unused), 1, n)

Spawns(n, phantom, bad) ==
    LET fresh == NewPanes(n)
        k == Cardinality({i \in 1 .. n : \A j \in 1 .. i : fresh[j] \notin With(bad, "raises")})
        came == {fresh[i] : i \in 1 .. k}
    IN  /\ n <= Cardinality(Unused)
        /\ order' = order \o SubSeq(fresh, 1, k)
        /\ result' = [p \in DOMAIN result \cup came |-> IF p \in came THEN "none" ELSE result[p]]
        /\ open' = open \cup (came \ phantom)
        /\ external' = external \cup (came \cap phantom)
        /\ UNCHANGED <<drained, transcript, failed>>

(* scale(): the oldest go, or new ones come, until target are active. *)
Scales(target, phantom, bad) ==
    IF Current > target THEN Drains(Oldest(Current - target), bad)
    ELSE Spawns(target - Current, phantom, bad)

(* At most one thing in a call. *)
Bad == {{}} \cup {{b} : b \in Trouble}

(* scale(), drain() and destroy() called by an operator; a call that raised *)
(* half-way has not come to where it was to end.                            *)
Scale(target, phantom, bad) ==
    /\ Scales(target, phantom, bad)
    /\ done' = [call |-> "scale", ok |-> Current' = target, headroom |-> 0, before |-> {}]
    /\ UNCHANGED <<policy, fleetState>>

DrainOne(i, bad) ==
    /\ i \in DOMAIN order
    /\ Drains({i}, bad)
    /\ done' = [call |-> "drain", ok |-> order[i] \in drained', headroom |-> 0, before |-> {order[i]}]
    /\ UNCHANGED <<policy, fleetState>>

Destroy(bad) ==
    /\ Drains(Active, bad)
    /\ done' = [call |-> "destroy", ok |-> Active' = {}, headroom |-> 0, before |-> Range(order)]
    /\ UNCHANGED <<policy, fleetState>>

ExternallyClosed(p) ==
    /\ p \in open
    /\ open' = open \ {p} /\ external' = external \cup {p}
    /\ UNCHANGED <<order, drained, result, transcript, failed, policy, done, fleetState>>

-----------------------------------------------------------------------------
(* The policy. *)

Lesser(m, n) == IF m <= n THEN m ELSE n

(* autoscale.resolve() *)
Resolve == LET n == Lesser(HardCeiling, free) IN IF n < 1 THEN 1 ELSE n

Observe ==
    LET target == Lesser(Target, Resolve)
    IN  [current |-> Current, headroom |-> Resolve, target |-> target,
         low |-> Lesser(SafeLow, target), high |-> Lesser(SafeHigh, Resolve)]

NoProposal == [direction |-> "none"]

Evaluate ==
    LET o == Observe
    IN  /\ running = NoProposal
        /\ proposal' = IF o.low <= o.current /\ o.current <= o.high THEN NoProposal
                       ELSE [direction |-> IF o.current < o.low THEN "up" ELSE "down",
                             target |-> o.target, seen |-> o]
        /\ UNCHANGED <<poolState, free, running, done, fleetState>>

(* "Drive the primitive only after [...] a fresh exact recheck."            *)
StillObserved(p) == Observe = p.seen

(* scale(), and what a scale-down must have come to. *)
Finish(p, phantom, bad) ==
    /\ Scales(p.target, phantom, bad)
    /\ done' = [call |-> p.direction, headroom |-> Resolve,
                before |-> IF p.direction = "down" THEN p.active ELSE {},
                ok |-> /\ Current' = p.target
                       /\ p.direction = "down" =>
                            \A q \in p.active \ ActivePanes' : result'[q] = "archived"]

(* execute() of a proposal to grow: authorization, the recheck, scale.      *)
ExecuteUp(phantom, bad) ==
    /\ proposal.direction = "up" /\ StillObserved(proposal)
    /\ Finish(proposal, phantom, bad)
    /\ proposal' = NoProposal
    /\ UNCHANGED <<free, running, fleetState>>

(* execute() of a proposal to shrink: the preflight names exactly what was  *)
(* observed and was healthy; its evidence is recorded, which may suspend.   *)
ExecuteDown ==
    /\ proposal.direction = "down" /\ StillObserved(proposal)
    /\ running' = [direction |-> "down", target |-> proposal.target, seen |-> proposal.seen,
                   active |-> ActivePanes]
    /\ proposal' = NoProposal
    /\ UNCHANGED <<poolState, free, done, fleetState>>

ExecuteDownScales(phantom, bad) ==
    /\ running # NoProposal
    /\ Finish(running, phantom, bad)
    /\ running' = NoProposal
    /\ UNCHANGED <<free, proposal, fleetState>>

Refused ==
    /\ proposal # NoProposal
    /\ proposal' = NoProposal
    /\ UNCHANGED <<poolState, free, running, done, fleetState>>

HostLoad(n) ==
    /\ free' = n /\ free' # free
    /\ UNCHANGED <<poolState, proposal, running, done, fleetState>>

-----------------------------------------------------------------------------
(* Placement on a node of the fleet. *)

View == {"ready", "late", "notready", "absent"}

(* observe_live_fleet() and propose_horizontal(): the scheduler chooses from *)
(* the fresh views of nodes that were ready when the fleet was observed, and *)
(* only if this node is in the roster.                                       *)
Functional(f) == f[Self] # "absent" /\ \E h \in Host : f[h] = "ready"

Eligible(h) == fleetSeen[h] = "ready" /\ fleetNow[h] # "absent"

ObserveFleet ==
    /\ fleetSeen' = fleetNow /\ placed' = "none"
    /\ UNCHANGED <<poolState, policy, done, fleetNow>>

Place(h) ==
    /\ Functional(fleetSeen) /\ Eligible(h)
    /\ placed' = h
    /\ UNCHANGED <<poolState, policy, done, fleetNow, fleetSeen>>

FleetChanges(h, v) ==
    /\ fleetNow' = [fleetNow EXCEPT ![h] = v] /\ fleetNow' # fleetNow
    /\ UNCHANGED <<poolState, policy, done, fleetSeen, placed>>

-----------------------------------------------------------------------------
PoolInit ==
    /\ order = <<>> /\ drained = {} /\ result = [p \in {} |-> "none"]
    /\ open = {} /\ transcript = {} /\ external = {} /\ failed = {}
    /\ free = MaxFree /\ proposal = NoProposal /\ running = NoProposal
    /\ done = [call |-> "none", ok |-> TRUE, headroom |-> 0, before |-> {}]
    /\ fleetNow = [h \in Host |-> "ready"] /\ fleetSeen = [h \in Host |-> "absent"]
    /\ placed = "none"

PoolNext ==
    \/ \E phantom \in SUBSET Unused, bad \in Bad :
         \/ ExecuteUp(phantom, bad) \/ ExecuteDownScales(phantom, bad)
         \/ \E t \in 0 .. HardCeiling : Scale(t, phantom, bad)
    \/ \E bad \in Bad : Destroy(bad) \/ \E i \in DOMAIN order : DrainOne(i, bad)
    \/ \E p \in Pane : ExternallyClosed(p)
    \/ Evaluate \/ ExecuteDown \/ Refused
    \/ \E n \in 0 .. MaxFree : HostLoad(n)

FleetNext ==
    \/ ObserveFleet
    \/ \E h \in Host : Place(h) \/ \E v \in View : FleetChanges(h, v)

PoolSpec == PoolInit /\ [][PoolNext \/ FleetNext]_poolVars

-----------------------------------------------------------------------------
(* Properties. *)

PoolTypeOK ==
    /\ Range(order) \subseteq Pane /\ \A i, j \in DOMAIN order : order[i] = order[j] => i = j
    /\ drained \subseteq Range(order) /\ open \subseteq Range(order)
    /\ DOMAIN result = Range(order)
    /\ free \in 0 .. MaxFree
    /\ fleetNow \in [Host -> View] /\ fleetSeen \in [Host -> View]

(* destroy() that returned has left no pane of the pool open, also when an  *)
(* earlier drain raised; and no pane is taken for drained while it is open; *)
(* but for panes of which a tmux command failed: the pool never tries those *)
(* again.                                                                   *)
DrainedIsStopped ==
    /\ drained \cap open \subseteq failed
    /\ done.call = "destroy" /\ done.ok => done.before \cap open \subseteq failed

(* A drained pane that nobody else closed has its transcript, and a         *)
(* scale-down that reports success has one for each pane it took away,      *)
(* whatever others did between its evidence and its end; unless tmux failed *)
(* for that pane, and then an unlisted one is never reported as archived.   *)
StoppedIsOnRecord ==
    /\ drained \ external \subseteq transcript \cup failed
    /\ done.call = "down" /\ done.ok => done.before \cap drained \subseteq transcript \cup failed
    /\ \A p \in DOMAIN result : result[p] = "archived" /\ p \notin failed => p \in transcript \ open

(* Growing on a proposal never leaves more members than the headroom of     *)
(* that moment, however old the proposal and however the host's load moved. *)
GrowsWithinHeadroom ==
    done.call = "up" => Current <= done.headroom

(* A placement goes to a node that was ready with a recent heartbeat when   *)
(* the fleet was observed, and never when this node is not in the roster.   *)
PlacedOnReadyNode ==
    placed # "none" => fleetSeen[placed] = "ready" /\ fleetSeen[Self] # "absent"

(* The pool, with calls that raise half-way, tmux commands that fail and    *)
(* panes that others close: what it calls drained is stopped and on record  *)
(* where tmux did what it was told, it grows within the headroom and places *)
(* work on ready nodes only.                                                *)
PoolIsSound ==
    /\ PoolTypeOK /\ DrainedIsStopped /\ StoppedIsOnRecord
    /\ GrowsWithinHeadroom /\ PlacedOnReadyNode
=============================================================================
