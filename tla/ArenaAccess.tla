------------------------------- MODULE ArenaAccess -------------------------------
(***************************************************************************)
(* CollaborationAccess (arena/access.py): the owner of an attempt is bound  *)
(* to a lease of the LeaseScheduler (arena/scheduler.py); messages and new  *)
(* experiments need the owner's lease to be active and, for a message, a    *)
(* grant.  Every call first asks the scheduler for the lease and acts       *)
(* afterwards, under another lock or none, and leases end in between.       *)
(***************************************************************************)
EXTENDS Naturals, Sequences, FiniteSets

CONSTANTS
    Peer,            \* agents
    Attempt,
    MaxLeases,       \* bound on the leases of an attempt
    MaxCalls,        \* bound on the calls of send, reproduce and mutate
    Unowned

VARIABLES
    active,          \* the active leases: set of <<attempt, number>>
    leased,          \* [Attempt -> Nat]: leases the scheduler has given
    owner,           \* _ownership: [Attempt -> [lease, by] or Unowned]
    binding,         \* calls of bind() past the lease check: set of [lease, by]
    grants,          \* _grants: set of <<sender, recipient>>
    calls,           \* calls past the owner check: set of [op, by, to, attempt, n]
    inbox,           \* the messages, each the call that sent it
    built,           \* reproductions and mutations, each the call that built it
    count,           \* owner checks passed so far
    ended            \* history: [lease, at] for a lease that ended after at checks

accessVars == <<active, leased, owner, binding, grants, calls, inbox, built, count, ended>>

(* admit(): keys of one attempt may differ, so that it may hold two leases. *)
LeaseAdmits(x) ==
    /\ leased[x] < MaxLeases
    /\ leased' = [leased EXCEPT ![x] = @ + 1]
    /\ active' = active \cup {<<x, leased[x] + 1>>}
    /\ UNCHANGED <<owner, binding, grants, calls, inbox, built, count, ended>>

(* Expiry, cancel() and release(): no lease comes back.                    *)
LeaseEnds(l) ==
    /\ l \in active
    /\ active' = active \ {l}
    /\ ended' = ended \cup {[lease |-> l, at |-> count]}
    /\ UNCHANGED <<leased, owner, binding, grants, calls, inbox, built, count>>

BindChecks(l, by) ==
    /\ l \in active
    /\ binding' = binding \cup {[lease |-> l, by |-> by]}
    /\ UNCHANGED <<active, leased, owner, grants, calls, inbox, built, count, ended>>

(* An attempt keeps its first owner and lease.                             *)
Bindable(x, o) == owner[x] = Unowned \/ owner[x] = o

Bind(o) ==
    LET x == o.lease[1]
    IN  /\ o \in binding
        /\ binding' = binding \ {o}
        /\ owner' = IF Bindable(x, o) THEN [owner EXCEPT ![x] = o] ELSE owner
        /\ UNCHANGED <<active, leased, grants, calls, inbox, built, count, ended>>

(* require_owner().  (Mutant: an ended lease still counts.) *)
Owns_Ever(x, by) == owner[x] # Unowned /\ owner[x].by = by

Owns(x, by) == owner[x] # Unowned /\ owner[x].by = by /\ owner[x].lease \in active

Grant(by, peer) ==
    /\ by # peer
    /\ grants' = grants \cup {<<by, peer>>}
    /\ UNCHANGED <<active, leased, owner, binding, calls, inbox, built, count, ended>>

Revoke(by, peer) ==
    /\ <<by, peer>> \in grants
    /\ grants' = grants \ {<<by, peer>>}
    /\ UNCHANGED <<active, leased, owner, binding, calls, inbox, built, count, ended>>

(* The first line of send(), reproduce() and mutate().                     *)
CallChecks(op, by, to, x) ==
    /\ Owns(x, by) /\ count < MaxCalls
    /\ count' = count + 1
    /\ calls' = calls \cup {[op |-> op, by |-> by, to |-> to, attempt |-> x, n |-> count]}
    /\ UNCHANGED <<active, leased, owner, binding, grants, inbox, built, ended>>

(* The rest of send(), under the lock of the grants.                       *)
Send(m) ==
    /\ m \in calls /\ m.op = "send"
    /\ calls' = calls \ {m}
    /\ inbox' = IF <<m.by, m.to>> \in grants THEN inbox \cup {m} ELSE inbox
    /\ UNCHANGED <<active, leased, owner, binding, grants, built, count, ended>>

(* The rest of reproduce() and mutate(): the catalog makes the experiment.  *)
Build(m) ==
    /\ m \in calls /\ m.op = "build"
    /\ calls' = calls \ {m}
    /\ built' = built \cup {m}
    /\ UNCHANGED <<active, leased, owner, binding, grants, inbox, count, ended>>

AccessInit ==
    /\ active = {} /\ leased = [x \in Attempt |-> 0]
    /\ owner = [x \in Attempt |-> Unowned] /\ binding = {} /\ grants = {}
    /\ calls = {} /\ inbox = {} /\ built = {} /\ count = 0 /\ ended = {}

AccessNext ==
    \/ \E x \in Attempt : LeaseAdmits(x)
    \/ \E l \in active : LeaseEnds(l) \/ \E by \in Peer : BindChecks(l, by)
    \/ \E o \in binding : Bind(o)
    \/ \E by, to \in Peer : Grant(by, to) \/ Revoke(by, to)
    \/ \E by, to \in Peer, x \in Attempt : CallChecks("send", by, to, x)
    \/ \E by \in Peer, x \in Attempt : CallChecks("build", by, by, x)
    \/ \E m \in calls : Send(m) \/ Build(m)

AccessSpec == AccessInit /\ [][AccessNext]_accessVars

-----------------------------------------------------------------------------
(* Properties. *)

Effects == inbox \cup built

AccessTypeOK ==
    /\ \A l \in active : l[1] \in Attempt /\ l[2] <= leased[l[1]]
    /\ \A x \in Attempt : owner[x] # Unowned => owner[x].lease[1] = x /\ owner[x].by \in Peer
    /\ \A m \in Effects \cup calls : m.n < count
    /\ \A m, k \in Effects \cup calls : m.n = k.n => m = k

(* All messages about an attempt and all experiments built for it come from *)
(* one agent, its only owner ever: neither a second lease of the attempt    *)
(* nor a bind that raced with another one hands it to somebody else.        *)
OneVoicePerAttempt ==
    \A m, k \in Effects : m.attempt = k.attempt => m.by = k.by

(* What is sent or built for an attempt once its owner's lease has ended,   *)
(* was past the owner check when the lease ended: such a call still takes   *)
(* effect (the lease is not looked at again), and no later one does, not    *)
(* even when the scheduler has given the attempt a new lease.               *)
EndedStaysEnded ==
    \A e \in ended, m \in Effects :
        owner[m.attempt] # Unowned /\ owner[m.attempt].lease = e.lease => m.n < e.at

(* Access follows the leases through every race of a call with a bind, an   *)
(* expiry or a new lease: only the calls that were under way when the lease *)
(* ended are heard after it, and an attempt speaks with one voice.          *)
AccessFollowsLeases == AccessTypeOK /\ OneVoicePerAttempt /\ EndedStaysEnded
=============================================================================
