------------------------------ MODULE ArenaAttempt ------------------------------
(***************************************************************************)
(* One process that executes arena experiment attempts: ArenaController    *)
(* (durable lifecycle), LeaseScheduler (volatile capacity), one             *)
(* PiExperimentRunner and SandboxProcessSupervisor per attempt, and the     *)
(* orphan reconciliation every launch performs on the Docker host.          *)
(*                                                                         *)
(* A delivery is one call of PiExperimentRunner.execute.  Several           *)
(* deliveries may carry the same attempt; they run in threads of their own  *)
(* beside the heartbeat thread, operator cancellations, reclaim_orphans and *)
(* crashes.  A delivery obtains at most one lease, which is named after it, *)
(* as is the group of Docker resources it creates (the lease id is the      *)
(* group's run-id label).                                                   *)
(*                                                                         *)
(* Time is abstracted: a lease may expire whenever its heartbeat is late,   *)
(* and a resource group may outlive the orphan grace at any moment except   *)
(* while a pass is between its lease inventory and its removals: it judges  *)
(* ages by the clock it reads right after the inventory.  Every attempt     *)
(* asks for one slot of the capacity.                                       *)
(***************************************************************************)
EXTENDS Naturals, FiniteSets

CONSTANTS
    Attempt,     \* (experiment_id, attempt) pairs, each with its idempotency key
    Delivery,    \* calls of execute
    Capacity,    \* slots of the LeaseScheduler
    Declares,    \* whether the supervisors were given active_run_ids
    MaxCrashes,  \* bound on the crashes of a run
    None

ASSUME DeliveryAssumption == IsFiniteSet(Delivery) /\ None \notin Delivery
ASSUME AttemptAssumption == None \notin Attempt
ASSUME BoundsAssumption ==
    Capacity \in Nat /\ MaxCrashes \in Nat /\ Declares \in BOOLEAN

VARIABLES
    state,     \* [Attempt -> State]: to_state of the attempt's last durable event
    lease,     \* LeaseScheduler._leases
    byKey,     \* LeaseScheduler._by_key
    leaseBy,   \* ArenaController._lease_by_attempt
    lock,      \* the attempt whose cancel holds _transition_lock across stop()
    reclaim,   \* reclaim_orphans: the leases it took, the one it is finalizing
    recover,   \* recover_incomplete: attempts it has still to fail
    of,        \* the attempt a delivery carries
    pc,        \* where each delivery is
    beat,      \* the delivery's heartbeat thread: off, on, or stopped by a lost lease
    good,      \* the delivery's worker exited cleanly (classification "exit", code 0)
    asked,     \* supervisor._cancel_requested of the attempt's runner
    box,       \* Docker resources of the delivery's lease
    old,       \* the group is older than orphan_grace_s
    snap,      \* lease inventory of the delivery's reconciliation pass
    up,
    crashes

durable == <<state>>
scheduler == <<lease, byKey>>
control == <<leaseBy, lock, reclaim, recover>>
worker == <<of, pc, beat, good, asked>>
docker == <<box, old, snap>>
vars == <<durable, scheduler, control, worker, docker, up, crashes>>

Absent == "absent"
State == {Absent, "proposed", "admitted", "running", "provisional", "failed", "cancelled"}
Started == {"admitted", "running"}
Terminal == {"provisional", "failed", "cancelled"}

(* _TRANSITIONS; verification of provisional results is another component. *)
Transitions(s) ==
    CASE s = Absent -> {"proposed"}
      [] s = "proposed" -> {"admitted", "cancelled"}
      [] s = "admitted" -> {"running", "cancelled", "failed"}
      [] s = "running" -> {"provisional", "cancelled", "failed"}
      [] OTHER -> {}

(* Deliveries after the durable admission, in the order of execute and run. *)
Owning == {"recorded", "preparing", "aborting", "launching", "reconciling", "starting",
           "spawning", "waiting", "leaving", "checking", "finishing"}
Ended == {"refused", "done", "lost"}
Step == {"idle", "asking", "reasking", "surplus", "recording", "releasing"}
            \cup Owning \cup Ended

Init ==
    /\ state = [a \in Attempt |-> Absent]
    /\ lease = [d \in Delivery |-> "none"]
    /\ byKey = [a \in Attempt |-> None]
    /\ leaseBy = [a \in Attempt |-> None]
    /\ lock = None
    /\ reclaim = [todo |-> {}, at |-> None]
    /\ recover = {}
    /\ of = [d \in Delivery |-> None]
    /\ pc = [d \in Delivery |-> "idle"]
    /\ beat = [d \in Delivery |-> "off"]
    /\ good = [d \in Delivery |-> FALSE]
    /\ asked = [a \in Attempt |-> FALSE]
    /\ box = [d \in Delivery |-> "none"]
    /\ old = [d \in Delivery |-> FALSE]
    /\ snap = [d \in Delivery |-> {}]
    /\ up = TRUE
    /\ crashes = 0

-----------------------------------------------------------------------------
(* The controller's primitives. *)

Goto(d, step) ==
    /\ pc' = [pc EXCEPT ![d] = step]
    /\ UNCHANGED of

(* state() and _append take _transition_lock, which a cancel may hold. *)
LockFree == up /\ lock = None

CanAppend(a, s) == s \in Transitions(state[a])
Append(a, s) == state' = [state EXCEPT ![a] = s]

(* LeaseScheduler.release of lease l of attempt a. *)
ReleaseLease(a, l) ==
    /\ lease' = [lease EXCEPT ![l] = "none"]
    /\ byKey' = [byKey EXCEPT ![a] = IF @ = l THEN None ELSE @]

(* ArenaController._release. *)
Release(a) ==
    /\ leaseBy' = [leaseBy EXCEPT ![a] = None]
    /\ IF leaseBy[a] = None THEN UNCHANGED scheduler ELSE ReleaseLease(a, leaseBy[a])

(* supervisor.cancel: set the event, then remove the worker container, which *)
(* exists once the spawn has happened.                                       *)
Killed(a) ==
    [d \in Delivery |-> IF of[d] = a /\ pc[d] = "waiting" /\ box[d] = "running"
                        THEN "exited" ELSE box[d]]
SupervisorCancel(a) ==
    /\ asked' = [asked EXCEPT ![a] = TRUE]
    /\ box' = Killed(a)

Propose(a) ==
    /\ LockFree
    /\ CanAppend(a, "proposed")
    /\ Append(a, "proposed")
    /\ UNCHANGED <<scheduler, control, worker, docker, up, crashes>>

-----------------------------------------------------------------------------
(* controller.admit: the durable state is read, the scheduler asked and the  *)
(* admission recorded in three critical sections.                            *)

ReadState(d, a) ==
    /\ LockFree
    /\ pc[d] = "idle"
    /\ of' = [of EXCEPT ![d] = a]
    /\ pc' = [pc EXCEPT ![d] = CASE state[a] = "proposed" -> "asking"
                                 [] state[a] \in Started -> "reasking"
                                 [] OTHER -> "refused"]
    /\ UNCHANGED <<durable, scheduler, control, beat, good, asked, docker, up, crashes>>

ActiveLeases == {d \in Delivery : lease[d] = "active"}
HasActiveKey(a) == byKey[a] # None /\ lease[byKey[a]] = "active"
Fits == Cardinality(ActiveLeases) < Capacity

(* An active lease of the same request: execute returns the duplicate. *)
AdmitDuplicate(d) ==
    /\ up
    /\ pc[d] \in {"asking", "reasking"}
    /\ HasActiveKey(of[d])
    /\ leaseBy' = [leaseBy EXCEPT ![of[d]] = byKey[of[d]]]
    /\ Goto(d, "refused")
    /\ UNCHANGED <<durable, scheduler, lock, reclaim, recover, beat, good, asked, docker,
                   up, crashes>>

AdmitFull(d) ==
    /\ up
    /\ pc[d] \in {"asking", "reasking"}
    /\ ~HasActiveKey(of[d])
    /\ ~Fits
    /\ Goto(d, "refused")
    /\ UNCHANGED <<durable, scheduler, control, beat, good, asked, docker, up, crashes>>

Admit(d) ==
    /\ up
    /\ pc[d] \in {"asking", "reasking"}
    /\ ~HasActiveKey(of[d])
    /\ Fits
    /\ lease' = [lease EXCEPT ![d] = "active"]
    /\ byKey' = [byKey EXCEPT ![of[d]] = d]
    /\ Goto(d, IF pc[d] = "asking" THEN "recording" ELSE "surplus")
    /\ UNCHANGED <<durable, control, beat, good, asked, docker, up, crashes>>

(* The attempt was already admitted or running: the lease is given back. *)
GiveBack(d) ==
    /\ up
    /\ pc[d] = "surplus"
    /\ ReleaseLease(of[d], d)
    /\ Goto(d, "refused")
    /\ UNCHANGED <<durable, control, beat, good, asked, docker, up, crashes>>

(* Mutant: the ADMITTED event is appended again to an attempt that another   *)
(* delivery has started since the state was read.                            *)
RecordAdmission_Stale(d) ==
    /\ LockFree
    /\ pc[d] = "recording"
    /\ \/ /\ state[of[d]] \in {"proposed"} \cup Started
          /\ Append(of[d], "admitted")
          /\ Goto(d, "recorded")
       \/ /\ state[of[d]] \in Terminal
          /\ Goto(d, "refused")
          /\ UNCHANGED durable
    /\ UNCHANGED <<scheduler, control, beat, good, asked, docker, up, crashes>>

(* _append(ADMITTED); a transition since ReadState makes it raise, and the   *)
(* lease then waits for its expiry.                                          *)
RecordAdmission(d) ==
    /\ LockFree
    /\ pc[d] = "recording"
    /\ \/ /\ CanAppend(of[d], "admitted")
          /\ Append(of[d], "admitted")
          /\ Goto(d, "recorded")
       \/ /\ ~CanAppend(of[d], "admitted")
          /\ Goto(d, "refused")
          /\ UNCHANGED durable
    /\ UNCHANGED <<scheduler, control, beat, good, asked, docker, up, crashes>>

(* The lease is entered in _lease_by_attempt and the heartbeat thread starts. *)
BeginHeartbeat(d) ==
    /\ up
    /\ pc[d] = "recorded"
    /\ leaseBy' = [leaseBy EXCEPT ![of[d]] = d]
    /\ beat' = [beat EXCEPT ![d] = "on"]
    /\ Goto(d, "preparing")
    /\ UNCHANGED <<durable, scheduler, lock, reclaim, recover, good, asked, docker, up,
                   crashes>>

-----------------------------------------------------------------------------
(* execute: preparation, launch, wait, collection. *)

(* running(): the RUNNING event before the spawn; it raises when the attempt *)
(* was ended meanwhile, and writing run.json may raise at any time.          *)
Prepare(d) ==
    /\ LockFree
    /\ pc[d] = "preparing"
    /\ \/ /\ CanAppend(of[d], "running")
          /\ Append(of[d], "running")
          /\ Goto(d, "launching")
       \/ /\ Goto(d, "aborting")
          /\ UNCHANGED durable
    /\ UNCHANGED <<scheduler, control, beat, good, asked, docker, up, crashes>>

(* Mutant: a failed preparation is raised without cancelling the attempt. *)
Abort_NoCancel(d) ==
    /\ LockFree
    /\ pc[d] = "aborting"
    /\ beat' = [beat EXCEPT ![d] = "off"]
    /\ Goto(d, "done")
    /\ UNCHANGED <<durable, scheduler, control, good, asked, docker, up, crashes>>

(* The except clause of the preparation: heartbeat stopped, then             *)
(* controller.cancel, which raises when the attempt has ended.               *)
Abort(d) ==
    LET a == of[d]
    IN  /\ LockFree
        /\ pc[d] = "aborting"
        /\ SupervisorCancel(a)
        /\ \/ /\ CanAppend(a, "cancelled")
              /\ Append(a, "cancelled")
              /\ Release(a)
           \/ /\ ~CanAppend(a, "cancelled")
              /\ UNCHANGED <<durable, scheduler, leaseBy>>
        /\ beat' = [beat EXCEPT ![d] = "off"]
        /\ Goto(d, "done")
        /\ UNCHANGED <<lock, reclaim, recover, good, old, snap, up, crashes>>

(* run(): an early stop request raises before anything was created. *)
LaunchRefused(d) ==
    /\ up
    /\ pc[d] = "launching"
    /\ asked[of[d]]
    /\ Goto(d, "leaving")
    /\ UNCHANGED <<durable, scheduler, control, beat, good, asked, docker, up, crashes>>

(* maybe_reconcile_orphans: the first admission of this supervisor is always *)
(* due; its lease inventory is taken before Docker is listed.                *)
TakeInventory(d) ==
    /\ up
    /\ pc[d] = "launching"
    /\ ~asked[of[d]]
    /\ snap' = [snap EXCEPT ![d] = IF Declares THEN ActiveLeases ELSE {}]
    /\ Goto(d, "reconciling")
    /\ UNCHANGED <<durable, scheduler, control, beat, good, asked, box, old, up, crashes>>

Present(e) == box[e] \in {"helpers", "running", "exited"}

(* Mutant: young groups are removed as well. *)
Orphans_NoGrace(d) == {e \in Delivery : Present(e) /\ e \notin snap[d]}

Orphans(d) == {e \in Delivery : Present(e) /\ e \notin snap[d] /\ old[e]}

Remove(groups) ==
    /\ box' = [e \in Delivery |-> IF e \in groups THEN "gone" ELSE box[e]]
    /\ old' = [e \in Delivery |-> old[e] /\ e \notin groups]

(* The pass removes every orphan group; then a stop request raises. *)
Reconcile(d) ==
    /\ up
    /\ pc[d] = "reconciling"
    /\ Remove(Orphans(d))
    /\ snap' = [snap EXCEPT ![d] = {}]
    /\ Goto(d, IF asked[of[d]] THEN "leaving" ELSE "starting")
    /\ UNCHANGED <<durable, scheduler, control, beat, good, asked, up, crashes>>

(* A pass that is partial or in error does not admit the launch. *)
ReconcileFails(d) ==
    /\ up
    /\ pc[d] = "reconciling"
    /\ \E groups \in SUBSET Orphans(d) : Remove(groups)
    /\ snap' = [snap EXCEPT ![d] = {}]
    /\ Goto(d, "leaving")
    /\ UNCHANGED <<durable, scheduler, control, beat, good, asked, up, crashes>>

(* Preflight, network and proxy, with a stop request checked between them;   *)
(* any of them may fail.  After the last check nothing stops the spawn.      *)
StartHelpers(d) ==
    /\ up
    /\ pc[d] = "starting"
    /\ box' = [box EXCEPT ![d] = "helpers"]
    /\ \/ /\ ~asked[of[d]]
          /\ Goto(d, "spawning")
       \/ Goto(d, "leaving")
    /\ UNCHANGED <<durable, scheduler, control, beat, good, asked, old, snap, up, crashes>>

(* Popen of docker run; it fails when the network has been removed. *)
Spawn(d) ==
    /\ up
    /\ pc[d] = "spawning"
    /\ \/ /\ box[d] = "helpers"
          /\ box' = [box EXCEPT ![d] = "running"]
          /\ old' = [old EXCEPT ![d] = FALSE]
          /\ Goto(d, "waiting")
       \/ /\ Goto(d, "leaving")
          /\ UNCHANGED <<box, old>>
    /\ UNCHANGED <<durable, scheduler, control, beat, good, asked, snap, up, crashes>>

(* process.wait returns: a stop request, a failing exit code or an invalid   *)
(* event stream is never a success.                                          *)
WaitReturns(d) ==
    /\ up
    /\ pc[d] = "waiting"
    /\ box[d] # "running"
    /\ \E clean \in BOOLEAN :
           good' = [good EXCEPT ![d] = clean /\ box[d] = "exited" /\ ~asked[of[d]]]
    /\ Goto(d, "leaving")
    /\ UNCHANGED <<durable, scheduler, control, beat, asked, docker, up, crashes>>

(* The wall-clock timeout, or the inspection monitor, stops its own worker;  *)
(* a Docker failure leaves it running and raises.                            *)
StopOwn(d) ==
    /\ up
    /\ pc[d] = "waiting"
    /\ box[d] = "running"
    /\ asked' = [asked EXCEPT ![of[d]] = TRUE]
    /\ \E b \in {"exited", "running"} : box' = [box EXCEPT ![d] = b]
    /\ Goto(d, "leaving")
    /\ UNCHANGED <<durable, scheduler, control, beat, good, old, snap, up, crashes>>

(* The finally clause of run removes what the delivery created; a removal    *)
(* that fails replaces the outcome by its error.  Then execute stops the     *)
(* heartbeat, and a lost lease replaces the classification.                  *)
Leave(d) ==
    /\ up
    /\ pc[d] = "leaving"
    /\ \/ /\ Remove({d} \cap {e \in Delivery : Present(e)})
          /\ good' = [good EXCEPT ![d] = @ /\ beat[d] # "lost"]
       \/ /\ Present(d)
          /\ good' = [good EXCEPT ![d] = FALSE]
          /\ UNCHANGED <<box, old>>
    /\ beat' = [beat EXCEPT ![d] = "off"]
    /\ Goto(d, "checking")
    /\ UNCHANGED <<durable, scheduler, control, asked, snap, up, crashes>>

(* Reading the logs and storing them as artifacts raises out of execute: no  *)
(* event is written, and the attempt is left to reclaim or recovery.         *)
CollectFails(d) ==
    /\ up
    /\ pc[d] = "checking"
    /\ Goto(d, "lost")
    /\ UNCHANGED <<durable, scheduler, control, beat, good, asked, docker, up, crashes>>

(* state(...) is CANCELLED: the attempt's terminal event is already there. *)
CheckCancelled(d) ==
    /\ LockFree
    /\ pc[d] = "checking"
    /\ Goto(d, IF state[of[d]] = "cancelled" THEN "done" ELSE "finishing")
    /\ UNCHANGED <<durable, scheduler, control, beat, good, asked, docker, up, crashes>>

Verdict(d) == IF good[d] THEN "provisional" ELSE "failed"

(* Mutant: the terminal event does not wait for a cancellation in progress. *)
Finish_Unlocked(d) ==
    /\ up
    /\ pc[d] = "finishing"
    /\ \/ /\ CanAppend(of[d], Verdict(d))
          /\ Append(of[d], Verdict(d))
          /\ Goto(d, "releasing")
       \/ /\ ~CanAppend(of[d], Verdict(d))
          /\ Goto(d, "done")
          /\ UNCHANGED durable
    /\ UNCHANGED <<scheduler, control, beat, good, asked, docker, up, crashes>>

(* finish_run's event; it raises when the attempt ended since the check. *)
Finish(d) ==
    /\ LockFree
    /\ pc[d] = "finishing"
    /\ \/ /\ CanAppend(of[d], Verdict(d))
          /\ Append(of[d], Verdict(d))
          /\ Goto(d, "releasing")
       \/ /\ ~CanAppend(of[d], Verdict(d))
          /\ Goto(d, "done")
          /\ UNCHANGED durable
    /\ UNCHANGED <<scheduler, control, beat, good, asked, docker, up, crashes>>

(* finish_run's _release, after the lock. *)
FinishRelease(d) ==
    /\ up
    /\ pc[d] = "releasing"
    /\ Release(of[d])
    /\ Goto(d, "done")
    /\ UNCHANGED <<durable, lock, reclaim, recover, beat, good, asked, docker, up, crashes>>

-----------------------------------------------------------------------------
(* The other threads. *)

(* A lease whose heartbeat is late; a renewal leaves an active lease active. *)
Expire(d) ==
    /\ up
    /\ lease[d] = "active"
    /\ lease' = [lease EXCEPT ![d] = "expired"]
    /\ UNCHANGED <<durable, byKey, control, worker, docker, up, crashes>>

(* controller.heartbeat succeeds. *)
Renewable(a) == leaseBy[a] # None /\ lease[leaseBy[a]] = "active"

(* The heartbeat thread finds its lease gone or expired, which it never      *)
(* renews, and stops the worker, which Docker may fail to remove.            *)
HeartbeatLost(d) ==
    LET a == of[d]
    IN  /\ up
        /\ beat[d] = "on"
        /\ ~Renewable(a)
        /\ beat' = [beat EXCEPT ![d] = "lost"]
        /\ asked' = [asked EXCEPT ![a] = TRUE]
        /\ box' \in {Killed(a), box}
        /\ UNCHANGED <<durable, scheduler, control, of, pc, good, old, snap, up, crashes>>

(* A cancellation that can still change something: any further one sets an   *)
(* event that is set and raises.                                             *)
CancelMatters(a) ==
    \/ ~asked[a]
    \/ CanAppend(a, "cancelled")
    \/ Killed(a) # box

(* controller.cancel: stop() under the lock, then the terminal event. *)
CancelStop(a) ==
    /\ LockFree
    /\ CancelMatters(a)
    /\ SupervisorCancel(a)
    /\ lock' = a
    /\ UNCHANGED <<durable, scheduler, leaseBy, reclaim, recover, of, pc, beat, good, old,
                   snap, up, crashes>>

(* Docker does not remove the worker: stop() raises and nothing is recorded. *)
CancelStopFails(a) ==
    /\ LockFree
    /\ Killed(a) # box
    /\ asked' = [asked EXCEPT ![a] = TRUE]
    /\ UNCHANGED <<durable, scheduler, control, of, pc, beat, good, docker, up, crashes>>

CancelRecord(a) ==
    /\ up
    /\ lock = a
    /\ lock' = None
    /\ \/ /\ CanAppend(a, "cancelled")
          /\ Append(a, "cancelled")
          /\ Release(a)
       \/ /\ ~CanAppend(a, "cancelled")
          /\ UNCHANGED <<durable, scheduler, leaseBy>>
    /\ UNCHANGED <<reclaim, recover, worker, docker, up, crashes>>

(* reclaim_orphans: the expired leases are removed first ... *)
ReclaimTake ==
    LET expired == {l \in Delivery : lease[l] = "expired"}
    IN  /\ up
        /\ reclaim = [todo |-> {}, at |-> None]
        /\ expired # {}
        /\ lease' = [l \in Delivery |-> IF l \in expired THEN "none" ELSE lease[l]]
        /\ byKey' = [a \in Attempt |-> IF byKey[a] \in expired THEN None ELSE byKey[a]]
        /\ reclaim' = [todo |-> expired, at |-> None]
        /\ UNCHANGED <<durable, leaseBy, lock, recover, worker, docker, up, crashes>>

(* ... then each attempt's entry is dropped and its state read ... *)
ReclaimRead(l) ==
    /\ LockFree
    /\ reclaim.at = None
    /\ l \in reclaim.todo
    /\ leaseBy' = [leaseBy EXCEPT ![of[l]] = None]
    /\ reclaim' = [todo |-> reclaim.todo \ {l},
                   at |-> IF state[of[l]] \in Started THEN l ELSE None]
    /\ UNCHANGED <<durable, scheduler, lock, recover, worker, docker, up, crashes>>

(* ... and the attempt failed; a transition in between raises out of the loop. *)
ReclaimFail ==
    /\ LockFree
    /\ reclaim.at # None
    /\ \/ /\ CanAppend(of[reclaim.at], "failed")
          /\ Append(of[reclaim.at], "failed")
          /\ reclaim' = [reclaim EXCEPT !.at = None]
       \/ /\ ~CanAppend(of[reclaim.at], "failed")
          /\ reclaim' = [todo |-> {}, at |-> None]
          /\ UNCHANGED durable
    /\ UNCHANGED <<scheduler, leaseBy, lock, recover, worker, docker, up, crashes>>

-----------------------------------------------------------------------------
(* Docker and failures. *)

WorkerExits(d) ==
    /\ box[d] = "running"
    /\ box' = [box EXCEPT ![d] = "exited"]
    /\ UNCHANGED <<durable, scheduler, control, worker, old, snap, up, crashes>>

(* The group's newest resource passes orphan_grace_s. *)
GrowOld(d) ==
    /\ Present(d)
    /\ ~old[d]
    /\ \A e \in Delivery : pc[e] # "reconciling"
    /\ old' = [old EXCEPT ![d] = TRUE]
    /\ UNCHANGED <<durable, scheduler, control, worker, box, snap, up, crashes>>

(* The process dies: threads, leases and supervisors are gone; the event log *)
(* and the containers stay.                                                  *)
Crash ==
    /\ up
    /\ crashes < MaxCrashes
    /\ up' = FALSE
    /\ crashes' = crashes + 1
    /\ lease' = [d \in Delivery |-> "none"]
    /\ byKey' = [a \in Attempt |-> None]
    /\ leaseBy' = [a \in Attempt |-> None]
    /\ lock' = None
    /\ reclaim' = [todo |-> {}, at |-> None]
    /\ recover' = {}
    /\ pc' = [d \in Delivery |-> IF pc[d] \in {"idle"} \cup Ended THEN pc[d] ELSE "lost"]
    /\ beat' = [d \in Delivery |-> "off"]
    /\ asked' = [a \in Attempt |-> FALSE]
    /\ snap' = [d \in Delivery |-> {}]
    /\ UNCHANGED <<durable, of, good, box, old>>

(* A new process; it may or may not call recover_incomplete. *)
Restart ==
    /\ ~up
    /\ up' = TRUE
    /\ recover' \in {{}, {a \in Attempt : state[a] \in Started}}
    /\ UNCHANGED <<durable, scheduler, leaseBy, lock, reclaim, worker, docker, crashes>>

(* recover_incomplete fails one attempt; a transition since its scan raises. *)
RecoverOne(a) ==
    /\ LockFree
    /\ a \in recover
    /\ \/ /\ CanAppend(a, "failed")
          /\ Append(a, "failed")
          /\ recover' = recover \ {a}
       \/ /\ ~CanAppend(a, "failed")
          /\ recover' = {}
          /\ UNCHANGED durable
    /\ UNCHANGED <<scheduler, leaseBy, lock, reclaim, worker, docker, up, crashes>>

-----------------------------------------------------------------------------
(* A thread in execute goes on by itself; deliveries arrive from outside. *)
Execute(d) ==
    \/ AdmitDuplicate(d) \/ AdmitFull(d) \/ Admit(d) \/ GiveBack(d)
    \/ RecordAdmission(d) \/ BeginHeartbeat(d) \/ Prepare(d) \/ Abort(d)
    \/ LaunchRefused(d) \/ TakeInventory(d) \/ Reconcile(d) \/ ReconcileFails(d)
    \/ StartHelpers(d) \/ Spawn(d) \/ WaitReturns(d) \/ StopOwn(d) \/ Leave(d)
    \/ CollectFails(d) \/ CheckCancelled(d) \/ Finish(d) \/ FinishRelease(d)

Next ==
    \/ \E a \in Attempt : \/ Propose(a) \/ CancelStop(a) \/ CancelStopFails(a)
                          \/ CancelRecord(a) \/ RecoverOne(a)
    \/ \E d \in Delivery, a \in Attempt : ReadState(d, a)
    \/ \E d \in Delivery : \/ Execute(d) \/ Expire(d) \/ HeartbeatLost(d)
                           \/ ReclaimRead(d) \/ WorkerExits(d) \/ GrowOld(d)
    \/ ReclaimTake \/ ReclaimFail
    \/ Crash \/ Restart

Spec == Init /\ [][Next]_vars

-----------------------------------------------------------------------------
(* The variables have their types. *)
TypeOK ==
    /\ state \in [Attempt -> State]
    /\ lease \in [Delivery -> {"none", "active", "expired"}]
    /\ byKey \in [Attempt -> Delivery \cup {None}]
    /\ leaseBy \in [Attempt -> Delivery \cup {None}]
    /\ lock \in Attempt \cup {None}
    /\ reclaim \in [todo : SUBSET Delivery, at : Delivery \cup {None}]
    /\ recover \in SUBSET Attempt
    /\ of \in [Delivery -> Attempt \cup {None}]
    /\ pc \in [Delivery -> Step]
    /\ beat \in [Delivery -> {"off", "on", "lost"}]
    /\ good \in [Delivery -> BOOLEAN]
    /\ asked \in [Attempt -> BOOLEAN]
    /\ box \in [Delivery -> {"none", "helpers", "running", "exited", "gone"}]
    /\ old \in [Delivery -> BOOLEAN]
    /\ snap \in [Delivery -> SUBSET Delivery]
    /\ up \in BOOLEAN
    /\ crashes \in 0..MaxCrashes

(* Duplicate deliveries, restarts and expired leases never make two          *)
(* deliveries of one attempt create sandboxes: the durable ADMITTED event,   *)
(* not the lease, decides who launches (controller.admit, execute).          *)
AtMostOneLaunch ==
    \A d, e \in Delivery :
        of[d] = of[e] /\ d # e => ~(box[d] # "none" /\ box[e] # "none")

(* A call of execute that launched and collected its logs, or failed to      *)
(* prepare, only returns or raises once the attempt has a terminal event,    *)
(* whoever of the run, a cancellation, reclaim or recovery recorded it.      *)
EndedIsTerminal ==
    \A d \in Delivery : pc[d] = "done" => state[of[d]] \in Terminal

(* The active leases never exceed the capacity (LeaseScheduler.admit). *)
CapacityRespected == Cardinality(ActiveLeases) <= Capacity

(* Once a cancellation has begun its stop, the only event its attempt can    *)
(* receive is CANCELLED (controller.cancel holds the lock across the stop).  *)
CancellationWins ==
    [][\A a \in Attempt : lock = a /\ state'[a] # state[a] => state'[a] = "cancelled"]_vars

(* A reconciliation pass removes no resource of a run whose lease is active, *)
(* although its inventory is older than its removals.                        *)
LiveRunsSpared ==
    [][\A d, e \in Delivery :
           /\ pc[d] = "reconciling" /\ pc'[d] \in {"starting", "leaving"}
           /\ Present(e) /\ box'[e] = "gone"
           => lease[e] # "active"]_vars
=============================================================================
