-------------------------- MODULE ArenaAttempt_proofs --------------------------
(***************************************************************************)
(* What the execution of arena attempts guarantees for every number of      *)
(* attempts, deliveries, slots and crashes.                                 *)
(***************************************************************************)
EXTENDS ArenaAttempt, FiniteSetTheorems, TLAPS

\* Deliveries that have not created any Docker resource.
BeforeHelpers == {"idle", "asking", "reasking", "surplus", "recording", "recorded",
                  "preparing", "aborting", "launching", "reconciling", "starting"}

\* Deliveries past the RUNNING event.
Launched == {"launching", "reconciling", "starting", "spawning", "waiting", "leaving",
             "checking", "finishing"}

Owns(d) == pc[d] \in Owning \/ box[d] # "none"

\* A delivery carries its attempt from the moment it has read its state.
Requested == \A d \in Delivery : pc[d] # "idle" => of[d] \in Attempt

\* Resources exist only after the launch, and have an age only while they exist.
NothingEarly ==
    \A d \in Delivery :
        /\ pc[d] \in BeforeHelpers => box[d] = "none"
        /\ old[d] => Present(d)

\* The durable state is never behind the delivery that acts on it.
LogAhead ==
    \A d \in Delivery :
        /\ Owns(d) => state[of[d]] \notin {Absent, "proposed"}
        /\ pc[d] \in Launched => state[of[d]] \in {"running"} \cup Terminal
        /\ pc[d] \in {"releasing", "done"} => state[of[d]] \in Terminal

\* At most one delivery of an attempt owns it.
SoleOwner ==
    \A d, e \in Delivery : of[d] = of[e] /\ d # e => ~(Owns(d) /\ Owns(e))

\* Everything a pass may remove is outside every active lease.
InventoryCovers ==
    Declares => \A d, e \in Delivery :
        pc[d] = "reconciling" /\ Present(e) /\ old[e] /\ e \notin snap[d]
            => lease[e] # "active"

ArenaInv ==
    /\ TypeOK
    /\ Requested
    /\ NothingEarly
    /\ LogAhead
    /\ SoleOwner
    /\ InventoryCovers

-----------------------------------------------------------------------------
(* What _TRANSITIONS allows, read backwards: which states admit an event. *)
LEMMA TransitionFacts ==
    ASSUME NEW s \in State
    PROVE  /\ "proposed" \in Transitions(s) <=> s = Absent
           /\ "admitted" \in Transitions(s) <=> s = "proposed"
           /\ "running" \in Transitions(s) <=> s = "admitted"
           /\ "provisional" \in Transitions(s) <=> s = "running"
           /\ "failed" \in Transitions(s) <=> s \in Started
           /\ "cancelled" \in Transitions(s) <=> s \in {"proposed"} \cup Started
<1>1. CASE s = Absent
  BY <1>1 DEF Transitions, Absent, Started
<1>2. CASE s = "proposed"
  BY <1>2 DEF Transitions, Absent, Started
<1>3. CASE s = "admitted"
  BY <1>3 DEF Transitions, Absent, Started
<1>4. CASE s = "running"
  BY <1>4 DEF Transitions, Absent, Started
<1>5. CASE s \in Terminal
  BY <1>5 DEF Transitions, Absent, Started, Terminal
<1>6. QED
  BY <1>1, <1>2, <1>3, <1>4, <1>5 DEF State, Absent, Terminal

(* Releasing an attempt's lease, known or not, keeps the tables typed. *)
LEMMA ReleaseTyped ==
    ASSUME TypeOK, NEW a, Release(a)
    PROVE  /\ lease' \in [Delivery -> {"none", "active", "expired"}]
           /\ byKey' \in [Attempt -> Delivery \cup {None}]
           /\ leaseBy' \in [Attempt -> Delivery \cup {None}]
<1>1. leaseBy' \in [Attempt -> Delivery \cup {None}]
  BY DEF TypeOK, Release
<1>2. CASE leaseBy[a] = None
  BY <1>1, <1>2 DEF TypeOK, Release, scheduler
<1>3. CASE leaseBy[a] # None
  <2> DEFINE l == leaseBy[a]
  <2>1. ReleaseLease(a, l)
    BY <1>3 DEF Release
  <2>2. lease' \in [Delivery -> {"none", "active", "expired"}]
    BY <2>1 DEF TypeOK, ReleaseLease
  <2>3. byKey' \in [Attempt -> Delivery \cup {None}]
    BY <2>1 DEF TypeOK, ReleaseLease
  <2>4. QED
    BY <1>1, <2>2, <2>3
<1>4. QED
  BY <1>2, <1>3

(* The initial state: nothing proposed, nobody executing. *)
LEMMA ArenaInit == Init => ArenaInv
BY BoundsAssumption
   DEF Init, ArenaInv, TypeOK, Requested, NothingEarly, LogAhead, SoleOwner,
       InventoryCovers, Owns, Owning, Launched, State, Step, Ended, Present


(* propose preserves the invariant. *)
LEMMA ProposeKeeps ==
    ASSUME ArenaInv, NEW a \in Attempt, Propose(a)
    PROVE  ArenaInv'
<1> USE DeliveryAssumption, AttemptAssumption, BoundsAssumption, TransitionFacts
<1> USE DEF ArenaInv, TypeOK, Propose, LockFree, CanAppend, Append, scheduler, control,
            worker, docker
<1>1. TypeOK'
  BY DEF State, Step, Owning, Ended, Absent, Started, Terminal
<1>2. Requested'
  BY DEF Requested, Step, Owning, Ended
<1>3. NothingEarly'
  BY DEF NothingEarly, BeforeHelpers, Present, Ended
<1>4. LogAhead'
  BY DEF Requested, NothingEarly, LogAhead, SoleOwner, Owns, Owning, Launched,
         BeforeHelpers, Present, State, Absent, Started, Terminal, Ended
<1>5. SoleOwner'
  BY DEF Requested, NothingEarly, LogAhead, SoleOwner, Owns, Owning, BeforeHelpers,
         Present, Absent, Ended
<1>6. InventoryCovers'
  BY DEF NothingEarly, InventoryCovers, BeforeHelpers, Present, Ended
<1>7. QED
  BY <1>1, <1>2, <1>3, <1>4, <1>5, <1>6

(* The first half of cancel, which stops the worker under the lock,
   preserves the invariant. *)
LEMMA CancelStopKeeps ==
    ASSUME ArenaInv, NEW a \in Attempt, CancelStop(a)
    PROVE  ArenaInv'
<1> USE DeliveryAssumption, AttemptAssumption, BoundsAssumption, TransitionFacts
<1> USE DEF ArenaInv, TypeOK, CancelStop, LockFree, SupervisorCancel, Killed,
            CancelMatters, durable, scheduler
<1>1. TypeOK'
  BY DEF State, Step, Owning, Ended, Absent, Started, Terminal
<1>2. Requested'
  BY DEF Requested, Step, Owning, Ended
<1>3. NothingEarly'
  BY DEF NothingEarly, BeforeHelpers, Present, Ended
<1>4. LogAhead'
  BY DEF Requested, NothingEarly, LogAhead, SoleOwner, Owns, Owning, Launched,
         BeforeHelpers, Present, State, Absent, Started, Terminal, Ended
<1>5. SoleOwner'
  BY DEF Requested, NothingEarly, LogAhead, SoleOwner, Owns, Owning, BeforeHelpers,
         Present, Absent, Ended
<1>6. InventoryCovers'
  BY DEF NothingEarly, InventoryCovers, BeforeHelpers, Present, Ended
<1>7. QED
  BY <1>1, <1>2, <1>3, <1>4, <1>5, <1>6

(* A cancel whose stop raises preserves the invariant. *)
LEMMA CancelStopFailsKeeps ==
    ASSUME ArenaInv, NEW a \in Attempt, CancelStopFails(a)
    PROVE  ArenaInv'
<1> USE DeliveryAssumption, AttemptAssumption, BoundsAssumption, TransitionFacts
<1> USE DEF ArenaInv, TypeOK, CancelStopFails, LockFree, Killed, durable, scheduler,
            control, docker
<1>1. TypeOK'
  BY DEF State, Step, Owning, Ended, Absent, Started, Terminal
<1>2. Requested'
  BY DEF Requested, Step, Owning, Ended
<1>3. NothingEarly'
  BY DEF NothingEarly, BeforeHelpers, Present, Ended
<1>4. LogAhead'
  BY DEF Requested, NothingEarly, LogAhead, SoleOwner, Owns, Owning, Launched,
         BeforeHelpers, Present, State, Absent, Started, Terminal, Ended
<1>5. SoleOwner'
  BY DEF Requested, NothingEarly, LogAhead, SoleOwner, Owns, Owning, BeforeHelpers,
         Present, Absent, Ended
<1>6. InventoryCovers'
  BY DEF NothingEarly, InventoryCovers, BeforeHelpers, Present, Ended
<1>7. QED
  BY <1>1, <1>2, <1>3, <1>4, <1>5, <1>6

(* The second half of cancel, the CANCELLED event and the release,
   preserves the invariant. *)
LEMMA CancelRecordKeeps ==
    ASSUME ArenaInv, NEW a \in Attempt, CancelRecord(a)
    PROVE  ArenaInv'
<1> USE DeliveryAssumption, AttemptAssumption, BoundsAssumption, TransitionFacts
<1> USE DEF ArenaInv, TypeOK, CancelRecord, CanAppend, Append, Release, ReleaseLease,
            durable, scheduler, worker, docker
<1>1. TypeOK'
  BY DEF State, Step, Owning, Ended, Absent, Started, Terminal
<1>2. Requested'
  BY DEF Requested, Step, Owning, Ended
<1>3. NothingEarly'
  BY DEF NothingEarly, BeforeHelpers, Present, Ended
<1>4. LogAhead'
  BY DEF Requested, NothingEarly, LogAhead, SoleOwner, Owns, Owning, Launched,
         BeforeHelpers, Present, State, Absent, Started, Terminal, Ended
<1>5. SoleOwner'
  BY DEF Requested, NothingEarly, LogAhead, SoleOwner, Owns, Owning, BeforeHelpers,
         Present, Absent, Ended
<1>6. InventoryCovers'
  BY DEF NothingEarly, InventoryCovers, BeforeHelpers, Present, Ended
<1>7. QED
  BY <1>1, <1>2, <1>3, <1>4, <1>5, <1>6

(* One attempt of recover_incomplete preserves the invariant. *)
LEMMA RecoverOneKeeps ==
    ASSUME ArenaInv, NEW a \in Attempt, RecoverOne(a)
    PROVE  ArenaInv'
<1> USE DeliveryAssumption, AttemptAssumption, BoundsAssumption, TransitionFacts
<1> USE DEF ArenaInv, TypeOK, RecoverOne, LockFree, CanAppend, Append, durable, scheduler,
            worker, docker
<1>1. TypeOK'
  BY DEF State, Step, Owning, Ended, Absent, Started, Terminal
<1>2. Requested'
  BY DEF Requested, Step, Owning, Ended
<1>3. NothingEarly'
  BY DEF NothingEarly, BeforeHelpers, Present, Ended
<1>4. LogAhead'
  BY DEF Requested, NothingEarly, LogAhead, SoleOwner, Owns, Owning, Launched,
         BeforeHelpers, Present, State, Absent, Started, Terminal, Ended
<1>5. SoleOwner'
  BY DEF Requested, NothingEarly, LogAhead, SoleOwner, Owns, Owning, BeforeHelpers,
         Present, Absent, Ended
<1>6. InventoryCovers'
  BY DEF NothingEarly, InventoryCovers, BeforeHelpers, Present, Ended
<1>7. QED
  BY <1>1, <1>2, <1>3, <1>4, <1>5, <1>6

(* The state read that opens controller.admit preserves the invariant. *)
LEMMA ReadStateKeeps ==
    ASSUME ArenaInv, NEW d \in Delivery, NEW a \in Attempt, ReadState(d, a)
    PROVE  ArenaInv'
<1> USE DeliveryAssumption, AttemptAssumption, BoundsAssumption, TransitionFacts
<1> USE DEF ArenaInv, TypeOK, ReadState, LockFree, durable, scheduler, control, docker
<1>1. TypeOK'
  BY DEF State, Step, Owning, Ended, Absent, Started, Terminal
<1>2. Requested'
  BY DEF Requested, Step, Owning, Ended
<1>3. NothingEarly'
  BY DEF NothingEarly, BeforeHelpers, Present, Ended
<1>4. LogAhead'
  BY DEF Requested, NothingEarly, LogAhead, SoleOwner, Owns, Owning, Launched,
         BeforeHelpers, Present, State, Absent, Started, Terminal, Ended
<1>5. SoleOwner'
  BY DEF Requested, NothingEarly, LogAhead, SoleOwner, Owns, Owning, BeforeHelpers,
         Present, Absent, Ended
<1>6. InventoryCovers'
  BY DEF NothingEarly, InventoryCovers, BeforeHelpers, Present, Ended
<1>7. QED
  BY <1>1, <1>2, <1>3, <1>4, <1>5, <1>6

(* Returning an active lease to a duplicate delivery preserves the
   invariant. *)
LEMMA AdmitDuplicateKeeps ==
    ASSUME ArenaInv, NEW d \in Delivery, AdmitDuplicate(d)
    PROVE  ArenaInv'
<1> USE DeliveryAssumption, AttemptAssumption, BoundsAssumption, TransitionFacts
<1> USE DEF ArenaInv, TypeOK, AdmitDuplicate, Goto, HasActiveKey, durable, scheduler,
            docker
<1>1. TypeOK'
  BY DEF State, Step, Owning, Ended, Absent, Started, Terminal
<1>2. Requested'
  BY DEF Requested, Step, Owning, Ended
<1>3. NothingEarly'
  BY DEF NothingEarly, BeforeHelpers, Present, Ended
<1>4. LogAhead'
  BY DEF Requested, NothingEarly, LogAhead, SoleOwner, Owns, Owning, Launched,
         BeforeHelpers, Present, State, Absent, Started, Terminal, Ended
<1>5. SoleOwner'
  BY DEF Requested, NothingEarly, LogAhead, SoleOwner, Owns, Owning, BeforeHelpers,
         Present, Absent, Ended
<1>6. InventoryCovers'
  BY DEF NothingEarly, InventoryCovers, BeforeHelpers, Present, Ended
<1>7. QED
  BY <1>1, <1>2, <1>3, <1>4, <1>5, <1>6

(* A refusal for capacity preserves the invariant. *)
LEMMA AdmitFullKeeps ==
    ASSUME ArenaInv, NEW d \in Delivery, AdmitFull(d)
    PROVE  ArenaInv'
<1> USE DeliveryAssumption, AttemptAssumption, BoundsAssumption, TransitionFacts
<1> USE DEF ArenaInv, TypeOK, AdmitFull, Goto, HasActiveKey, durable, scheduler, control,
            docker
<1>1. TypeOK'
  BY DEF State, Step, Owning, Ended, Absent, Started, Terminal
<1>2. Requested'
  BY DEF Requested, Step, Owning, Ended
<1>3. NothingEarly'
  BY DEF NothingEarly, BeforeHelpers, Present, Ended
<1>4. LogAhead'
  BY DEF Requested, NothingEarly, LogAhead, SoleOwner, Owns, Owning, Launched,
         BeforeHelpers, Present, State, Absent, Started, Terminal, Ended
<1>5. SoleOwner'
  BY DEF Requested, NothingEarly, LogAhead, SoleOwner, Owns, Owning, BeforeHelpers,
         Present, Absent, Ended
<1>6. InventoryCovers'
  BY DEF NothingEarly, InventoryCovers, BeforeHelpers, Present, Ended
<1>7. QED
  BY <1>1, <1>2, <1>3, <1>4, <1>5, <1>6

(* Granting a new lease preserves the invariant. *)
LEMMA AdmitKeeps ==
    ASSUME ArenaInv, NEW d \in Delivery, Admit(d)
    PROVE  ArenaInv'
<1> USE DeliveryAssumption, AttemptAssumption, BoundsAssumption, TransitionFacts
<1> USE DEF ArenaInv, TypeOK, Admit, Goto, HasActiveKey, durable, control, docker
<1>1. TypeOK'
  BY DEF State, Step, Owning, Ended, Absent, Started, Terminal
<1>2. Requested'
  BY DEF Requested, Step, Owning, Ended
<1>3. NothingEarly'
  BY DEF NothingEarly, BeforeHelpers, Present, Ended
<1>4. LogAhead'
  BY DEF Requested, NothingEarly, LogAhead, SoleOwner, Owns, Owning, Launched,
         BeforeHelpers, Present, State, Absent, Started, Terminal, Ended
<1>5. SoleOwner'
  BY DEF Requested, NothingEarly, LogAhead, SoleOwner, Owns, Owning, BeforeHelpers,
         Present, Absent, Ended
<1>6. InventoryCovers'
  BY DEF NothingEarly, InventoryCovers, BeforeHelpers, Present, Ended
<1>7. QED
  BY <1>1, <1>2, <1>3, <1>4, <1>5, <1>6

(* Giving back a lease of an attempt already started preserves the
   invariant. *)
LEMMA GiveBackKeeps ==
    ASSUME ArenaInv, NEW d \in Delivery, GiveBack(d)
    PROVE  ArenaInv'
<1> USE DeliveryAssumption, AttemptAssumption, BoundsAssumption, TransitionFacts
<1> USE DEF ArenaInv, TypeOK, GiveBack, Goto, ReleaseLease, durable, control, docker
<1>1. TypeOK'
  BY DEF State, Step, Owning, Ended, Absent, Started, Terminal
<1>2. Requested'
  BY DEF Requested, Step, Owning, Ended
<1>3. NothingEarly'
  BY DEF NothingEarly, BeforeHelpers, Present, Ended
<1>4. LogAhead'
  BY DEF Requested, NothingEarly, LogAhead, SoleOwner, Owns, Owning, Launched,
         BeforeHelpers, Present, State, Absent, Started, Terminal, Ended
<1>5. SoleOwner'
  BY DEF Requested, NothingEarly, LogAhead, SoleOwner, Owns, Owning, BeforeHelpers,
         Present, Absent, Ended
<1>6. InventoryCovers'
  BY DEF NothingEarly, InventoryCovers, BeforeHelpers, Present, Ended
<1>7. QED
  BY <1>1, <1>2, <1>3, <1>4, <1>5, <1>6

(* The ADMITTED event, the step that elects the owner, preserves the
   invariant. *)
LEMMA RecordAdmissionKeeps ==
    ASSUME ArenaInv, NEW d \in Delivery, RecordAdmission(d)
    PROVE  ArenaInv'
<1> USE DeliveryAssumption, AttemptAssumption, BoundsAssumption, TransitionFacts
<1> USE DEF ArenaInv, TypeOK, RecordAdmission, Goto, LockFree, CanAppend, Append, durable,
            scheduler, control, docker
<1>1. TypeOK'
  BY DEF State, Step, Owning, Ended, Absent, Started, Terminal
<1>2. Requested'
  BY DEF Requested, Step, Owning, Ended
<1>3. NothingEarly'
  BY DEF NothingEarly, BeforeHelpers, Present, Ended
<1>4. LogAhead'
  BY DEF Requested, NothingEarly, LogAhead, SoleOwner, Owns, Owning, Launched,
         BeforeHelpers, Present, State, Absent, Started, Terminal, Ended
<1>5. SoleOwner'
  BY DEF Requested, NothingEarly, LogAhead, SoleOwner, Owns, Owning, BeforeHelpers,
         Present, Absent, Ended
<1>6. InventoryCovers'
  BY DEF NothingEarly, InventoryCovers, BeforeHelpers, Present, Ended
<1>7. QED
  BY <1>1, <1>2, <1>3, <1>4, <1>5, <1>6

(* Entering the lease and starting the heartbeat preserves the invariant. *)
LEMMA BeginHeartbeatKeeps ==
    ASSUME ArenaInv, NEW d \in Delivery, BeginHeartbeat(d)
    PROVE  ArenaInv'
<1> USE DeliveryAssumption, AttemptAssumption, BoundsAssumption, TransitionFacts
<1> USE DEF ArenaInv, TypeOK, BeginHeartbeat, Goto, durable, scheduler, docker
<1>1. TypeOK'
  BY DEF State, Step, Owning, Ended, Absent, Started, Terminal
<1>2. Requested'
  BY DEF Requested, Step, Owning, Ended
<1>3. NothingEarly'
  BY DEF NothingEarly, BeforeHelpers, Present, Ended
<1>4. LogAhead'
  BY DEF Requested, NothingEarly, LogAhead, SoleOwner, Owns, Owning, Launched,
         BeforeHelpers, Present, State, Absent, Started, Terminal, Ended
<1>5. SoleOwner'
  BY DEF Requested, NothingEarly, LogAhead, SoleOwner, Owns, Owning, BeforeHelpers,
         Present, Absent, Ended
<1>6. InventoryCovers'
  BY DEF NothingEarly, InventoryCovers, BeforeHelpers, Present, Ended
<1>7. QED
  BY <1>1, <1>2, <1>3, <1>4, <1>5, <1>6

(* The RUNNING event preserves the invariant. *)
LEMMA PrepareKeeps ==
    ASSUME ArenaInv, NEW d \in Delivery, Prepare(d)
    PROVE  ArenaInv'
<1> USE DeliveryAssumption, AttemptAssumption, BoundsAssumption, TransitionFacts
<1> USE DEF ArenaInv, TypeOK, Prepare, Goto, LockFree, CanAppend, Append, durable,
            scheduler, control, docker
<1>1. TypeOK'
  BY DEF State, Step, Owning, Ended, Absent, Started, Terminal
<1>2. Requested'
  BY DEF Requested, Step, Owning, Ended
<1>3. NothingEarly'
  BY DEF NothingEarly, BeforeHelpers, Present, Ended
<1>4. LogAhead'
  BY DEF Requested, NothingEarly, LogAhead, SoleOwner, Owns, Owning, Launched,
         BeforeHelpers, Present, State, Absent, Started, Terminal, Ended
<1>5. SoleOwner'
  BY DEF Requested, NothingEarly, LogAhead, SoleOwner, Owns, Owning, BeforeHelpers,
         Present, Absent, Ended
<1>6. InventoryCovers'
  BY DEF NothingEarly, InventoryCovers, BeforeHelpers, Present, Ended
<1>7. QED
  BY <1>1, <1>2, <1>3, <1>4, <1>5, <1>6

(* The cancellation of a failed preparation preserves the invariant. *)
LEMMA AbortKeeps ==
    ASSUME ArenaInv, NEW d \in Delivery, Abort(d)
    PROVE  ArenaInv'
<1> USE DeliveryAssumption, AttemptAssumption, BoundsAssumption, TransitionFacts
<1> USE DEF ArenaInv, TypeOK, Abort, Goto, LockFree, CanAppend, Append, Release,
            ReleaseLease, SupervisorCancel, Killed, durable, scheduler
<1>1. TypeOK'
  <2>1. state' \in [Attempt -> State]
    BY DEF State, Absent, Terminal
  <2>2. /\ lease' \in [Delivery -> {"none", "active", "expired"}]
        /\ byKey' \in [Attempt -> Delivery \cup {None}]
        /\ leaseBy' \in [Attempt -> Delivery \cup {None}]
    <3>1. CASE Release(of[d])
      BY <3>1, ReleaseTyped
    <3>2. CASE UNCHANGED <<scheduler, leaseBy>>
      BY <3>2
    <3>3. QED
      BY <3>1, <3>2 DEF Release
  <2>3. /\ of' \in [Delivery -> Attempt \cup {None}]
        /\ pc' \in [Delivery -> Step]
        /\ beat' \in [Delivery -> {"off", "on", "lost"}]
    BY DEF Step, Owning, Ended
  <2>4. asked' \in [Attempt -> BOOLEAN]
    BY DEF Present
  <2>5. box' \in [Delivery -> {"none", "helpers", "running", "exited", "gone"}]
    BY DEF Present
  <2>6. QED
    BY <2>1, <2>2, <2>3, <2>4, <2>5
<1>2. Requested'
  BY DEF Requested, Step, Owning, Ended
<1>3. NothingEarly'
  BY <1>1 DEF NothingEarly, BeforeHelpers, Present, Ended
<1>4. LogAhead'
  BY DEF Requested, NothingEarly, LogAhead, SoleOwner, Owns, Owning, Launched,
         BeforeHelpers, Present, State, Absent, Started, Terminal, Ended
<1>5. SoleOwner'
  BY DEF Requested, NothingEarly, LogAhead, SoleOwner, Owns, Owning, BeforeHelpers,
         Present, Absent, Ended
<1>6. InventoryCovers'
  BY DEF NothingEarly, InventoryCovers, BeforeHelpers, Present, Ended
<1>7. QED
  BY <1>1, <1>2, <1>3, <1>4, <1>5, <1>6

(* A launch that finds the stop request preserves the invariant. *)
LEMMA LaunchRefusedKeeps ==
    ASSUME ArenaInv, NEW d \in Delivery, LaunchRefused(d)
    PROVE  ArenaInv'
<1> USE DeliveryAssumption, AttemptAssumption, BoundsAssumption, TransitionFacts
<1> USE DEF ArenaInv, TypeOK, LaunchRefused, Goto, durable, scheduler, control, docker
<1>1. TypeOK'
  BY DEF State, Step, Owning, Ended, Absent, Started, Terminal
<1>2. Requested'
  BY DEF Requested, Step, Owning, Ended
<1>3. NothingEarly'
  BY DEF NothingEarly, BeforeHelpers, Present, Ended
<1>4. LogAhead'
  BY DEF Requested, NothingEarly, LogAhead, SoleOwner, Owns, Owning, Launched,
         BeforeHelpers, Present, State, Absent, Started, Terminal, Ended
<1>5. SoleOwner'
  BY DEF Requested, NothingEarly, LogAhead, SoleOwner, Owns, Owning, BeforeHelpers,
         Present, Absent, Ended
<1>6. InventoryCovers'
  BY DEF NothingEarly, InventoryCovers, BeforeHelpers, Present, Ended
<1>7. QED
  BY <1>1, <1>2, <1>3, <1>4, <1>5, <1>6

(* Taking the lease inventory of a pass preserves the invariant. *)
LEMMA TakeInventoryKeeps ==
    ASSUME ArenaInv, NEW d \in Delivery, TakeInventory(d)
    PROVE  ArenaInv'
<1> USE DeliveryAssumption, AttemptAssumption, BoundsAssumption, TransitionFacts
<1> USE DEF ArenaInv, TypeOK, TakeInventory, Goto, ActiveLeases, durable, scheduler,
            control
<1>1. TypeOK'
  BY DEF State, Step, Owning, Ended, Absent, Started, Terminal
<1>2. Requested'
  BY DEF Requested, Step, Owning, Ended
<1>3. NothingEarly'
  BY DEF NothingEarly, BeforeHelpers, Present, Ended
<1>4. LogAhead'
  BY DEF Requested, NothingEarly, LogAhead, SoleOwner, Owns, Owning, Launched,
         BeforeHelpers, Present, State, Absent, Started, Terminal, Ended
<1>5. SoleOwner'
  BY DEF Requested, NothingEarly, LogAhead, SoleOwner, Owns, Owning, BeforeHelpers,
         Present, Absent, Ended
<1>6. InventoryCovers'
  BY DEF NothingEarly, InventoryCovers, BeforeHelpers, Present, Ended
<1>7. QED
  BY <1>1, <1>2, <1>3, <1>4, <1>5, <1>6

(* A clean reconciliation pass preserves the invariant. *)
LEMMA ReconcileKeeps ==
    ASSUME ArenaInv, NEW d \in Delivery, Reconcile(d)
    PROVE  ArenaInv'
<1> USE DeliveryAssumption, AttemptAssumption, BoundsAssumption, TransitionFacts
<1> USE DEF ArenaInv, TypeOK, Reconcile, Goto, Remove, Orphans, durable, scheduler, control
<1>1. TypeOK'
  BY DEF State, Step, Owning, Ended, Absent, Started, Terminal
<1>2. Requested'
  BY DEF Requested, Step, Owning, Ended
<1>3. NothingEarly'
  BY DEF NothingEarly, BeforeHelpers, Present, Ended
<1>4. LogAhead'
  BY DEF Requested, NothingEarly, LogAhead, SoleOwner, Owns, Owning, Launched,
         BeforeHelpers, Present, State, Absent, Started, Terminal, Ended
<1>5. SoleOwner'
  BY DEF Requested, NothingEarly, LogAhead, SoleOwner, Owns, Owning, BeforeHelpers,
         Present, Absent, Ended
<1>6. InventoryCovers'
  BY DEF NothingEarly, InventoryCovers, BeforeHelpers, Present, Ended
<1>7. QED
  BY <1>1, <1>2, <1>3, <1>4, <1>5, <1>6

(* A partial reconciliation pass preserves the invariant. *)
LEMMA ReconcileFailsKeeps ==
    ASSUME ArenaInv, NEW d \in Delivery, ReconcileFails(d)
    PROVE  ArenaInv'
<1> USE DeliveryAssumption, AttemptAssumption, BoundsAssumption, TransitionFacts
<1> USE DEF ArenaInv, TypeOK, ReconcileFails, Goto, Remove, Orphans, durable, scheduler,
            control
<1>1. TypeOK'
  BY DEF State, Step, Owning, Ended, Absent, Started, Terminal
<1>2. Requested'
  BY DEF Requested, Step, Owning, Ended
<1>3. NothingEarly'
  BY DEF NothingEarly, BeforeHelpers, Present, Ended
<1>4. LogAhead'
  BY DEF Requested, NothingEarly, LogAhead, SoleOwner, Owns, Owning, Launched,
         BeforeHelpers, Present, State, Absent, Started, Terminal, Ended
<1>5. SoleOwner'
  BY DEF Requested, NothingEarly, LogAhead, SoleOwner, Owns, Owning, BeforeHelpers,
         Present, Absent, Ended
<1>6. InventoryCovers'
  BY DEF NothingEarly, InventoryCovers, BeforeHelpers, Present, Ended
<1>7. QED
  BY <1>1, <1>2, <1>3, <1>4, <1>5, <1>6

(* Creating network and proxy preserves the invariant. *)
LEMMA StartHelpersKeeps ==
    ASSUME ArenaInv, NEW d \in Delivery, StartHelpers(d)
    PROVE  ArenaInv'
<1> USE DeliveryAssumption, AttemptAssumption, BoundsAssumption, TransitionFacts
<1> USE DEF ArenaInv, TypeOK, StartHelpers, Goto, durable, scheduler, control
<1>1. TypeOK'
  BY DEF State, Step, Owning, Ended, Absent, Started, Terminal
<1>2. Requested'
  BY DEF Requested, Step, Owning, Ended
<1>3. NothingEarly'
  BY DEF NothingEarly, BeforeHelpers, Present, Ended
<1>4. LogAhead'
  BY DEF Requested, NothingEarly, LogAhead, SoleOwner, Owns, Owning, Launched,
         BeforeHelpers, Present, State, Absent, Started, Terminal, Ended
<1>5. SoleOwner'
  BY DEF Requested, NothingEarly, LogAhead, SoleOwner, Owns, Owning, BeforeHelpers,
         Present, Absent, Ended
<1>6. InventoryCovers'
  BY DEF NothingEarly, InventoryCovers, BeforeHelpers, Present, Ended
<1>7. QED
  BY <1>1, <1>2, <1>3, <1>4, <1>5, <1>6

(* Spawning the worker preserves the invariant. *)
LEMMA SpawnKeeps ==
    ASSUME ArenaInv, NEW d \in Delivery, Spawn(d)
    PROVE  ArenaInv'
<1> USE DeliveryAssumption, AttemptAssumption, BoundsAssumption, TransitionFacts
<1> USE DEF ArenaInv, TypeOK, Spawn, Goto, durable, scheduler, control
<1>1. TypeOK'
  <2>1. /\ of' \in [Delivery -> Attempt \cup {None}]
        /\ pc' \in [Delivery -> Step]
        /\ beat' \in [Delivery -> {"off", "on", "lost"}]
    BY DEF Step, Owning, Ended
  <2>2. old' \in [Delivery -> BOOLEAN]
    BY DEF Present
  <2>3. box' \in [Delivery -> {"none", "helpers", "running", "exited", "gone"}]
    BY DEF Present
  <2>4. QED
    BY <2>1, <2>2, <2>3
<1>2. Requested'
  BY DEF Requested, Step, Owning, Ended
<1>3. NothingEarly'
  BY <1>1 DEF NothingEarly, BeforeHelpers, Present, Ended
<1>4. LogAhead'
  BY DEF Requested, NothingEarly, LogAhead, SoleOwner, Owns, Owning, Launched,
         BeforeHelpers, Present, State, Absent, Started, Terminal, Ended
<1>5. SoleOwner'
  BY DEF Requested, NothingEarly, LogAhead, SoleOwner, Owns, Owning, BeforeHelpers,
         Present, Absent, Ended
<1>6. InventoryCovers'
  BY DEF NothingEarly, InventoryCovers, BeforeHelpers, Present, Ended
<1>7. QED
  BY <1>1, <1>2, <1>3, <1>4, <1>5, <1>6

(* The end of process.wait preserves the invariant. *)
LEMMA WaitReturnsKeeps ==
    ASSUME ArenaInv, NEW d \in Delivery, WaitReturns(d)
    PROVE  ArenaInv'
<1> USE DeliveryAssumption, AttemptAssumption, BoundsAssumption, TransitionFacts
<1> USE DEF ArenaInv, TypeOK, WaitReturns, Goto, durable, scheduler, control, docker
<1>1. TypeOK'
  BY DEF State, Step, Owning, Ended, Absent, Started, Terminal
<1>2. Requested'
  BY DEF Requested, Step, Owning, Ended
<1>3. NothingEarly'
  BY DEF NothingEarly, BeforeHelpers, Present, Ended
<1>4. LogAhead'
  BY DEF Requested, NothingEarly, LogAhead, SoleOwner, Owns, Owning, Launched,
         BeforeHelpers, Present, State, Absent, Started, Terminal, Ended
<1>5. SoleOwner'
  BY DEF Requested, NothingEarly, LogAhead, SoleOwner, Owns, Owning, BeforeHelpers,
         Present, Absent, Ended
<1>6. InventoryCovers'
  BY DEF NothingEarly, InventoryCovers, BeforeHelpers, Present, Ended
<1>7. QED
  BY <1>1, <1>2, <1>3, <1>4, <1>5, <1>6

(* A timeout or an inspection denial preserves the invariant. *)
LEMMA StopOwnKeeps ==
    ASSUME ArenaInv, NEW d \in Delivery, StopOwn(d)
    PROVE  ArenaInv'
<1> USE DeliveryAssumption, AttemptAssumption, BoundsAssumption, TransitionFacts
<1> USE DEF ArenaInv, TypeOK, StopOwn, Goto, durable, scheduler, control
<1>1. TypeOK'
  <2>1. /\ of' \in [Delivery -> Attempt \cup {None}]
        /\ pc' \in [Delivery -> Step]
        /\ beat' \in [Delivery -> {"off", "on", "lost"}]
    BY DEF Step, Owning, Ended
  <2>2. asked' \in [Attempt -> BOOLEAN]
    BY DEF Present
  <2>3. box' \in [Delivery -> {"none", "helpers", "running", "exited", "gone"}]
    BY DEF Present
  <2>4. QED
    BY <2>1, <2>2, <2>3
<1>2. Requested'
  BY DEF Requested, Step, Owning, Ended
<1>3. NothingEarly'
  BY <1>1 DEF NothingEarly, BeforeHelpers, Present, Ended
<1>4. LogAhead'
  BY DEF Requested, NothingEarly, LogAhead, SoleOwner, Owns, Owning, Launched,
         BeforeHelpers, Present, State, Absent, Started, Terminal, Ended
<1>5. SoleOwner'
  BY DEF Requested, NothingEarly, LogAhead, SoleOwner, Owns, Owning, BeforeHelpers,
         Present, Absent, Ended
<1>6. InventoryCovers'
  BY DEF NothingEarly, InventoryCovers, BeforeHelpers, Present, Ended
<1>7. QED
  BY <1>1, <1>2, <1>3, <1>4, <1>5, <1>6

(* The clean-up at the end of run preserves the invariant. *)
LEMMA LeaveKeeps ==
    ASSUME ArenaInv, NEW d \in Delivery, Leave(d)
    PROVE  ArenaInv'
<1> USE DeliveryAssumption, AttemptAssumption, BoundsAssumption, TransitionFacts
<1> USE DEF ArenaInv, TypeOK, Leave, Goto, Remove, durable, scheduler, control
<1>1. TypeOK'
  <2>1. /\ of' \in [Delivery -> Attempt \cup {None}]
        /\ pc' \in [Delivery -> Step]
        /\ beat' \in [Delivery -> {"off", "on", "lost"}]
    BY DEF Step, Owning, Ended
  <2>2. good' \in [Delivery -> BOOLEAN]
    BY DEF Present
  <2>3. box' \in [Delivery -> {"none", "helpers", "running", "exited", "gone"}]
    BY DEF Present
  <2>4. old' \in [Delivery -> BOOLEAN]
    <3>1. CASE Remove({d} \cap {e \in Delivery : Present(e)})
      BY <3>1
    <3>2. CASE UNCHANGED <<box, old>>
      BY <3>2
    <3>3. QED
      BY <3>1, <3>2
  <2>5. QED
    BY <2>1, <2>2, <2>3, <2>4
<1>2. Requested'
  BY DEF Requested, Step, Owning, Ended
<1>3. NothingEarly'
  BY <1>1 DEF NothingEarly, BeforeHelpers, Present, Ended
<1>4. LogAhead'
  BY DEF Requested, NothingEarly, LogAhead, SoleOwner, Owns, Owning, Launched,
         BeforeHelpers, Present, State, Absent, Started, Terminal, Ended
<1>5. SoleOwner'
  BY DEF Requested, NothingEarly, LogAhead, SoleOwner, Owns, Owning, BeforeHelpers,
         Present, Absent, Ended
<1>6. InventoryCovers'
  BY DEF NothingEarly, InventoryCovers, BeforeHelpers, Present, Ended
<1>7. QED
  BY <1>1, <1>2, <1>3, <1>4, <1>5, <1>6

(* A failed collection preserves the invariant. *)
LEMMA CollectFailsKeeps ==
    ASSUME ArenaInv, NEW d \in Delivery, CollectFails(d)
    PROVE  ArenaInv'
<1> USE DeliveryAssumption, AttemptAssumption, BoundsAssumption, TransitionFacts
<1> USE DEF ArenaInv, TypeOK, CollectFails, Goto, durable, scheduler, control, docker
<1>1. TypeOK'
  BY DEF State, Step, Owning, Ended, Absent, Started, Terminal
<1>2. Requested'
  BY DEF Requested, Step, Owning, Ended
<1>3. NothingEarly'
  BY DEF NothingEarly, BeforeHelpers, Present, Ended
<1>4. LogAhead'
  BY DEF Requested, NothingEarly, LogAhead, SoleOwner, Owns, Owning, Launched,
         BeforeHelpers, Present, State, Absent, Started, Terminal, Ended
<1>5. SoleOwner'
  BY DEF Requested, NothingEarly, LogAhead, SoleOwner, Owns, Owning, BeforeHelpers,
         Present, Absent, Ended
<1>6. InventoryCovers'
  BY DEF NothingEarly, InventoryCovers, BeforeHelpers, Present, Ended
<1>7. QED
  BY <1>1, <1>2, <1>3, <1>4, <1>5, <1>6

(* The check for a cancelled attempt preserves the invariant. *)
LEMMA CheckCancelledKeeps ==
    ASSUME ArenaInv, NEW d \in Delivery, CheckCancelled(d)
    PROVE  ArenaInv'
<1> USE DeliveryAssumption, AttemptAssumption, BoundsAssumption, TransitionFacts
<1> USE DEF ArenaInv, TypeOK, CheckCancelled, Goto, LockFree, durable, scheduler, control,
            docker
<1>1. TypeOK'
  BY DEF State, Step, Owning, Ended, Absent, Started, Terminal
<1>2. Requested'
  BY DEF Requested, Step, Owning, Ended
<1>3. NothingEarly'
  BY DEF NothingEarly, BeforeHelpers, Present, Ended
<1>4. LogAhead'
  BY DEF Requested, NothingEarly, LogAhead, SoleOwner, Owns, Owning, Launched,
         BeforeHelpers, Present, State, Absent, Started, Terminal, Ended
<1>5. SoleOwner'
  BY DEF Requested, NothingEarly, LogAhead, SoleOwner, Owns, Owning, BeforeHelpers,
         Present, Absent, Ended
<1>6. InventoryCovers'
  BY DEF NothingEarly, InventoryCovers, BeforeHelpers, Present, Ended
<1>7. QED
  BY <1>1, <1>2, <1>3, <1>4, <1>5, <1>6

(* The terminal event of finish_run preserves the invariant. *)
LEMMA FinishKeeps ==
    ASSUME ArenaInv, NEW d \in Delivery, Finish(d)
    PROVE  ArenaInv'
<1> USE DeliveryAssumption, AttemptAssumption, BoundsAssumption, TransitionFacts
<1> USE DEF ArenaInv, TypeOK, Finish, Goto, LockFree, CanAppend, Append, Verdict, durable,
            scheduler, control, docker
<1>1. TypeOK'
  BY DEF State, Step, Owning, Ended, Absent, Started, Terminal
<1>2. Requested'
  BY DEF Requested, Step, Owning, Ended
<1>3. NothingEarly'
  BY DEF NothingEarly, BeforeHelpers, Present, Ended
<1>4. LogAhead'
  BY DEF Requested, NothingEarly, LogAhead, SoleOwner, Owns, Owning, Launched,
         BeforeHelpers, Present, State, Absent, Started, Terminal, Ended
<1>5. SoleOwner'
  BY DEF Requested, NothingEarly, LogAhead, SoleOwner, Owns, Owning, BeforeHelpers,
         Present, Absent, Ended
<1>6. InventoryCovers'
  BY DEF NothingEarly, InventoryCovers, BeforeHelpers, Present, Ended
<1>7. QED
  BY <1>1, <1>2, <1>3, <1>4, <1>5, <1>6

(* The release of finish_run preserves the invariant. *)
LEMMA FinishReleaseKeeps ==
    ASSUME ArenaInv, NEW d \in Delivery, FinishRelease(d)
    PROVE  ArenaInv'
<1> USE DeliveryAssumption, AttemptAssumption, BoundsAssumption, TransitionFacts
<1> USE DEF ArenaInv, TypeOK, FinishRelease, Goto, Release, ReleaseLease, durable, docker,
            scheduler
<1>1. TypeOK'
  <2>1. /\ lease' \in [Delivery -> {"none", "active", "expired"}]
        /\ byKey' \in [Attempt -> Delivery \cup {None}]
        /\ leaseBy' \in [Attempt -> Delivery \cup {None}]
      BY ReleaseTyped
  <2>2. /\ of' \in [Delivery -> Attempt \cup {None}]
        /\ pc' \in [Delivery -> Step]
        /\ beat' \in [Delivery -> {"off", "on", "lost"}]
    BY DEF Step, Owning, Ended
  <2>3. QED
    BY <2>1, <2>2
<1>2. Requested'
  BY DEF Requested, Step, Owning, Ended
<1>3. NothingEarly'
  BY <1>1 DEF NothingEarly, BeforeHelpers, Present, Ended
<1>4. LogAhead'
  BY DEF Requested, NothingEarly, LogAhead, SoleOwner, Owns, Owning, Launched,
         BeforeHelpers, Present, State, Absent, Started, Terminal, Ended
<1>5. SoleOwner'
  BY DEF Requested, NothingEarly, LogAhead, SoleOwner, Owns, Owning, BeforeHelpers,
         Present, Absent, Ended
<1>6. InventoryCovers'
  BY DEF NothingEarly, InventoryCovers, BeforeHelpers, Present, Ended
<1>7. QED
  BY <1>1, <1>2, <1>3, <1>4, <1>5, <1>6

(* A lease's expiry preserves the invariant. *)
LEMMA ExpireKeeps ==
    ASSUME ArenaInv, NEW d \in Delivery, Expire(d)
    PROVE  ArenaInv'
<1> USE DeliveryAssumption, AttemptAssumption, BoundsAssumption, TransitionFacts
<1> USE DEF ArenaInv, TypeOK, Expire, durable, control, worker, docker
<1>1. TypeOK'
  BY DEF State, Step, Owning, Ended, Absent, Started, Terminal
<1>2. Requested'
  BY DEF Requested, Step, Owning, Ended
<1>3. NothingEarly'
  BY DEF NothingEarly, BeforeHelpers, Present, Ended
<1>4. LogAhead'
  BY DEF Requested, NothingEarly, LogAhead, SoleOwner, Owns, Owning, Launched,
         BeforeHelpers, Present, State, Absent, Started, Terminal, Ended
<1>5. SoleOwner'
  BY DEF Requested, NothingEarly, LogAhead, SoleOwner, Owns, Owning, BeforeHelpers,
         Present, Absent, Ended
<1>6. InventoryCovers'
  BY DEF NothingEarly, InventoryCovers, BeforeHelpers, Present, Ended
<1>7. QED
  BY <1>1, <1>2, <1>3, <1>4, <1>5, <1>6

(* A heartbeat that finds no active lease preserves the invariant. *)
LEMMA HeartbeatLostKeeps ==
    ASSUME ArenaInv, NEW d \in Delivery, HeartbeatLost(d)
    PROVE  ArenaInv'
<1> USE DeliveryAssumption, AttemptAssumption, BoundsAssumption, TransitionFacts
<1> USE DEF ArenaInv, TypeOK, HeartbeatLost, Killed, Renewable, durable, scheduler, control
<1>1. TypeOK'
  <2>1. Killed(of[d]) \in [Delivery -> {"none", "helpers", "running", "exited", "gone"}]
    OBVIOUS
  <2>2. box' \in [Delivery -> {"none", "helpers", "running", "exited", "gone"}]
    BY <2>1
  <2>3. asked' \in [Attempt -> BOOLEAN]
    OBVIOUS
  <2>4. QED
    BY <2>2, <2>3
<1>2. Requested'
  BY DEF Requested, Step, Owning, Ended
<1>3. NothingEarly'
  BY DEF NothingEarly, BeforeHelpers, Present, Ended
<1>4. LogAhead'
  BY DEF Requested, NothingEarly, LogAhead, SoleOwner, Owns, Owning, Launched,
         BeforeHelpers, Present, State, Absent, Started, Terminal, Ended
<1>5. SoleOwner'
  BY DEF Requested, NothingEarly, LogAhead, SoleOwner, Owns, Owning, BeforeHelpers,
         Present, Absent, Ended
<1>6. InventoryCovers'
  BY DEF NothingEarly, InventoryCovers, BeforeHelpers, Present, Ended
<1>7. QED
  BY <1>1, <1>2, <1>3, <1>4, <1>5, <1>6

(* Dropping a reclaimed lease's entry preserves the invariant. *)
LEMMA ReclaimReadKeeps ==
    ASSUME ArenaInv, NEW d \in Delivery, ReclaimRead(d)
    PROVE  ArenaInv'
<1> USE DeliveryAssumption, AttemptAssumption, BoundsAssumption, TransitionFacts
<1> USE DEF ArenaInv, TypeOK, ReclaimRead, LockFree, durable, scheduler, worker, docker
<1>1. TypeOK'
  BY DEF State, Step, Owning, Ended, Absent, Started, Terminal
<1>2. Requested'
  BY DEF Requested, Step, Owning, Ended
<1>3. NothingEarly'
  BY DEF NothingEarly, BeforeHelpers, Present, Ended
<1>4. LogAhead'
  BY DEF Requested, NothingEarly, LogAhead, SoleOwner, Owns, Owning, Launched,
         BeforeHelpers, Present, State, Absent, Started, Terminal, Ended
<1>5. SoleOwner'
  BY DEF Requested, NothingEarly, LogAhead, SoleOwner, Owns, Owning, BeforeHelpers,
         Present, Absent, Ended
<1>6. InventoryCovers'
  BY DEF NothingEarly, InventoryCovers, BeforeHelpers, Present, Ended
<1>7. QED
  BY <1>1, <1>2, <1>3, <1>4, <1>5, <1>6

(* A worker's own exit preserves the invariant. *)
LEMMA WorkerExitsKeeps ==
    ASSUME ArenaInv, NEW d \in Delivery, WorkerExits(d)
    PROVE  ArenaInv'
<1> USE DeliveryAssumption, AttemptAssumption, BoundsAssumption, TransitionFacts
<1> USE DEF ArenaInv, TypeOK, WorkerExits, durable, scheduler, control, worker
<1>1. TypeOK'
  BY DEF State, Step, Owning, Ended, Absent, Started, Terminal
<1>2. Requested'
  BY DEF Requested, Step, Owning, Ended
<1>3. NothingEarly'
  BY DEF NothingEarly, BeforeHelpers, Present, Ended
<1>4. LogAhead'
  BY DEF Requested, NothingEarly, LogAhead, SoleOwner, Owns, Owning, Launched,
         BeforeHelpers, Present, State, Absent, Started, Terminal, Ended
<1>5. SoleOwner'
  BY DEF Requested, NothingEarly, LogAhead, SoleOwner, Owns, Owning, BeforeHelpers,
         Present, Absent, Ended
<1>6. InventoryCovers'
  BY DEF NothingEarly, InventoryCovers, BeforeHelpers, Present, Ended
<1>7. QED
  BY <1>1, <1>2, <1>3, <1>4, <1>5, <1>6

(* A group's ageing preserves the invariant. *)
LEMMA GrowOldKeeps ==
    ASSUME ArenaInv, NEW d \in Delivery, GrowOld(d)
    PROVE  ArenaInv'
<1> USE DeliveryAssumption, AttemptAssumption, BoundsAssumption, TransitionFacts
<1> USE DEF ArenaInv, TypeOK, GrowOld, durable, scheduler, control, worker
<1>1. TypeOK'
  BY DEF State, Step, Owning, Ended, Absent, Started, Terminal
<1>2. Requested'
  BY DEF Requested, Step, Owning, Ended
<1>3. NothingEarly'
  BY DEF NothingEarly, BeforeHelpers, Present, Ended
<1>4. LogAhead'
  BY DEF Requested, NothingEarly, LogAhead, SoleOwner, Owns, Owning, Launched,
         BeforeHelpers, Present, State, Absent, Started, Terminal, Ended
<1>5. SoleOwner'
  BY DEF Requested, NothingEarly, LogAhead, SoleOwner, Owns, Owning, BeforeHelpers,
         Present, Absent, Ended
<1>6. InventoryCovers'
  BY DEF NothingEarly, InventoryCovers, BeforeHelpers, Present, Ended
<1>7. QED
  BY <1>1, <1>2, <1>3, <1>4, <1>5, <1>6

(* Taking the expired leases preserves the invariant. *)
LEMMA ReclaimTakeKeeps ==
    ASSUME ArenaInv, ReclaimTake
    PROVE  ArenaInv'
<1> USE DeliveryAssumption, AttemptAssumption, BoundsAssumption, TransitionFacts
<1> USE DEF ArenaInv, TypeOK, ReclaimTake, durable, worker, docker
<1>1. TypeOK'
  BY DEF State, Step, Owning, Ended, Absent, Started, Terminal
<1>2. Requested'
  BY DEF Requested, Step, Owning, Ended
<1>3. NothingEarly'
  BY DEF NothingEarly, BeforeHelpers, Present, Ended
<1>4. LogAhead'
  BY DEF Requested, NothingEarly, LogAhead, SoleOwner, Owns, Owning, Launched,
         BeforeHelpers, Present, State, Absent, Started, Terminal, Ended
<1>5. SoleOwner'
  BY DEF Requested, NothingEarly, LogAhead, SoleOwner, Owns, Owning, BeforeHelpers,
         Present, Absent, Ended
<1>6. InventoryCovers'
  BY DEF NothingEarly, InventoryCovers, BeforeHelpers, Present, Ended
<1>7. QED
  BY <1>1, <1>2, <1>3, <1>4, <1>5, <1>6

(* The FAILED event of reclaim_orphans preserves the invariant. *)
LEMMA ReclaimFailKeeps ==
    ASSUME ArenaInv, ReclaimFail
    PROVE  ArenaInv'
<1> USE DeliveryAssumption, AttemptAssumption, BoundsAssumption, TransitionFacts
<1> USE DEF ArenaInv, TypeOK, ReclaimFail, LockFree, CanAppend, Append, durable, scheduler,
            worker, docker
<1>1. TypeOK'
  BY DEF State, Step, Owning, Ended, Absent, Started, Terminal
<1>2. Requested'
  BY DEF Requested, Step, Owning, Ended
<1>3. NothingEarly'
  BY DEF NothingEarly, BeforeHelpers, Present, Ended
<1>4. LogAhead'
  BY DEF Requested, NothingEarly, LogAhead, SoleOwner, Owns, Owning, Launched,
         BeforeHelpers, Present, State, Absent, Started, Terminal, Ended
<1>5. SoleOwner'
  BY DEF Requested, NothingEarly, LogAhead, SoleOwner, Owns, Owning, BeforeHelpers,
         Present, Absent, Ended
<1>6. InventoryCovers'
  BY DEF NothingEarly, InventoryCovers, BeforeHelpers, Present, Ended
<1>7. QED
  BY <1>1, <1>2, <1>3, <1>4, <1>5, <1>6

(* A crash preserves the invariant. *)
LEMMA CrashKeeps ==
    ASSUME ArenaInv, Crash
    PROVE  ArenaInv'
<1> USE DeliveryAssumption, AttemptAssumption, BoundsAssumption, TransitionFacts
<1> USE DEF ArenaInv, TypeOK, Crash, durable
<1>1. TypeOK'
  <2>1. /\ lease' \in [Delivery -> {"none", "active", "expired"}]
        /\ byKey' \in [Attempt -> Delivery \cup {None}]
        /\ leaseBy' \in [Attempt -> Delivery \cup {None}]
    BY DEF Present
  <2>2. /\ lock' \in Attempt \cup {None}
        /\ reclaim' \in [todo : SUBSET Delivery, at : Delivery \cup {None}]
        /\ recover' \in SUBSET Attempt
    BY DEF Present
  <2>3. /\ of' \in [Delivery -> Attempt \cup {None}]
        /\ pc' \in [Delivery -> Step]
        /\ beat' \in [Delivery -> {"off", "on", "lost"}]
    BY DEF Step, Owning, Ended
  <2>4. asked' \in [Attempt -> BOOLEAN]
    BY DEF Present
  <2>5. snap' \in [Delivery -> SUBSET Delivery]
    BY DEF Present
  <2>6. crashes' \in 0..MaxCrashes
    BY DEF Present
  <2>7. QED
    BY <2>1, <2>2, <2>3, <2>4, <2>5, <2>6
<1>2. Requested'
  BY DEF Requested, Step, Owning, Ended
<1>3. NothingEarly'
  BY <1>1 DEF NothingEarly, BeforeHelpers, Present, Ended
<1>4. LogAhead'
  BY DEF Requested, NothingEarly, LogAhead, SoleOwner, Owns, Owning, Launched,
         BeforeHelpers, Present, State, Absent, Started, Terminal, Ended
<1>5. SoleOwner'
  BY DEF Requested, NothingEarly, LogAhead, SoleOwner, Owns, Owning, BeforeHelpers,
         Present, Absent, Ended
<1>6. InventoryCovers'
  BY DEF NothingEarly, InventoryCovers, BeforeHelpers, Present, Ended
<1>7. QED
  BY <1>1, <1>2, <1>3, <1>4, <1>5, <1>6

(* A restart preserves the invariant. *)
LEMMA RestartKeeps ==
    ASSUME ArenaInv, Restart
    PROVE  ArenaInv'
<1> USE DeliveryAssumption, AttemptAssumption, BoundsAssumption, TransitionFacts
<1> USE DEF ArenaInv, TypeOK, Restart, durable, scheduler, worker, docker
<1>1. TypeOK'
  BY DEF State, Step, Owning, Ended, Absent, Started, Terminal
<1>2. Requested'
  BY DEF Requested, Step, Owning, Ended
<1>3. NothingEarly'
  BY DEF NothingEarly, BeforeHelpers, Present, Ended
<1>4. LogAhead'
  BY DEF Requested, NothingEarly, LogAhead, SoleOwner, Owns, Owning, Launched,
         BeforeHelpers, Present, State, Absent, Started, Terminal, Ended
<1>5. SoleOwner'
  BY DEF Requested, NothingEarly, LogAhead, SoleOwner, Owns, Owning, BeforeHelpers,
         Present, Absent, Ended
<1>6. InventoryCovers'
  BY DEF NothingEarly, InventoryCovers, BeforeHelpers, Present, Ended
<1>7. QED
  BY <1>1, <1>2, <1>3, <1>4, <1>5, <1>6

-----------------------------------------------------------------------------
(* Doing nothing preserves the invariant. *)
LEMMA StutterKeeps ==
    ASSUME ArenaInv, UNCHANGED vars
    PROVE  ArenaInv'
<1> USE DEF ArenaInv, vars, durable, scheduler, control, worker, docker
<1>1. TypeOK'
  BY DEF TypeOK
<1>2. Requested' /\ NothingEarly'
  BY DEF Requested, NothingEarly, Present
<1>3. LogAhead' /\ SoleOwner'
  BY DEF LogAhead, SoleOwner, Owns
<1>4. InventoryCovers'
  BY DEF InventoryCovers, Present
<1>5. QED
  BY <1>1, <1>2, <1>3, <1>4

(* The invariant is inductive: one case per action of the process. *)
LEMMA ArenaStep == ArenaInv /\ [Next]_vars => ArenaInv'
<1> DEFINE Goal == ArenaInv'
<1> SUFFICES ASSUME ArenaInv, [Next]_vars PROVE Goal
  OBVIOUS
<1> HIDE DEF Goal
<1>0. ASSUME UNCHANGED vars PROVE Goal
  BY <1>0, StutterKeeps DEF Goal
<1>1. ASSUME NEW b \in Attempt, Propose(b) PROVE Goal
  BY <1>1, ProposeKeeps DEF Goal
<1>2. ASSUME NEW b \in Attempt, CancelStop(b) PROVE Goal
  BY <1>2, CancelStopKeeps DEF Goal
<1>3. ASSUME NEW b \in Attempt, CancelStopFails(b) PROVE Goal
  BY <1>3, CancelStopFailsKeeps DEF Goal
<1>4. ASSUME NEW b \in Attempt, CancelRecord(b) PROVE Goal
  BY <1>4, CancelRecordKeeps DEF Goal
<1>5. ASSUME NEW b \in Attempt, RecoverOne(b) PROVE Goal
  BY <1>5, RecoverOneKeeps DEF Goal
<1>6. ASSUME NEW c \in Delivery, NEW b \in Attempt, ReadState(c, b) PROVE Goal
  BY <1>6, ReadStateKeeps DEF Goal
<1>7. ASSUME NEW c \in Delivery, AdmitDuplicate(c) PROVE Goal
  BY <1>7, AdmitDuplicateKeeps DEF Goal
<1>8. ASSUME NEW c \in Delivery, AdmitFull(c) PROVE Goal
  BY <1>8, AdmitFullKeeps DEF Goal
<1>9. ASSUME NEW c \in Delivery, Admit(c) PROVE Goal
  BY <1>9, AdmitKeeps DEF Goal
<1>10. ASSUME NEW c \in Delivery, GiveBack(c) PROVE Goal
  BY <1>10, GiveBackKeeps DEF Goal
<1>11. ASSUME NEW c \in Delivery, RecordAdmission(c) PROVE Goal
  BY <1>11, RecordAdmissionKeeps DEF Goal
<1>12. ASSUME NEW c \in Delivery, BeginHeartbeat(c) PROVE Goal
  BY <1>12, BeginHeartbeatKeeps DEF Goal
<1>13. ASSUME NEW c \in Delivery, Prepare(c) PROVE Goal
  BY <1>13, PrepareKeeps DEF Goal
<1>14. ASSUME NEW c \in Delivery, Abort(c) PROVE Goal
  BY <1>14, AbortKeeps DEF Goal
<1>15. ASSUME NEW c \in Delivery, LaunchRefused(c) PROVE Goal
  BY <1>15, LaunchRefusedKeeps DEF Goal
<1>16. ASSUME NEW c \in Delivery, TakeInventory(c) PROVE Goal
  BY <1>16, TakeInventoryKeeps DEF Goal
<1>17. ASSUME NEW c \in Delivery, Reconcile(c) PROVE Goal
  BY <1>17, ReconcileKeeps DEF Goal
<1>18. ASSUME NEW c \in Delivery, ReconcileFails(c) PROVE Goal
  BY <1>18, ReconcileFailsKeeps DEF Goal
<1>19. ASSUME NEW c \in Delivery, StartHelpers(c) PROVE Goal
  BY <1>19, StartHelpersKeeps DEF Goal
<1>20. ASSUME NEW c \in Delivery, Spawn(c) PROVE Goal
  BY <1>20, SpawnKeeps DEF Goal
<1>21. ASSUME NEW c \in Delivery, WaitReturns(c) PROVE Goal
  BY <1>21, WaitReturnsKeeps DEF Goal
<1>22. ASSUME NEW c \in Delivery, StopOwn(c) PROVE Goal
  BY <1>22, StopOwnKeeps DEF Goal
<1>23. ASSUME NEW c \in Delivery, Leave(c) PROVE Goal
  BY <1>23, LeaveKeeps DEF Goal
<1>24. ASSUME NEW c \in Delivery, CollectFails(c) PROVE Goal
  BY <1>24, CollectFailsKeeps DEF Goal
<1>25. ASSUME NEW c \in Delivery, CheckCancelled(c) PROVE Goal
  BY <1>25, CheckCancelledKeeps DEF Goal
<1>26. ASSUME NEW c \in Delivery, Finish(c) PROVE Goal
  BY <1>26, FinishKeeps DEF Goal
<1>27. ASSUME NEW c \in Delivery, FinishRelease(c) PROVE Goal
  BY <1>27, FinishReleaseKeeps DEF Goal
<1>28. ASSUME NEW c \in Delivery, Expire(c) PROVE Goal
  BY <1>28, ExpireKeeps DEF Goal
<1>29. ASSUME NEW c \in Delivery, HeartbeatLost(c) PROVE Goal
  BY <1>29, HeartbeatLostKeeps DEF Goal
<1>30. ASSUME NEW c \in Delivery, ReclaimRead(c) PROVE Goal
  BY <1>30, ReclaimReadKeeps DEF Goal
<1>31. ASSUME NEW c \in Delivery, WorkerExits(c) PROVE Goal
  BY <1>31, WorkerExitsKeeps DEF Goal
<1>32. ASSUME NEW c \in Delivery, GrowOld(c) PROVE Goal
  BY <1>32, GrowOldKeeps DEF Goal
<1>33. ASSUME ReclaimTake PROVE Goal
  BY <1>33, ReclaimTakeKeeps DEF Goal
<1>34. ASSUME ReclaimFail PROVE Goal
  BY <1>34, ReclaimFailKeeps DEF Goal
<1>35. ASSUME Crash PROVE Goal
  BY <1>35, CrashKeeps DEF Goal
<1>36. ASSUME Restart PROVE Goal
  BY <1>36, RestartKeeps DEF Goal
<1>37. QED
  BY <1>0, <1>1, <1>2, <1>3, <1>4, <1>5, <1>6, <1>7, <1>8, <1>9, <1>10, <1>11,
     <1>12, <1>13, <1>14, <1>15, <1>16, <1>17, <1>18, <1>19, <1>20, <1>21,
     <1>22, <1>23, <1>24, <1>25, <1>26, <1>27, <1>28, <1>29, <1>30, <1>31,
     <1>32, <1>33, <1>34, <1>35, <1>36 DEF Next, Execute

(* The invariant holds in every reachable state. *)
LEMMA ArenaInvariant == Spec => []ArenaInv
BY ArenaInit, ArenaStep, PTL DEF Spec

(* Every variable of controller, scheduler, runners and host keeps its type,
   whatever the interleaving of deliveries, cancellations and crashes. *)
THEOREM ArenaTypeCorrect == Spec => []TypeOK
<1>1. ArenaInv => TypeOK
  BY DEF ArenaInv
<1>2. QED
  BY <1>1, ArenaInvariant, PTL

(* However often an attempt is delivered, and whatever expires or crashes in
   between, one delivery of it at most ever creates Docker resources: the
   ADMITTED event is appended under the lock, from "proposed" only. *)
THEOREM OneLaunchPerAttempt == Spec => []AtMostOneLaunch
<1>1. ArenaInv => AtMostOneLaunch
  BY DEF ArenaInv, SoleOwner, Owns, AtMostOneLaunch
<1>2. QED
  BY <1>1, ArenaInvariant, PTL

(* A call of execute that fails its preparation, or that launches and collects
   its logs, never ends before its attempt has a terminal event. *)
THEOREM EndedRunsAreTerminal == Spec => []EndedIsTerminal
<1>1. ArenaInv => EndedIsTerminal
  BY DEF ArenaInv, LogAhead, EndedIsTerminal
<1>2. QED
  BY <1>1, ArenaInvariant, PTL

(* While a cancellation holds the lock, no other action writes an event of its
   attempt. *)
LEMMA CancelStepWins ==
    ASSUME TypeOK, Next, NEW a \in Attempt, lock = a
    PROVE  state'[a] # state[a] => state'[a] = "cancelled"
<1> USE AttemptAssumption
<1> DEFINE Goal == state'[a] # state[a] => state'[a] = "cancelled"
<1>1. ASSUME NEW b \in Attempt, Propose(b) PROVE Goal
  BY <1>1 DEF Propose, LockFree
<1>2. ASSUME NEW b \in Attempt, CancelStop(b) PROVE Goal
  BY <1>2 DEF CancelStop, LockFree
<1>3. ASSUME NEW b \in Attempt, CancelStopFails(b) PROVE Goal
  BY <1>3 DEF CancelStopFails, LockFree
<1>4. ASSUME NEW b \in Attempt, CancelRecord(b) PROVE Goal
  BY <1>4 DEF CancelRecord, Append, durable, TypeOK
<1>5. ASSUME NEW b \in Attempt, RecoverOne(b) PROVE Goal
  BY <1>5 DEF RecoverOne, LockFree
<1>6. ASSUME NEW c \in Delivery, NEW b \in Attempt, ReadState(c, b) PROVE Goal
  BY <1>6 DEF ReadState, LockFree
<1>7. ASSUME NEW c \in Delivery, AdmitDuplicate(c) PROVE Goal
  BY <1>7 DEF AdmitDuplicate, durable
<1>8. ASSUME NEW c \in Delivery, AdmitFull(c) PROVE Goal
  BY <1>8 DEF AdmitFull, durable
<1>9. ASSUME NEW c \in Delivery, Admit(c) PROVE Goal
  BY <1>9 DEF Admit, durable
<1>10. ASSUME NEW c \in Delivery, GiveBack(c) PROVE Goal
  BY <1>10 DEF GiveBack, durable
<1>11. ASSUME NEW c \in Delivery, RecordAdmission(c) PROVE Goal
  BY <1>11 DEF RecordAdmission, LockFree
<1>12. ASSUME NEW c \in Delivery, BeginHeartbeat(c) PROVE Goal
  BY <1>12 DEF BeginHeartbeat, durable
<1>13. ASSUME NEW c \in Delivery, Prepare(c) PROVE Goal
  BY <1>13 DEF Prepare, LockFree
<1>14. ASSUME NEW c \in Delivery, Abort(c) PROVE Goal
  BY <1>14 DEF Abort, LockFree
<1>15. ASSUME NEW c \in Delivery, LaunchRefused(c) PROVE Goal
  BY <1>15 DEF LaunchRefused, durable
<1>16. ASSUME NEW c \in Delivery, TakeInventory(c) PROVE Goal
  BY <1>16 DEF TakeInventory, durable
<1>17. ASSUME NEW c \in Delivery, Reconcile(c) PROVE Goal
  BY <1>17 DEF Reconcile, durable
<1>18. ASSUME NEW c \in Delivery, ReconcileFails(c) PROVE Goal
  BY <1>18 DEF ReconcileFails, durable
<1>19. ASSUME NEW c \in Delivery, StartHelpers(c) PROVE Goal
  BY <1>19 DEF StartHelpers, durable
<1>20. ASSUME NEW c \in Delivery, Spawn(c) PROVE Goal
  BY <1>20 DEF Spawn, durable
<1>21. ASSUME NEW c \in Delivery, WaitReturns(c) PROVE Goal
  BY <1>21 DEF WaitReturns, durable
<1>22. ASSUME NEW c \in Delivery, StopOwn(c) PROVE Goal
  BY <1>22 DEF StopOwn, durable
<1>23. ASSUME NEW c \in Delivery, Leave(c) PROVE Goal
  BY <1>23 DEF Leave, durable
<1>24. ASSUME NEW c \in Delivery, CollectFails(c) PROVE Goal
  BY <1>24 DEF CollectFails, durable
<1>25. ASSUME NEW c \in Delivery, CheckCancelled(c) PROVE Goal
  BY <1>25 DEF CheckCancelled, LockFree
<1>26. ASSUME NEW c \in Delivery, Finish(c) PROVE Goal
  BY <1>26 DEF Finish, LockFree
<1>27. ASSUME NEW c \in Delivery, FinishRelease(c) PROVE Goal
  BY <1>27 DEF FinishRelease, durable
<1>28. ASSUME NEW c \in Delivery, Expire(c) PROVE Goal
  BY <1>28 DEF Expire, durable
<1>29. ASSUME NEW c \in Delivery, HeartbeatLost(c) PROVE Goal
  BY <1>29 DEF HeartbeatLost, durable
<1>30. ASSUME NEW c \in Delivery, ReclaimRead(c) PROVE Goal
  BY <1>30 DEF ReclaimRead, LockFree
<1>31. ASSUME NEW c \in Delivery, WorkerExits(c) PROVE Goal
  BY <1>31 DEF WorkerExits, durable
<1>32. ASSUME NEW c \in Delivery, GrowOld(c) PROVE Goal
  BY <1>32 DEF GrowOld, durable
<1>33. ASSUME ReclaimTake PROVE Goal
  BY <1>33 DEF ReclaimTake, durable
<1>34. ASSUME ReclaimFail PROVE Goal
  BY <1>34 DEF ReclaimFail, LockFree
<1>35. ASSUME Crash PROVE Goal
  BY <1>35 DEF Crash, durable
<1>36. ASSUME Restart PROVE Goal
  BY <1>36 DEF Restart, durable
<1>37. QED
  BY <1>1, <1>2, <1>3, <1>4, <1>5, <1>6, <1>7, <1>8, <1>9, <1>10, <1>11,
     <1>12, <1>13, <1>14, <1>15, <1>16, <1>17, <1>18, <1>19, <1>20, <1>21,
     <1>22, <1>23, <1>24, <1>25, <1>26, <1>27, <1>28, <1>29, <1>30, <1>31,
     <1>32, <1>33, <1>34, <1>35, <1>36 DEF Next, Execute

(* A cancellation that has begun its stop is not overtaken by the exit of the
   process it kills, by reclaim or by recovery: the next event of the attempt,
   if any, is CANCELLED. *)
THEOREM CancellationIsFinal == Spec => CancellationWins
<1>1. ArenaInv /\ [Next]_vars
        => [\A a \in Attempt :
               lock = a /\ state'[a] # state[a] => state'[a] = "cancelled"]_vars
  BY CancelStepWins DEF ArenaInv
<1>2. QED
  BY <1>1, ArenaInvariant, PTL DEF Spec, CancellationWins

(* Only the pass itself leaves "reconciling" for the launch, and what it
   removes is outside its inventory and past the grace. *)
LEMMA PassStepSpares ==
    ASSUME ArenaInv, Declares, Next, NEW d \in Delivery, NEW e \in Delivery,
           pc[d] = "reconciling", pc'[d] \in {"starting", "leaving"},
           Present(e), box'[e] = "gone"
    PROVE  lease[e] # "active"
<1> USE DEF ArenaInv, TypeOK, Present
<1> DEFINE Goal == lease[e] # "active"
<1>1. ASSUME NEW b \in Attempt, Propose(b) PROVE Goal
  BY <1>1 DEF Propose, worker
<1>2. ASSUME NEW b \in Attempt, CancelStop(b) PROVE Goal
  BY <1>2 DEF CancelStop, worker
<1>3. ASSUME NEW b \in Attempt, CancelStopFails(b) PROVE Goal
  BY <1>3 DEF CancelStopFails, worker
<1>4. ASSUME NEW b \in Attempt, CancelRecord(b) PROVE Goal
  BY <1>4 DEF CancelRecord, worker
<1>5. ASSUME NEW b \in Attempt, RecoverOne(b) PROVE Goal
  BY <1>5 DEF RecoverOne, worker
<1>6. ASSUME NEW c \in Delivery, NEW b \in Attempt, ReadState(c, b) PROVE Goal
  BY <1>6 DEF ReadState
<1>7. ASSUME NEW c \in Delivery, AdmitDuplicate(c) PROVE Goal
  BY <1>7 DEF AdmitDuplicate, Goto
<1>8. ASSUME NEW c \in Delivery, AdmitFull(c) PROVE Goal
  BY <1>8 DEF AdmitFull, Goto
<1>9. ASSUME NEW c \in Delivery, Admit(c) PROVE Goal
  BY <1>9 DEF Admit, Goto
<1>10. ASSUME NEW c \in Delivery, GiveBack(c) PROVE Goal
  BY <1>10 DEF GiveBack, Goto
<1>11. ASSUME NEW c \in Delivery, RecordAdmission(c) PROVE Goal
  BY <1>11 DEF RecordAdmission, Goto
<1>12. ASSUME NEW c \in Delivery, BeginHeartbeat(c) PROVE Goal
  BY <1>12 DEF BeginHeartbeat, Goto
<1>13. ASSUME NEW c \in Delivery, Prepare(c) PROVE Goal
  BY <1>13 DEF Prepare, Goto
<1>14. ASSUME NEW c \in Delivery, Abort(c) PROVE Goal
  BY <1>14 DEF Abort, Goto
<1>15. ASSUME NEW c \in Delivery, LaunchRefused(c) PROVE Goal
  BY <1>15 DEF LaunchRefused, Goto
<1>16. ASSUME NEW c \in Delivery, TakeInventory(c) PROVE Goal
  BY <1>16 DEF TakeInventory, Goto
<1>17. ASSUME NEW c \in Delivery, Reconcile(c) PROVE Goal
  BY <1>17 DEF Reconcile, Remove, Orphans, Goto, InventoryCovers
<1>18. ASSUME NEW c \in Delivery, ReconcileFails(c) PROVE Goal
  BY <1>18 DEF ReconcileFails, Remove, Orphans, Goto, InventoryCovers
<1>19. ASSUME NEW c \in Delivery, StartHelpers(c) PROVE Goal
  BY <1>19 DEF StartHelpers, Goto
<1>20. ASSUME NEW c \in Delivery, Spawn(c) PROVE Goal
  BY <1>20 DEF Spawn, Goto
<1>21. ASSUME NEW c \in Delivery, WaitReturns(c) PROVE Goal
  BY <1>21 DEF WaitReturns, Goto
<1>22. ASSUME NEW c \in Delivery, StopOwn(c) PROVE Goal
  BY <1>22 DEF StopOwn, Goto
<1>23. ASSUME NEW c \in Delivery, Leave(c) PROVE Goal
  BY <1>23 DEF Leave, Goto
<1>24. ASSUME NEW c \in Delivery, CollectFails(c) PROVE Goal
  BY <1>24 DEF CollectFails, Goto
<1>25. ASSUME NEW c \in Delivery, CheckCancelled(c) PROVE Goal
  BY <1>25 DEF CheckCancelled, Goto
<1>26. ASSUME NEW c \in Delivery, Finish(c) PROVE Goal
  BY <1>26 DEF Finish, Goto
<1>27. ASSUME NEW c \in Delivery, FinishRelease(c) PROVE Goal
  BY <1>27 DEF FinishRelease, Goto
<1>28. ASSUME NEW c \in Delivery, Expire(c) PROVE Goal
  BY <1>28 DEF Expire, worker
<1>29. ASSUME NEW c \in Delivery, HeartbeatLost(c) PROVE Goal
  BY <1>29 DEF HeartbeatLost, worker
<1>30. ASSUME NEW c \in Delivery, ReclaimRead(c) PROVE Goal
  BY <1>30 DEF ReclaimRead, worker
<1>31. ASSUME NEW c \in Delivery, WorkerExits(c) PROVE Goal
  BY <1>31 DEF WorkerExits, worker
<1>32. ASSUME NEW c \in Delivery, GrowOld(c) PROVE Goal
  BY <1>32 DEF GrowOld, worker
<1>33. ASSUME ReclaimTake PROVE Goal
  BY <1>33 DEF ReclaimTake, worker
<1>34. ASSUME ReclaimFail PROVE Goal
  BY <1>34 DEF ReclaimFail, worker
<1>35. ASSUME Crash PROVE Goal
  BY <1>35 DEF Crash, Ended, Owning
<1>36. ASSUME Restart PROVE Goal
  BY <1>36 DEF Restart, worker
<1>37. QED
  BY <1>1, <1>2, <1>3, <1>4, <1>5, <1>6, <1>7, <1>8, <1>9, <1>10, <1>11,
     <1>12, <1>13, <1>14, <1>15, <1>16, <1>17, <1>18, <1>19, <1>20, <1>21,
     <1>22, <1>23, <1>24, <1>25, <1>26, <1>27, <1>28, <1>29, <1>30, <1>31,
     <1>32, <1>33, <1>34, <1>35, <1>36 DEF Next, Execute

(* With the lease inventory wired in, no launch's reconciliation removes a
   sandbox of a run whose lease is active, although leases are granted and
   containers started while the pass is under way: whatever appears after the
   inventory is younger than the grace. *)
THEOREM LiveRunsAreSpared == Declares => (Spec => LiveRunsSpared)
<1> DEFINE A == \A d, e \in Delivery :
                    /\ pc[d] = "reconciling" /\ pc'[d] \in {"starting", "leaving"}
                    /\ Present(e) /\ box'[e] = "gone"
                    => lease[e] # "active"
<1>1. Declares /\ ArenaInv /\ [Next]_vars => [A]_vars
  BY PassStepSpares
<1> HIDE DEF A
<1>2. Declares => [](Declares)
  <2>1. Declares => Declares'
    OBVIOUS
  <2>2. QED
    BY <2>1, PTL
<1>3. QED
  BY <1>1, <1>2, ArenaInvariant, PTL DEF Spec, LiveRunsSpared, A

(* Only the grant of the scheduler makes a lease active. *)
LEMMA LeasesOnlyShrink ==
    ASSUME TypeOK, Next
    PROVE  \/ ActiveLeases' \subseteq ActiveLeases
           \/ Fits /\ \E c \in Delivery : ActiveLeases' = ActiveLeases \cup {c}
<1> USE DEF TypeOK, ActiveLeases
<1> DEFINE Grows == Fits /\ \E c \in Delivery : ActiveLeases' = ActiveLeases \cup {c}
<1> DEFINE Goal == ActiveLeases' \subseteq ActiveLeases \/ Grows
<1>1. ASSUME NEW b \in Attempt, Propose(b) PROVE Goal
  BY <1>1 DEF Propose, scheduler
<1>2. ASSUME NEW b \in Attempt, CancelStop(b) PROVE Goal
  BY <1>2 DEF CancelStop, scheduler
<1>3. ASSUME NEW b \in Attempt, CancelStopFails(b) PROVE Goal
  BY <1>3 DEF CancelStopFails, scheduler
<1>4. ASSUME NEW b \in Attempt, CancelRecord(b) PROVE Goal
  BY <1>4 DEF CancelRecord, Release, ReleaseLease, scheduler
<1>5. ASSUME NEW b \in Attempt, RecoverOne(b) PROVE Goal
  BY <1>5 DEF RecoverOne, scheduler
<1>6. ASSUME NEW c \in Delivery, NEW b \in Attempt, ReadState(c, b) PROVE Goal
  BY <1>6 DEF ReadState, scheduler
<1>7. ASSUME NEW c \in Delivery, AdmitDuplicate(c) PROVE Goal
  BY <1>7 DEF AdmitDuplicate, scheduler
<1>8. ASSUME NEW c \in Delivery, AdmitFull(c) PROVE Goal
  BY <1>8 DEF AdmitFull, scheduler
<1>9. ASSUME NEW c \in Delivery, Admit(c) PROVE Goal
  BY <1>9 DEF Admit
<1>10. ASSUME NEW c \in Delivery, GiveBack(c) PROVE Goal
  BY <1>10 DEF GiveBack, ReleaseLease, Goto
<1>11. ASSUME NEW c \in Delivery, RecordAdmission(c) PROVE Goal
  BY <1>11 DEF RecordAdmission, scheduler
<1>12. ASSUME NEW c \in Delivery, BeginHeartbeat(c) PROVE Goal
  BY <1>12 DEF BeginHeartbeat, scheduler
<1>13. ASSUME NEW c \in Delivery, Prepare(c) PROVE Goal
  BY <1>13 DEF Prepare, scheduler
<1>14. ASSUME NEW c \in Delivery, Abort(c) PROVE Goal
  BY <1>14 DEF Abort, Release, ReleaseLease, scheduler
<1>15. ASSUME NEW c \in Delivery, LaunchRefused(c) PROVE Goal
  BY <1>15 DEF LaunchRefused, scheduler
<1>16. ASSUME NEW c \in Delivery, TakeInventory(c) PROVE Goal
  BY <1>16 DEF TakeInventory, scheduler
<1>17. ASSUME NEW c \in Delivery, Reconcile(c) PROVE Goal
  BY <1>17 DEF Reconcile, scheduler
<1>18. ASSUME NEW c \in Delivery, ReconcileFails(c) PROVE Goal
  BY <1>18 DEF ReconcileFails, scheduler
<1>19. ASSUME NEW c \in Delivery, StartHelpers(c) PROVE Goal
  BY <1>19 DEF StartHelpers, scheduler
<1>20. ASSUME NEW c \in Delivery, Spawn(c) PROVE Goal
  BY <1>20 DEF Spawn, scheduler
<1>21. ASSUME NEW c \in Delivery, WaitReturns(c) PROVE Goal
  BY <1>21 DEF WaitReturns, scheduler
<1>22. ASSUME NEW c \in Delivery, StopOwn(c) PROVE Goal
  BY <1>22 DEF StopOwn, scheduler
<1>23. ASSUME NEW c \in Delivery, Leave(c) PROVE Goal
  BY <1>23 DEF Leave, scheduler
<1>24. ASSUME NEW c \in Delivery, CollectFails(c) PROVE Goal
  BY <1>24 DEF CollectFails, scheduler
<1>25. ASSUME NEW c \in Delivery, CheckCancelled(c) PROVE Goal
  BY <1>25 DEF CheckCancelled, scheduler
<1>26. ASSUME NEW c \in Delivery, Finish(c) PROVE Goal
  BY <1>26 DEF Finish, scheduler
<1>27. ASSUME NEW c \in Delivery, FinishRelease(c) PROVE Goal
  BY <1>27 DEF FinishRelease, Release, ReleaseLease, scheduler
<1>28. ASSUME NEW c \in Delivery, Expire(c) PROVE Goal
  BY <1>28 DEF Expire, scheduler
<1>29. ASSUME NEW c \in Delivery, HeartbeatLost(c) PROVE Goal
  BY <1>29 DEF HeartbeatLost, scheduler
<1>30. ASSUME NEW c \in Delivery, ReclaimRead(c) PROVE Goal
  BY <1>30 DEF ReclaimRead, scheduler
<1>31. ASSUME NEW c \in Delivery, WorkerExits(c) PROVE Goal
  BY <1>31 DEF WorkerExits, scheduler
<1>32. ASSUME NEW c \in Delivery, GrowOld(c) PROVE Goal
  BY <1>32 DEF GrowOld, scheduler
<1>33. ASSUME ReclaimTake PROVE Goal
  BY <1>33 DEF ReclaimTake, scheduler
<1>34. ASSUME ReclaimFail PROVE Goal
  BY <1>34 DEF ReclaimFail, scheduler
<1>35. ASSUME Crash PROVE Goal
  BY <1>35 DEF Crash, scheduler
<1>36. ASSUME Restart PROVE Goal
  BY <1>36 DEF Restart, scheduler
<1>37. QED
  BY <1>1, <1>2, <1>3, <1>4, <1>5, <1>6, <1>7, <1>8, <1>9, <1>10, <1>11,
     <1>12, <1>13, <1>14, <1>15, <1>16, <1>17, <1>18, <1>19, <1>20, <1>21,
     <1>22, <1>23, <1>24, <1>25, <1>26, <1>27, <1>28, <1>29, <1>30, <1>31,
     <1>32, <1>33, <1>34, <1>35, <1>36 DEF Next, Execute

(* The scheduler never has more active leases than slots: expiry, release,
   reclaim and crashes only return slots, and admit counts before it grants. *)
THEOREM CapacityIsRespected == Spec => []CapacityRespected
<1>1. IsFiniteSet(ActiveLeases) /\ Cardinality(ActiveLeases) \in Nat
  BY DeliveryAssumption, FS_Subset, FS_CardinalityType DEF ActiveLeases
<1>2. Init => CapacityRespected
  <2> SUFFICES ASSUME Init PROVE CapacityRespected
    OBVIOUS
  <2>1. ActiveLeases = {}
    BY DEF Init, ActiveLeases
  <2>2. QED
    BY <2>1, FS_EmptySet, BoundsAssumption DEF CapacityRespected
<1>3. ASSUME ArenaInv, CapacityRespected, [Next]_vars
      PROVE  CapacityRespected'
  <2>1. CASE UNCHANGED vars
    BY <1>3, <2>1 DEF CapacityRespected, ActiveLeases, vars, scheduler
  <2>2. CASE Next
    <3>1. CASE ActiveLeases' \subseteq ActiveLeases
      <4>1. Cardinality(ActiveLeases') <= Cardinality(ActiveLeases)
            /\ Cardinality(ActiveLeases') \in Nat
        BY <1>1, <3>1, FS_Subset, FS_CardinalityType
      <4>2. QED
        BY <1>1, <1>3, <4>1, BoundsAssumption DEF CapacityRespected
    <3>2. CASE Fits /\ \E c \in Delivery : ActiveLeases' = ActiveLeases \cup {c}
      <4>1. PICK c \in Delivery : ActiveLeases' = ActiveLeases \cup {c}
        BY <3>2
      <4>2. Cardinality(ActiveLeases \cup {c}) <= Cardinality(ActiveLeases) + 1
        BY <1>1, FS_AddElement
      <4>3. Cardinality(ActiveLeases \cup {c}) \in Nat
        BY <1>1, FS_AddElement, FS_CardinalityType
      <4>4. QED
        BY <1>1, <3>2, <4>1, <4>2, <4>3, BoundsAssumption DEF CapacityRespected, Fits
    <3>3. QED
      BY <1>3, <2>2, <3>1, <3>2, LeasesOnlyShrink DEF ArenaInv
  <2>3. QED
    BY <1>3, <2>1, <2>2
<1>4. QED
  BY <1>2, <1>3, ArenaInvariant, PTL DEF Spec

=============================================================================
