-------------------------------- MODULE SwarmRun --------------------------------
(***************************************************************************)
(* One run of TrustedSwarmOrchestrator (arena/swarm_orchestrator.py) with   *)
(* the threads it shares state with: the worker threads of                  *)
(* PiSwarmWorkerRuntime.execute (arena/swarm_pi.py) and the Atlas owner     *)
(* that cancels workers (arena/atlas_control.py).  Of the scheduler it      *)
(* keeps what the run depends on: the state of each lease, whether a stop   *)
(* is owed, and whether its time is up; SwarmControl models the scheduler   *)
(* itself.  A method of the scheduler and a step under the runtime's lock   *)
(* are atomic; everything between them interleaves.                         *)
(***************************************************************************)
EXTENDS SwarmGate

CONSTANTS
    Raws,            \* [Contract -> SUBSET Raw]: the raw outcomes Pi may end with
    Attestations,    \* the verifier's answers, as functions of the evidence: see Attest
    CanHang,         \* contracts whose worker may never return
    MaxCancels       \* bound on Atlas commands

ASSUME RunAssumption == Raws \in [Contract -> SUBSET Raw] /\ CanHang \subseteq Contract

VARIABLES
    pc,              \* the orchestrator: the step of run() / _run_phase() it is at
    phase,           \* index of the current phase
    queue,           \* contracts of the phase still to be admitted
    pending, done, late,   \* the futures of the phase loop
    toStop,          \* leases the loop or the final sweep has still to stop
    results,         \* results by contract
    receipts,        \* receipts by contract
    failures,        \* kinds of failure recorded
    decision,        \* the CompletionDecision [authorized, attestation], None before the gate
    lease,           \* scheduler: state of the lease of each contract
    owed,            \* scheduler: leases with stop_required
    due,             \* leases whose deadline or heartbeat has run out
    closed,          \* scheduler: _cancelled
    over,            \* leases with overage_dimensions
    stage,           \* where each worker thread is
    draft,           \* the result a worker is constructing, and its raw outcome
    token,           \* leases whose cancellation token is set
    requested,       \* _stop_requested
    stops,           \* [{"main", "atlas"} -> the stop() call in progress]
    atlas,           \* leases Atlas has still to stop
    cancels,         \* Atlas commands so far
    a2a              \* the A2A journal: event kinds by contract

runVars == <<pc, phase, queue, pending, done, late, toStop, results, receipts, failures, decision>>
leaseVars == <<lease, owed, due, closed, over>>
workerVars == <<stage, draft, token, requested>>
atlasVars == <<atlas, cancels>>
vars == <<runVars, leaseVars, workerVars, stops, atlasVars, a2a>>

-----------------------------------------------------------------------------
(* The scheduler, as the run sees it. *)

Active(ls) == {c \in Contract : ls[c] = "active"}

Ended(S, state) == [c \in Contract |-> IF c \in S /\ lease[c] = "active" THEN state ELSE lease[c]]

(* _expire_locked(), which admit(), complete() and reap_timeouts() run first. *)
Expired == due \cap Active(lease)
ExpiredLeases == Ended(due, "timed_out")

(* cancel_worker() / cancel_team() *)
Cancel(S) ==
    /\ lease' = Ended(S, "cancelled")
    /\ owed' = owed \cup (S \cap Active(lease))

(* A deadline passes, or a heartbeat is missed while the loop is blocked. *)
TimeUp(c) ==
    /\ lease[c] = "active"
    /\ c \notin due
    /\ due' = due \cup {c}
    /\ UNCHANGED <<runVars, lease, owed, closed, over, workerVars, stops, atlasVars, a2a>>

-----------------------------------------------------------------------------
(* The worker threads. *)

Running == {"started", "launching", "pi", "observing", "closing", "building", "hung"}
Over == {"returned", "raised", "dropped"}
Busy == {c \in Contract : stage[c] \in Running}

Worker(c, from, to) ==
    /\ stage[c] = from
    /\ stage' = [stage EXCEPT ![c] = to]
    /\ UNCHANGED <<runVars, leaseVars, stops, atlasVars, a2a>>

(* The finally clause of execute(). *)
Leave(c, to) ==
    /\ requested' = requested \ {c}
    /\ stage' = [stage EXCEPT ![c] = to]
    /\ UNCHANGED <<runVars, leaseVars, token, stops, atlasVars, a2a>>

(* execute() registers its activity; a stop asked for earlier cancels it. *)
Start(c) ==
    /\ Worker(c, "queued", "started")
    /\ token' = IF c \in requested THEN token \cup {c} ELSE token
    /\ UNCHANGED <<draft, requested>>

(* The first check of the token, and the runner; the second, and Pi. *)
MakeRunner(c) ==
    /\ c \notin token
    /\ Worker(c, "started", "launching")
    /\ UNCHANGED <<draft, token, requested>>

Launch(c) ==
    /\ c \notin token
    /\ Worker(c, "launching", "pi")
    /\ UNCHANGED <<draft, token, requested>>

(* raise_if_cancelled() raised, or a factory did. *)
Abort(c) ==
    /\ stage[c] \in {"started", "launching"}
    /\ Leave(c, "raised")
    /\ UNCHANGED draft

PiEnds(c, raw) ==
    LET r == Verdict(c, raw)
    IN  /\ Worker(c, "pi", IF r.disp = "completed" /\ Role[c] = "builder"
                             THEN "observing" ELSE "closing")
        /\ draft' = [draft EXCEPT ![c] = [raw |-> raw, result |-> r, seen |-> FALSE]]
        /\ UNCHANGED <<token, requested>>

(* A builder's commit is observed; a cancelled one fails. *)
Observe(c, k) ==
    /\ Worker(c, "observing", "closing")
    /\ draft' = [draft EXCEPT ![c].result =
                    IF c \in token THEN Controlled(c, @) ELSE [@ EXCEPT !.commit = k]]
    /\ UNCHANGED <<token, requested>>

(* execute() looks at the token once more... *)
Close(c) ==
    /\ Worker(c, "closing", "building")
    /\ draft' = [draft EXCEPT ![c].result = IF c \in token THEN Controlled(c, @) ELSE @,
                              ![c].seen = c \in token]
    /\ UNCHANGED <<token, requested>>

(* ... and again for controller_terminal_reason: set in between, the result *)
(* does not validate, and the exception leaves execute().                   *)
Build(c) ==
    /\ stage[c] = "building"
    /\ Leave(c, IF draft[c].seen = (c \in token)
                   /\ (draft[c].seen \/ Constructible(c, draft[c].raw, draft[c].result))
                  THEN "returned" ELSE "raised")
    /\ UNCHANGED draft

Hang(c) ==
    /\ c \in CanHang
    /\ \/ Worker(c, "pi", "hung")
       \/ Worker(c, "observing", "hung")
    /\ UNCHANGED <<draft, token, requested>>

-----------------------------------------------------------------------------
(* stop(), called by the orchestrator and by Atlas. *)

(* Under the lock: remember the request, set the token of a running worker. *)
(* With none running the answer is True at once; else the caller waits.     *)
StopCall(who, c) ==
    /\ stops[who] = None
    /\ requested' = requested \cup {c}
    /\ token' = IF c \in Busy THEN token \cup {c} ELSE token
    /\ stops' = [stops EXCEPT ![who] = [lease |-> c,
                    answer |-> IF c \in Busy THEN "waiting" ELSE "quiet"]]

(* The worker drained, or the drain timeout ran out, or cancel() raised.    *)
StopAnswer(c, ok) == ok => c \notin Busy

StopReturns(who, ok) ==
    /\ stops[who] # None
    /\ stops[who].answer = "waiting"
    /\ StopAnswer(stops[who].lease, ok)
    /\ stops' = [stops EXCEPT ![who].answer = IF ok THEN "quiet" ELSE "unquiet"]
    /\ UNCHANGED <<runVars, leaseVars, workerVars, atlasVars, a2a>>

Answered(who) == stops[who] # None /\ stops[who].answer # "waiting"

-----------------------------------------------------------------------------
(* Atlas. *)

AtlasCancel(S) ==
    /\ cancels < MaxCancels
    /\ atlas = {}
    /\ stops["atlas"] = None
    /\ cancels' = cancels + 1
    /\ Cancel(S)
    /\ atlas' = S \cap Active(lease)
    /\ UNCHANGED <<runVars, due, over, workerVars, stops, a2a>>

AtlasCancelWorker(c) ==
    /\ lease[c] = "active"
    /\ closed' = closed
    /\ AtlasCancel({c})

AtlasCancelTeam ==
    /\ ~closed
    /\ closed' = TRUE
    /\ AtlasCancel(Contract)

AtlasStop(c) ==
    /\ c \in atlas
    /\ StopCall("atlas", c)
    /\ UNCHANGED <<runVars, leaseVars, stage, draft, atlasVars, a2a>>

AtlasAcknowledge ==
    /\ Answered("atlas")
    /\ owed' = IF stops["atlas"].answer = "quiet" THEN owed \ {stops["atlas"].lease} ELSE owed
    /\ atlas' = atlas \ {stops["atlas"].lease}
    /\ stops' = [stops EXCEPT !["atlas"] = None]
    /\ UNCHANGED <<runVars, lease, due, closed, over, workerVars, cancels, a2a>>

-----------------------------------------------------------------------------
(* run(): binding and admission of a phase. *)

Fail(kinds) == failures' = failures \cup kinds

(* pool.shutdown(cancel_futures): a thread that never started is dropped. *)
ShutDown == [c \in Contract |-> IF stage[c] = "queued" THEN "dropped" ELSE stage[c]]

(* _record_a2a(): the event is on disk, or append() raises outside every    *)
(* handler and run() raises with it, the leases as they are, nothing swept. *)
Journal(c, kind, next) ==
    \/ /\ a2a' = [a2a EXCEPT ![c] = Append(@, kind)]
       /\ pc' = next
       /\ stage' = stage
    \/ /\ a2a' = a2a
       /\ pc' = "raised"
       /\ stage' = ShutDown

(* bind_phase_inputs(), register(), issue_phase_authorization(). *)
BindPhase ==
    /\ pc = "bind"
    /\ IF Bindable(receipts, phase)
         THEN pc' = "admit" /\ queue' = Phases[phase] /\ failures' = failures
         ELSE pc' = "gate" /\ queue' = {} /\ Fail({"lineage"})
    /\ UNCHANGED <<phase, pending, done, late, toStop, results, receipts, decision,
                   leaseVars, workerVars, stops, atlasVars, a2a>>

(* admit() grants the lease and the assignment is journalled; or it answers *)
(* anything else, and the phase ends with the leases already granted.       *)
Admit(c) ==
    /\ pc = "admit"
    /\ c \in queue
    /\ owed' = owed \cup Expired
    /\ \/ /\ ~closed
          /\ lease' = [ExpiredLeases EXCEPT ![c] = "active"]
          /\ queue' = queue \ {c}
          /\ Journal(c, "assignment", "admit")
          /\ failures' = failures
       \/ /\ lease' = ExpiredLeases
          /\ pc' = "gate"
          /\ queue' = {}
          /\ Fail({"admission"})
          /\ UNCHANGED <<a2a, stage>>
    /\ UNCHANGED <<phase, pending, done, late, toStop, results, receipts, decision,
                   due, closed, over, draft, token, requested, stops, atlasVars>>

(* The pool: one thread for each admitted contract. *)
Submit ==
    /\ pc = "admit"
    /\ queue = {}
    /\ pc' = "poll"
    /\ pending' = Phases[phase]
    /\ stage' = [c \in Contract |-> IF c \in Phases[phase] THEN "queued" ELSE stage[c]]
    /\ UNCHANGED <<phase, queue, done, late, toStop, results, receipts, failures, decision,
                   leaseVars, draft, token, requested, stops, atlasVars, a2a>>

-----------------------------------------------------------------------------
(* _run_phase(): the loop. *)

(* wait(), then heartbeats for the leases still pending. *)
Poll ==
    LET finished == {c \in pending : stage[c] \in Over}
    IN  /\ pc = "poll"
        /\ pending # {}
        /\ pc' = "reap"
        /\ done' = finished
        /\ pending' = pending \ finished
        /\ UNCHANGED <<phase, queue, late, toStop, results, receipts, failures, decision,
                       leaseVars, workerVars, stops, atlasVars, a2a>>

(* reap_timeouts(): what it returns is stopped, and its futures are late.   *)
(* Mutant: an expired future stays pending.                                 *)
Reap_KeepsPending ==
    /\ pc = "reap"
    /\ lease' = ExpiredLeases
    /\ owed' = owed \cup Expired
    /\ toStop' = Expired
    /\ failures' = IF Expired = {} THEN failures ELSE failures \cup {"timed_out"}
    /\ pc' = "stopping"
    /\ UNCHANGED <<phase, queue, pending, done, late, results, receipts, decision,
                   due, closed, over, workerVars, stops, atlasVars, a2a>>

Reap ==
    /\ pc = "reap"
    /\ lease' = ExpiredLeases
    /\ owed' = owed \cup Expired
    /\ toStop' = Expired
    /\ late' = late \cup (pending \cap Expired)
    /\ pending' = pending \ Expired
    /\ failures' = IF Expired = {} THEN failures ELSE failures \cup {"timed_out"}
    /\ pc' = "stopping"
    /\ UNCHANGED <<phase, queue, done, results, receipts, decision,
                   due, closed, over, workerVars, stops, atlasVars, a2a>>

(* _stop_and_acknowledge(), for the loop and for the final sweep. *)
MainStop(c) ==
    /\ pc \in {"stopping", "sweep"}
    /\ c \in toStop
    /\ StopCall("main", c)
    /\ UNCHANGED <<runVars, leaseVars, stage, draft, atlasVars, a2a>>

MainAcknowledge ==
    LET c == stops["main"].lease
        quiet == stops["main"].answer = "quiet"
    IN  /\ Answered("main")
        /\ owed' = IF quiet THEN owed \ {c} ELSE owed
        /\ failures' = IF quiet /\ c \in owed THEN failures ELSE failures \cup {"not_quiescent"}
        /\ toStop' = toStop \ {c}
        /\ stops' = [stops EXCEPT !["main"] = None]
        /\ UNCHANGED <<pc, phase, queue, pending, done, late, results, receipts, decision,
                       lease, due, closed, over, workerVars, atlasVars, a2a>>

LoopStopped ==
    /\ pc = "stopping"
    /\ toStop = {}
    /\ stops["main"] = None
    /\ pc' = "settle"
    /\ UNCHANGED <<phase, queue, pending, done, late, toStop, results, receipts, failures,
                   decision, leaseVars, workerVars, stops, atlasVars, a2a>>

(* A done future: observe_terminal_usage(), which ends an active lease that *)
(* overran its budget...                                                    *)
SettleUsage(c, overrun) ==
    /\ pc = "settle"
    /\ c \in done
    /\ stage[c] = "returned"
    /\ over' = IF overrun THEN over \cup {c} ELSE over
    /\ lease' = [lease EXCEPT ![c] = IF overrun /\ @ = "active" THEN "over_budget" ELSE @]
    /\ pc' = "record"
    /\ queue' = {c}
    /\ UNCHANGED <<phase, pending, done, late, toStop, results, receipts, failures, decision,
                   owed, due, closed, workerVars, stops, atlasVars, a2a>>

Recorded(c, r, kinds) ==
    /\ results' = [results EXCEPT ![c] = r]
    /\ Journal(c, "result", "settle")
    /\ Fail(kinds)

Refused ==
    /\ Fail({"exception"})
    /\ pc' = "settle"
    /\ UNCHANGED <<results, a2a, stage>>

(* ... then record_overage_result() for a lease over budget, or complete(): *)
(* accepted only while the lease lives.  What either refuses is a worker    *)
(* exception, and cancel_worker() finds the lease already ended.            *)
SettleResult(c) ==
    /\ pc = "record"
    /\ queue = {c}
    /\ \/ /\ c \in over /\ lease[c] = "over_budget"
          /\ lease' = lease /\ owed' = owed
          /\ Recorded(c, Controlled(c, draft[c].result), {"over_budget"})
       \/ /\ c \in over /\ lease[c] # "over_budget"
          /\ lease' = lease /\ owed' = owed
          /\ Refused
       \/ /\ c \notin over /\ lease[c] = "active" /\ c \notin due
          /\ lease' = [ExpiredLeases EXCEPT ![c] = "finished"]
          /\ owed' = owed \cup Expired
          /\ Recorded(c, draft[c].result, {})
       \/ /\ c \notin over /\ ~(lease[c] = "active" /\ c \notin due)
          /\ lease' = ExpiredLeases
          /\ owed' = owed \cup Expired
          /\ Refused
    /\ queue' = {}
    /\ done' = done \ {c}
    /\ UNCHANGED <<phase, pending, late, toStop, receipts, decision,
                   due, closed, over, draft, token, requested, stops, atlasVars>>

(* A worker that raised: cancel_worker(). *)
SettleException(c) ==
    /\ pc = "settle"
    /\ c \in done
    /\ stage[c] # "returned"
    /\ Cancel({c})
    /\ Fail({"exception"})
    /\ done' = done \ {c}
    /\ UNCHANGED <<pc, phase, queue, pending, late, toStop, results, receipts, decision,
                   due, closed, over, workerVars, stops, atlasVars, a2a>>

(* The end of an iteration. *)
Settled ==
    /\ pc = "settle"
    /\ done = {}
    /\ pc' = IF pending # {} THEN "poll" ELSE "drain"
    /\ UNCHANGED <<phase, queue, pending, done, late, toStop, results, receipts, failures,
                   decision, leaseVars, workerVars, stops, atlasVars, a2a>>

(* Mutant: a late result is kept as the worker gave it. *)
Drain_TrustsLate ==
    LET finished == {c \in late : stage[c] = "returned"}
    IN  /\ pc = "drain"
        /\ late' = {}
        /\ results' = [c \in Contract |->
                          IF c \in finished THEN draft[c].result ELSE results[c]]
        /\ \/ /\ pc' = "check"
              /\ a2a' = [c \in Contract |-> IF c \in finished THEN Append(a2a[c], "result")
                                            ELSE a2a[c]]
           \/ finished # {} /\ pc' = "raised" /\ a2a' = a2a
        /\ failures' = failures \cup (IF \E c \in late : stage[c] \in Running \cup {"queued"}
                                        THEN {"grace_exceeded"} ELSE {})
                                \cup (IF \E c \in late : stage[c] = "raised"
                                        THEN {"late_invalid"} ELSE {})
        /\ stage' = ShutDown
        /\ UNCHANGED <<phase, queue, pending, done, toStop, receipts, decision, leaseVars,
                       draft, token, requested, stops, atlasVars>>

(* _drain_late_futures() after the grace period: what is done by then is    *)
(* kept as a FAILED result in the controller's name; then the pool is shut  *)
(* down and a thread that never started is dropped.                         *)
Drain ==
    LET finished == {c \in late : stage[c] = "returned"}
    IN  /\ pc = "drain"
        /\ late' = {}
        /\ results' = [c \in Contract |->
                          IF c \in finished THEN Controlled(c, draft[c].result) ELSE results[c]]
        /\ \/ /\ pc' = "check"
              /\ a2a' = [c \in Contract |-> IF c \in finished THEN Append(a2a[c], "result")
                                            ELSE a2a[c]]
           \/ finished # {} /\ pc' = "raised" /\ a2a' = a2a
        /\ failures' = failures \cup (IF \E c \in late : stage[c] \in Running \cup {"queued"}
                                        THEN {"grace_exceeded"} ELSE {})
                                \cup (IF \E c \in late : stage[c] = "raised"
                                        THEN {"late_invalid"} ELSE {})
        /\ stage' = ShutDown
        /\ UNCHANGED <<phase, queue, pending, done, toStop, receipts, decision, leaseVars,
                       draft, token, requested, stops, atlasVars>>

-----------------------------------------------------------------------------
(* run(): the end of a phase and of the run. *)

CompletedIn(S) == \A c \in S : results[c] # None /\ results[c].disp = "completed"
ActionableIn(S) ==
    \A c \in S : Role[c] = "scout" /\ results[c] # None => results[c].assess = "actionable"

PhaseFailures(S) ==
    (IF CompletedIn(S) THEN {} ELSE {"not_completed"})
    \cup (IF ActionableIn(S) THEN {} ELSE {"not_actionable"})

(* The disposition and cardinality checks, then record_phase_receipt(). *)
ClosePhase ==
    LET S == Phases[phase]
        bad == failures \cup PhaseFailures(S)
    IN  /\ pc = "check"
        /\ failures' = bad
        /\ receipts' = IF bad # {} THEN receipts
                       ELSE [c \in Contract |-> IF c \in S THEN ReceiptOf(receipts, c, results[c])
                                                ELSE receipts[c]]
        /\ IF bad = {} /\ phase < Len(Phases)
             THEN pc' = "bind" /\ phase' = phase + 1
             ELSE pc' = "gate" /\ phase' = phase
        /\ UNCHANGED <<queue, pending, done, late, toStop, results, decision,
                       leaseVars, workerVars, stops, atlasVars, a2a>>

(* An attestation the verifier gives: about this evidence, or about an      *)
(* older lineage, commit or result.                                         *)
Attest(a) ==
    IF a = None THEN None
    ELSE [by |-> a.by, signed |-> a.signed, verdict |-> a.verdict, criteria |-> a.criteria,
          lineage |-> IF a.stale = "lineage" THEN [c \in Contract |-> None] ELSE receipts,
          subjects |-> IF a.stale = "results" THEN [c \in Contract |-> None] ELSE results,
          final |-> IF a.stale = "commit" THEN Base ELSE FinalCommit(receipts)]

(* attest() only without failures; the gate, whose decision carries the     *)
(* digest of the attestation it accepted; cancel_team() unless it did.      *)
Gate(a) ==
    LET attestation == IF failures = {} THEN Attest(a) ELSE None
        ok == Authorizes(results, receipts, attestation)
    IN  /\ pc = "gate"
        /\ decision' = [authorized |-> ok, attestation |-> IF ok THEN attestation ELSE None]
        /\ IF failures = {} /\ ok
             THEN pc' = "reported" /\ UNCHANGED <<toStop, closed, lease, owed>>
             ELSE /\ pc' = "sweep"
                  /\ closed' = TRUE
                  /\ IF closed THEN UNCHANGED <<lease, owed>> ELSE Cancel(Contract)
                  /\ toStop' = owed'
        /\ UNCHANGED <<phase, queue, pending, done, late, results, receipts, failures,
                       due, over, workerVars, stops, atlasVars, a2a>>

Report ==
    /\ pc = "sweep"
    /\ toStop = {}
    /\ stops["main"] = None
    /\ pc' = "reported"
    /\ UNCHANGED <<phase, queue, pending, done, late, toStop, results, receipts, failures,
                   decision, leaseVars, workerVars, stops, atlasVars, a2a>>

-----------------------------------------------------------------------------

Init ==
    /\ pc = "bind" /\ phase = 1 /\ queue = {}
    /\ pending = {} /\ done = {} /\ late = {} /\ toStop = {}
    /\ results = [c \in Contract |-> None]
    /\ receipts = [c \in Contract |-> None]
    /\ failures = {} /\ decision = None
    /\ lease = [c \in Contract |-> "none"]
    /\ owed = {} /\ due = {} /\ closed = FALSE /\ over = {}
    /\ stage = [c \in Contract |-> "none"]
    /\ draft = [c \in Contract |-> None]
    /\ token = {} /\ requested = {}
    /\ stops = [w \in {"main", "atlas"} |-> None]
    /\ atlas = {} /\ cancels = 0
    /\ a2a = [c \in Contract |-> <<>>]

Orchestrate ==
    \/ BindPhase \/ Submit \/ Poll \/ Reap \/ LoopStopped \/ MainAcknowledge
    \/ Settled \/ Drain \/ ClosePhase \/ Report
    \/ \E c \in Contract : \/ Admit(c) \/ MainStop(c) \/ SettleResult(c) \/ SettleException(c)
                           \/ \E b \in BOOLEAN : SettleUsage(c, b)
    \/ \E a \in Attestations : Gate(a)

WorkerStep(c) ==
    \/ Start(c) \/ MakeRunner(c) \/ Launch(c) \/ Abort(c) \/ Close(c) \/ Build(c)
    \/ \E raw \in Raws[c] : PiEnds(c, raw)
    \/ \E k \in Commit : Observe(c, k)

Next ==
    \/ Orchestrate
    \/ \E c \in Contract : WorkerStep(c) \/ Hang(c) \/ TimeUp(c)
    \/ \E who \in {"main", "atlas"}, ok \in BOOLEAN : StopReturns(who, ok)
    \/ \E c \in Contract : AtlasCancelWorker(c) \/ AtlasStop(c)
    \/ AtlasCancelTeam \/ AtlasAcknowledge

(* The orchestrator and the workers are running threads; stop() has a drain *)
(* timeout, and an active lease has a deadline that passes.                 *)
Fairness ==
    /\ WF_vars(Orchestrate)
    /\ \A c \in Contract : WF_vars(WorkerStep(c)) /\ WF_vars(TimeUp(c))
    /\ WF_vars(\E ok \in BOOLEAN : StopReturns("main", ok))

Spec == Init /\ [][Next]_vars /\ Fairness

-----------------------------------------------------------------------------
(* Properties. *)

TypeOK ==
    /\ pc \in {"bind", "admit", "poll", "reap", "stopping", "settle", "record", "drain",
               "check", "gate", "sweep", "reported", "raised"}
    /\ phase \in DOMAIN Phases
    /\ queue \cup pending \cup done \cup late \cup toStop \subseteq Contract
    /\ results \in [Contract -> Result \cup {None}]
    /\ receipts \in [Contract -> Receipt \cup {None}]
    /\ decision # None => decision.authorized \in BOOLEAN
    /\ lease \in [Contract -> {"none", "active", "finished", "over_budget", "cancelled", "timed_out"}]
    /\ owed \cup due \cup over \cup token \cup requested \cup atlas \subseteq Contract
    /\ stage \in [Contract -> {"none", "queued"} \cup Running \cup Over]

(* The gate's authority, whatever the workers, Atlas and the clock did: an  *)
(* authorized run has every planned worker finished and completed, every    *)
(* scout actionable, the builders' commits chained from the base commit,    *)
(* and no stop owed; and a trusted verifier that is no worker signed for    *)
(* exactly these results, these receipts and the commit the chain ends at,  *)
(* having seen every criterion pass in tests no worker wrote.               *)
AuthorizedMeansComplete ==
    decision # None /\ decision.authorized =>
        LET a == decision.attestation
        IN  /\ \A c \in Contract :
                  /\ lease[c] = "finished"
                  /\ results[c].disp = "completed"
                  /\ results[c].assess \in {None, "actionable"}
                  /\ receipts[c].input = IF Pred(c) = {} THEN Base
                                         ELSE receipts[CHOOSE d \in Pred(c) : TRUE].output
                  /\ (receipts[c].output # receipts[c].input) <=> Role[c] = "builder"
            /\ owed = {}
            /\ a # None /\ a.signed /\ a.verdict = "approved" /\ a.by \in Trusted \ Contract
            /\ a.subjects = results /\ a.lineage = receipts
            /\ \A p \in Terminal : \A c \in Phases[p] : receipts[c].output = a.final
            /\ \A k \in Criteria :
                  /\ a.criteria[k] # None /\ a.criteria[k].passed
                  /\ a.criteria[k].source = "verifier" /\ a.criteria[k].test # "worker_authored"

(* stop_and_acknowledge "only after the runtime proves quiescence": once    *)
(* the stop of a lease is acknowledged, its worker runs Pi no more, even if *)
(* the stop came before its thread started.                                 *)
AcknowledgedIsQuiet ==
    \A c \in Contract :
        lease[c] \in {"cancelled", "timed_out"} /\ c \notin owed =>
            stage[c] \notin {"launching", "pi", "observing", "closing", "building", "hung"}

(* A lease the controller ended never yields a completed result, and a      *)
(* recorded result is the one the lease accepted.                           *)
FinalityOfLease ==
    \A c \in Contract : results[c] # None =>
        /\ lease[c] # "finished" => results[c].disp = "failed"
        /\ results[c].disp = "completed" => lease[c] = "finished"

(* A scout's result is never better than its terminal block: no assessment  *)
(* and no typed finding, no actionable scout.                               *)
ScoutNeverInferred ==
    \A c \in Contract :
        results[c] # None /\ results[c].assess = "actionable" =>
            draft[c].raw.assess = "actionable" /\ draft[c].raw.findings = "typed"

(* What a report leaves behind: every stop still owed, and every worker     *)
(* still running, was reported as not quiescent or beyond its grace.        *)
ReportIsQuiet ==
    pc = "reported" /\ failures \cap {"not_quiescent", "grace_exceeded"} = {} =>
        owed = {} /\ Busy = {} /\ Active(lease) = {}

(* The A2A trajectory of a child is an assignment and at most one result.   *)
Trajectory ==
    \A c \in Contract : a2a[c] \in {<<>>, <<"assignment">>, <<"assignment", "result">>}

(* A hung worker whose lease the controller ended outside reap_timeouts()   *)
(* (by Atlas, or by the expiry in complete() or admit(), which nobody asks  *)
(* to stop): nothing takes its future out of the loop.                      *)
Stuck ==
    \E c \in pending :
        /\ stage[c] = "hung"
        /\ lease[c] = "cancelled" \/ (lease[c] = "timed_out" /\ c \notin token)

(* A run always reports, also with workers that never return, except in     *)
(* that case (and when the journal cannot be written, and it raises).       *)
RunReports == <>(pc \in {"reported", "raised"} \/ Stuck)

(* Workers, Atlas, clock and orchestrator in any order: an acknowledged     *)
(* stop is a quiet worker, a result agrees with the end of its lease, a     *)
(* scout's with its terminal block, the trajectory has one result for a     *)
(* child, and a clean report leaves nothing running.                        *)
StopsAndResultsAreTrue ==
    /\ TypeOK /\ AcknowledgedIsQuiet /\ FinalityOfLease /\ ScoutNeverInferred
    /\ ReportIsQuiet /\ Trajectory
=============================================================================
