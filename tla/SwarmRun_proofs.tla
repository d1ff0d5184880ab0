---------------------------- MODULE SwarmRun_proofs ----------------------------
(***************************************************************************)
(* What a swarm run keeps to, for every plan, every number of contracts,    *)
(* phases, Atlas commands and hanging workers, and every raw outcome and    *)
(* attestation: the completion gate's authority, and what stops, results    *)
(* and the report say.                                                      *)
(***************************************************************************)
EXTENDS SwarmRun, FiniteSetTheorems, TLAPS

-----------------------------------------------------------------------------
(* The inductive invariant, in parts. *)

Draft == [raw : Raw, result : Result, seen : BOOLEAN]

StopState == [lease : Contract, answer : {"waiting", "quiet", "unquiet"}]

ShapeOK ==
    /\ TypeOK
    /\ draft \in [Contract -> Draft \cup {None}]
    /\ stops \in [{"main", "atlas"} -> StopState \cup {None}]
    /\ DOMAIN a2a = Contract

\* What a worker is constructing is never better than its raw outcome, and
\* what it returned was validated.
DraftOK ==
    \A c \in Contract :
        stage[c] \in {"observing", "closing", "building", "returned"} =>
             /\ draft[c] \in Draft
             /\ Role[c] # "scout" => draft[c].result.assess = None
             /\ draft[c].result.assess = "actionable" => draft[c].raw.assess = "actionable"
             /\ stage[c] = "building" /\ draft[c].seen => draft[c].result.assess # "actionable"
             /\ stage[c] = "returned" /\ draft[c].result.assess = "actionable" =>
                  draft[c].raw.findings = "typed"

\* Nothing has happened yet to the contracts of later phases.
Fresh(c) == lease[c] = "none" /\ stage[c] = "none" /\ a2a[c] = <<>> /\ results[c] = None

Assigned(c) == a2a[c] = <<"assignment">> /\ results[c] = None

FreshAhead ==
    \A p \in DOMAIN Phases : p > phase \/ (p = phase /\ pc = "bind") =>
        \A c \in Phases[p] : Fresh(c)

\* Admission takes the contracts of the phase one by one.
AdmitsOnce ==
    pc = "admit" =>
        /\ queue \subseteq Phases[phase]
        /\ \A c \in queue : Fresh(c)
        /\ \A c \in Phases[phase] \ queue : Assigned(c) /\ stage[c] = "none"

\* The futures of the loop: each in one place, with nothing recorded for it yet.
FuturesOK ==
    /\ \A c \in pending \cup done \cup late : Assigned(c)
    /\ pending \cap done = {} /\ pending \cap late = {} /\ done \cap late = {}
    /\ \A c \in done : stage[c] \in Over
    /\ pc \notin {"poll", "reap", "stopping", "settle", "record", "drain", "raised"} =>
         pending \cup done \cup late = {}
    /\ pc = "drain" => pending \cup done = {}
    /\ pc = "record" => queue \subseteq done /\ \A c \in queue : stage[c] = "returned"

\* A thread that may still run is a future of the loop, or was given up and reported.
NoStray ==
    \A c \in Contract : stage[c] \in Running \cup {"queued"} =>
        c \in pending \cup late \/ "grace_exceeded" \in failures \/ pc = "raised"

\* What was accepted, or charged over the budget, had returned.
SettledReturned ==
    \A c \in Contract :
        /\ lease[c] \in {"finished", "over_budget"} => stage[c] = "returned"
        /\ results[c] # None => /\ stage[c] = "returned"
                                /\ Role[c] # "scout" => results[c].assess = None

\* A stop is owed by an ended lease only, and a closed team admits nobody.
LeasesOK ==
    /\ \A c \in owed : lease[c] \in {"cancelled", "timed_out"}
    /\ closed => Active(lease) = {}

\* A worker that will run Pi no more: gone, or marked before its thread started.
Silent(c) ==
    \/ stage[c] \in {"none", "queued"} /\ c \in requested
    \/ stage[c] = "started" /\ c \in token
    \/ stage[c] \in Over

StopsOK ==
    /\ \A w \in {"main", "atlas"} : stops[w] # None =>
         /\ stops[w].answer = "quiet" => Silent(stops[w].lease)
         /\ stops[w].answer = "waiting" => stage[stops[w].lease] \in Running \cup Over
    /\ \A c \in Contract : lease[c] \in {"cancelled", "timed_out"} /\ c \notin owed => Silent(c)

\* The sweep owes what it has still to stop, unless it said so.
SweepOK ==
    /\ pc = "sweep" => closed /\ ("not_quiescent" \notin failures => owed \subseteq toStop)
    /\ pc = "reported" => Active(lease) = {} /\ ("not_quiescent" \notin failures => owed = {})

\* The predecessors of a phase that was bound have their receipts.
BoundOK ==
    pc \in {"admit", "poll", "reap", "stopping", "settle", "record", "drain", "check"} =>
        \A d \in Preds(phase) : receipts[d] # None

Accredited == decision # None /\ decision.authorized

AuthorityOK == AuthorizedMeansComplete /\ (Accredited => pc = "reported")

RunInv ==
    /\ ShapeOK /\ DraftOK /\ FreshAhead /\ AdmitsOnce /\ FuturesOK /\ NoStray /\ SettledReturned
    /\ LeasesOK /\ StopsOK /\ SweepOK /\ BoundOK /\ AuthorityOK
    /\ FinalityOfLease /\ ScoutNeverInferred /\ Trajectory

-----------------------------------------------------------------------------
(* The plan and the results. *)

\* A contract is of one phase, and the phases before it are of the plan.
LEMMA PlanFacts ==
  /\ DOMAIN Phases = 1 .. Len(Phases) /\ Len(Phases) \in Nat /\ Len(Phases) > 0
  /\ \A p \in DOMAIN Phases : Phases[p] \subseteq Contract /\ Preds(p) \subseteq Contract
  /\ \A p \in DOMAIN Phases : \A c \in Phases[p] : PhaseOf(c) = p
  /\ \A c \in Contract : PhaseOf(c) \in DOMAIN Phases /\ c \in Phases[PhaseOf(c)]
<1>1. Phases \in Seq(SUBSET Contract) /\ Phases # <<>>
  BY GateAssumption
<1>2. DOMAIN Phases = 1 .. Len(Phases) /\ Len(Phases) \in Nat /\ Len(Phases) > 0
  BY <1>1
<1>3. \A p \in DOMAIN Phases : Phases[p] \subseteq Contract
  BY <1>1
<1>4. \A p \in DOMAIN Phases : Preds(p) \subseteq Contract
  <2> SUFFICES ASSUME NEW p \in DOMAIN Phases, NEW q \in After[p] PROVE Phases[q] \subseteq Contract
    BY DEF Preds
  <2>1. q \in 1 .. (p - 1) /\ p \in 1 .. Len(Phases)
    BY <1>2, GateAssumption
  <2>2. q \in DOMAIN Phases
    BY <1>2, <2>1
  <2> QED BY <1>3, <2>2
<1>5. ASSUME NEW p \in DOMAIN Phases, NEW c \in Phases[p] PROVE PhaseOf(c) = p
  <2>1. PhaseOf(c) \in DOMAIN Phases /\ c \in Phases[PhaseOf(c)]
    BY DEF PhaseOf
  <2> QED BY <2>1, GateAssumption
<1>6. ASSUME NEW c \in Contract PROVE PhaseOf(c) \in DOMAIN Phases /\ c \in Phases[PhaseOf(c)]
  <2>1. \E p \in DOMAIN Phases : c \in Phases[p]
    BY GateAssumption
  <2> QED BY <2>1 DEF PhaseOf
<1> QED BY <1>2, <1>3, <1>4, <1>5, <1>6

\* A raw outcome becomes a result that claims no more than it.
LEMMA VerdictTyped ==
  ASSUME NEW c \in Contract, NEW raw \in Raw
  PROVE  /\ Verdict(c, raw) \in Result
         /\ Role[c] # "scout" => Verdict(c, raw).assess = None
         /\ Verdict(c, raw).assess = "actionable" => raw.assess = "actionable"
<1> DEFINE disp == CheckedDisposition(c, raw)
           assess == TrustedAssessment(raw, disp)
<1>1. /\ raw.kind \in {"run", "denied"} /\ raw.status \in {"blocked", "needs_input", "none"}
      /\ raw.assess \in Assessment \cup {None} /\ raw.ok \in BOOLEAN
  BY DEF Raw
<1>2. RawDisposition(raw) \in Disposition
  BY <1>1 DEF RawDisposition, Disposition
<1>3. disp \in Disposition
  BY <1>2 DEF CheckedDisposition, Disposition
<1> HIDE DEF disp
<1>4. /\ assess \in Assessment \cup {None}
      /\ assess = "actionable" => raw.assess = "actionable"
  BY <1>1, <1>3, GateAssumption DEF TrustedAssessment, Assessment
<1> HIDE DEF assess
<1>5. assess # None => Normalized[assess] \in Disposition
  BY <1>4 DEF Normalized, Assessment, Disposition
<1>6. Verdict(c, raw) =
        IF Role[c] # "scout"
          THEN [disp |-> disp, commit |-> None, assess |-> None, evidence |-> raw.kind = "run"]
        ELSE IF assess = None
          THEN [disp |-> "blocked", commit |-> None, assess |-> "blocked", evidence |-> raw.kind = "run"]
        ELSE [disp |-> Normalized[assess], commit |-> None, assess |-> assess, evidence |-> TRUE]
  BY DEF Verdict, disp, assess
<1>7. None # "actionable"
  BY GateAssumption
<1>8. CASE Role[c] # "scout"
  BY <1>3, <1>6, <1>7, <1>8 DEF Result
<1>9. CASE Role[c] = "scout" /\ assess = None
  BY <1>6, <1>9 DEF Result, Disposition, Assessment
<1>10. CASE Role[c] = "scout" /\ assess # None
  BY <1>4, <1>5, <1>6, <1>10 DEF Result
<1> QED BY <1>8, <1>9, <1>10

\* A result in the controller's name failed, and recommends nothing.
LEMMA ControlledTyped ==
  ASSUME NEW c \in Contract, NEW r \in Result
  PROVE  /\ Controlled(c, r) \in Result /\ Controlled(c, r).disp = "failed"
         /\ Controlled(c, r).assess # "actionable"
         /\ Role[c] # "scout" => Controlled(c, r).assess = None
BY GateAssumption DEF Controlled, Result, Disposition, Assessment

-----------------------------------------------------------------------------
(* What each thread leaves alone. *)

\* A step of a worker thread is one move of its stage; the orchestrator's, the
\* scheduler's and Atlas's state are not its own.
Moves(c, to) ==
    /\ stage[c] \in Running \cup {"queued"} /\ to \in Running \cup {"returned", "raised"}
    /\ stage' = [stage EXCEPT ![c] = to]

\* A worker's own step moves its stage and draft, and nothing of the orchestrator's.
LEMMA WorkerFrame ==
  ASSUME NEW c \in Contract, WorkerStep(c) \/ Hang(c)
  PROVE  /\ \E to : Moves(c, to)
         /\ UNCHANGED <<pc, phase, queue, pending, done, late, toStop, results, receipts, failures, decision>>
         /\ UNCHANGED <<lease, owed, due, closed, over, stops, atlas, cancels, a2a>>
<1>1. CASE Start(c)
  BY <1>1 DEF Start, Worker, Moves, Running, runVars, leaseVars, atlasVars
<1>2. CASE MakeRunner(c) \/ Launch(c)
  BY <1>2 DEF MakeRunner, Launch, Worker, Moves, Running, runVars, leaseVars, atlasVars
<1>3. CASE Abort(c)
  BY <1>3 DEF Abort, Leave, Moves, Running, runVars, leaseVars, atlasVars
<1>4. CASE Close(c) \/ \E k \in Commit : Observe(c, k)
  BY <1>4 DEF Close, Observe, Worker, Moves, Running, runVars, leaseVars, atlasVars
<1>5. CASE Build(c)
  <2>1. \E to \in {"returned", "raised"} : stage' = [stage EXCEPT ![c] = to]
    BY <1>5 DEF Build, Leave
  <2> QED BY <1>5, <2>1 DEF Build, Leave, Moves, Running, runVars, leaseVars, atlasVars
<1>6. ASSUME NEW raw \in Raws[c], PiEnds(c, raw)
      PROVE  /\ \E to : Moves(c, to)
             /\ UNCHANGED <<pc, phase, queue, pending, done, late, toStop, results, receipts, failures, decision>>
             /\ UNCHANGED <<lease, owed, due, closed, over, stops, atlas, cancels, a2a>>
  <2>1. \E to \in {"observing", "closing"} : Worker(c, "pi", to)
    BY <1>6 DEF PiEnds
  <2> QED BY <2>1 DEF Worker, Moves, Running, runVars, leaseVars, atlasVars
<1>7. CASE Hang(c)
  BY <1>7 DEF Hang, Worker, Moves, Running, runVars, leaseVars, atlasVars
<1> QED BY <1>1, <1>2, <1>3, <1>4, <1>5, <1>6, <1>7 DEF WorkerStep

-----------------------------------------------------------------------------
(* Types. *)

\* The first state is well typed.
LEMMA ShapeInit == Init => ShapeOK
<1> SUFFICES ASSUME Init PROVE ShapeOK
  OBVIOUS
<1>1. 1 \in DOMAIN Phases
  BY PlanFacts
<1> QED BY <1>1 DEF Init, ShapeOK, TypeOK

\* Worker threads.
LEMMA ShapeWorker ==
  ASSUME ShapeOK, DraftOK, NEW c \in Contract, WorkerStep(c) \/ Hang(c) PROVE ShapeOK'
<1>1. PICK to : Moves(c, to)
  BY WorkerFrame
<1>2. stage' \in [Contract -> {"none", "queued"} \cup Running \cup Over]
  BY <1>1 DEF Moves, ShapeOK, TypeOK, Over
<1>3. token' \subseteq Contract /\ requested' \subseteq Contract
  BY DEF ShapeOK, TypeOK, WorkerStep, Hang, Start, MakeRunner, Launch, Abort, Close, Build, PiEnds, Observe, Leave
<1>4. draft' \in [Contract -> Draft \cup {None}]
  <2>1. CASE UNCHANGED draft
    BY <2>1 DEF ShapeOK
  <2>2. ASSUME NEW raw \in Raws[c], PiEnds(c, raw) PROVE draft' \in [Contract -> Draft \cup {None}]
    <3>1. raw \in Raw
      BY RunAssumption
    <3>2. [raw |-> raw, result |-> Verdict(c, raw), seen |-> FALSE] \in Draft
      BY <3>1, VerdictTyped DEF Draft
    <3> QED BY <2>2, <3>2 DEF PiEnds, ShapeOK
  <2>3. ASSUME NEW k \in Commit, Observe(c, k) PROVE draft' \in [Contract -> Draft \cup {None}]
    <3>1. draft[c] \in Draft /\ draft[c].result \in Result
      BY <2>3 DEF Observe, Worker, DraftOK, Draft
    <3> DEFINE r == IF c \in token THEN Controlled(c, draft[c].result) ELSE [draft[c].result EXCEPT !.commit = k]
    <3>2. r \in Result
      BY <3>1, ControlledTyped DEF Result
    <3>3. draft' = [draft EXCEPT ![c].result = r]
      BY <2>3 DEF Observe
    <3> HIDE DEF r
    <3> QED BY <3>1, <3>2, <3>3 DEF ShapeOK, Draft
  <2>4. CASE Close(c)
    <3>1. draft[c] \in Draft /\ draft[c].result \in Result
      BY <2>4 DEF Close, Worker, DraftOK, Draft
    <3> DEFINE r == IF c \in token THEN Controlled(c, draft[c].result) ELSE draft[c].result
               b == c \in token
    <3>2. r \in Result /\ b \in BOOLEAN
      BY <3>1, ControlledTyped
    <3>3. draft' = [draft EXCEPT ![c].result = r, ![c].seen = b]
      BY <2>4 DEF Close
    <3> HIDE DEF r, b
    <3>4. draft' = [draft EXCEPT ![c] = [draft[c] EXCEPT !.result = r, !.seen = b]]
      BY <3>1, <3>3 DEF ShapeOK
    <3>5. [draft[c] EXCEPT !.result = r, !.seen = b] \in Draft
      BY <3>1, <3>2 DEF Draft
    <3> QED BY <3>4, <3>5 DEF ShapeOK
  <2> QED BY <2>1, <2>2, <2>3, <2>4 DEF WorkerStep, Hang, Start, MakeRunner, Launch, Abort, Build
<1> QED BY <1>2, <1>3, <1>4, WorkerFrame DEF ShapeOK, TypeOK

\* Leases end in one of the states a lease may end in.
LEMMA EndedTyped ==
  ASSUME ShapeOK, NEW S, NEW x \in {"cancelled", "timed_out"}
  PROVE  /\ Ended(S, x) \in [Contract -> {"none", "active", "finished", "over_budget", "cancelled", "timed_out"}]
         /\ \A c \in Contract : Ended(S, x)[c] = IF c \in S /\ lease[c] = "active" THEN x ELSE lease[c]
BY DEF Ended, ShapeOK, TypeOK

\* The clock, the answers of stop() and Atlas.
LEMMA ShapeOthers ==
  ASSUME ShapeOK,
         \/ \E c \in Contract : TimeUp(c) \/ AtlasCancelWorker(c) \/ AtlasStop(c)
         \/ \E who \in {"main", "atlas"}, ok \in BOOLEAN : StopReturns(who, ok)
         \/ AtlasCancelTeam \/ AtlasAcknowledge
  PROVE  ShapeOK'
<1>1. ASSUME NEW c \in Contract, TimeUp(c) PROVE ShapeOK'
  BY <1>1 DEF TimeUp, ShapeOK, TypeOK, runVars, workerVars, atlasVars
<1>2. ASSUME NEW S, AtlasCancel(S) PROVE ShapeOK'
  <2>1. lease' = Ended(S, "cancelled") /\ owed' = owed \cup (S \cap Active(lease)) /\ atlas' = S \cap Active(lease)
    BY <1>2 DEF AtlasCancel, Cancel
  <2>2. Active(lease) \subseteq Contract
    BY DEF Active
  <2> QED BY <1>2, <2>1, <2>2, EndedTyped DEF AtlasCancel, ShapeOK, TypeOK, runVars, workerVars
<1>3. ASSUME NEW c \in Contract, AtlasStop(c) PROVE ShapeOK'
  <2> DEFINE st == [lease |-> c, answer |-> IF c \in Busy THEN "waiting" ELSE "quiet"]
  <2>1. st \in StopState
    BY DEF StopState
  <2>2. stops' = [stops EXCEPT !["atlas"] = st] /\ requested' = requested \cup {c} /\ token' \subseteq token \cup {c}
    BY <1>3 DEF AtlasStop, StopCall
  <2> HIDE DEF st
  <2> QED BY <1>3, <2>1, <2>2 DEF AtlasStop, ShapeOK, TypeOK, runVars, leaseVars, atlasVars
<1>4. ASSUME NEW who \in {"main", "atlas"}, NEW ok \in BOOLEAN, StopReturns(who, ok) PROVE ShapeOK'
  <2> DEFINE ans == IF ok THEN "quiet" ELSE "unquiet"
  <2>1. stops[who] \in StopState /\ stops' = [stops EXCEPT ![who] = [stops[who] EXCEPT !.answer = ans]]
    BY <1>4 DEF StopReturns, ShapeOK
  <2>2. [stops[who] EXCEPT !.answer = ans] \in StopState
    BY <2>1 DEF StopState
  <2> QED BY <1>4, <2>1, <2>2 DEF StopReturns, ShapeOK, TypeOK, runVars, leaseVars, workerVars, atlasVars
<1>5. CASE AtlasAcknowledge
  <2>1. owed' \subseteq owed /\ atlas' \subseteq atlas /\ stops' = [stops EXCEPT !["atlas"] = None]
    BY <1>5 DEF AtlasAcknowledge
  <2> QED BY <1>5, <2>1 DEF AtlasAcknowledge, ShapeOK, TypeOK, runVars, workerVars
<1> QED BY <1>1, <1>2, <1>3, <1>4, <1>5 DEF AtlasCancelWorker, AtlasCancelTeam

\* The journal takes an event or the run raises; either way the other threads
\* keep their stage, or are dropped before they started.
LEMMA JournalFrame ==
  ASSUME ShapeOK, NEW c \in Contract, NEW kind, NEW next, Journal(c, kind, next)
  PROVE  /\ \/ a2a' = [a2a EXCEPT ![c] = Append(@, kind)] /\ pc' = next /\ stage' = stage
            \/ a2a' = a2a /\ pc' = "raised" /\ stage' = ShutDown
         /\ DOMAIN a2a' = Contract
         /\ ShutDown \in [Contract -> {"none", "queued"} \cup Running \cup Over]
         /\ stage' \in [Contract -> {"none", "queued"} \cup Running \cup Over]
BY DEF Journal, ShapeOK, TypeOK, ShutDown, Over

\* Binding, admission and submission keep the types.
LEMMA ShapeAdmission ==
  ASSUME ShapeOK, BindPhase \/ Submit \/ \E c \in Contract : Admit(c) PROVE ShapeOK'
<1>1. CASE BindPhase
  <2>1. queue' \subseteq Contract /\ pc' \in {"admit", "gate"}
    BY <1>1, PlanFacts DEF BindPhase, ShapeOK, TypeOK
  <2> QED BY <1>1, <2>1 DEF BindPhase, ShapeOK, TypeOK, leaseVars, workerVars, atlasVars
<1>2. CASE Submit
  <2>1. Phases[phase] \subseteq Contract
    BY PlanFacts DEF ShapeOK, TypeOK
  <2>2. stage' \in [Contract -> {"none", "queued"} \cup Running \cup Over]
    BY <1>2 DEF Submit, ShapeOK, TypeOK
  <2> QED BY <1>2, <2>1, <2>2 DEF Submit, ShapeOK, TypeOK, leaseVars, atlasVars
<1>3. ASSUME NEW c \in Contract, Admit(c) PROVE ShapeOK'
  <2>1. /\ \A x \in Expired : x \in Contract
        /\ ExpiredLeases \in [Contract -> {"none", "active", "finished", "over_budget", "cancelled", "timed_out"}]
    BY EndedTyped DEF Expired, Active, ExpiredLeases
  <2>2. lease' \in [Contract -> {"none", "active", "finished", "over_budget", "cancelled", "timed_out"}]
    BY <1>3, <2>1 DEF Admit
  <2>3. /\ pc' \in {"admit", "gate", "raised"} /\ queue' \subseteq queue /\ DOMAIN a2a' = Contract
        /\ stage' \in [Contract -> {"none", "queued"} \cup Running \cup Over]
    <3>1. CASE Journal(c, "assignment", "admit") /\ queue' = queue \ {c}
      BY <3>1, JournalFrame
    <3>2. CASE pc' = "gate" /\ queue' = {} /\ UNCHANGED <<a2a, stage>>
      BY <3>2 DEF ShapeOK, TypeOK
    <3> QED BY <1>3, <3>1, <3>2 DEF Admit
  <2> QED BY <1>3, <2>1, <2>2, <2>3 DEF Admit, ShapeOK, TypeOK, atlasVars
<1> QED BY <1>1, <1>2, <1>3

\* Polling, reaping and stopping keep the types.
LEMMA ShapeLoop ==
  ASSUME ShapeOK, Poll \/ Reap \/ LoopStopped \/ MainAcknowledge \/ Settled \/ Report \/ \E c \in Contract : MainStop(c)
  PROVE  ShapeOK'
<1>1. CASE Poll
  BY <1>1 DEF Poll, ShapeOK, TypeOK, leaseVars, workerVars, atlasVars
<1>2. CASE Reap
  <2>1. /\ \A x \in Expired : x \in Contract
        /\ ExpiredLeases \in [Contract -> {"none", "active", "finished", "over_budget", "cancelled", "timed_out"}]
    BY EndedTyped DEF Expired, Active, ExpiredLeases
  <2> QED BY <1>2, <2>1 DEF Reap, ShapeOK, TypeOK, workerVars, atlasVars
<1>3. CASE LoopStopped \/ Settled \/ Report
  BY <1>3 DEF LoopStopped, Settled, Report, ShapeOK, TypeOK, leaseVars, workerVars, atlasVars
<1>4. CASE MainAcknowledge
  <2>1. owed' \subseteq owed /\ toStop' \subseteq toStop /\ stops' = [stops EXCEPT !["main"] = None]
    BY <1>4 DEF MainAcknowledge
  <2> QED BY <1>4, <2>1 DEF MainAcknowledge, ShapeOK, TypeOK, workerVars, atlasVars
<1>5. ASSUME NEW c \in Contract, MainStop(c) PROVE ShapeOK'
  <2> DEFINE st == [lease |-> c, answer |-> IF c \in Busy THEN "waiting" ELSE "quiet"]
  <2>1. st \in StopState
    BY DEF StopState
  <2>2. stops' = [stops EXCEPT !["main"] = st] /\ requested' = requested \cup {c} /\ token' \subseteq token \cup {c}
    BY <1>5 DEF MainStop, StopCall
  <2> HIDE DEF st
  <2> QED BY <1>5, <2>1, <2>2 DEF MainStop, ShapeOK, TypeOK, runVars, leaseVars, atlasVars
<1> QED BY <1>1, <1>2, <1>3, <1>4, <1>5

\* What a done future becomes: a result the worker gave or one in the
\* controller's name; or nothing.
ResultTaken(c) ==
    /\ c \in over /\ lease[c] = "over_budget"
    /\ lease' = lease /\ owed' = owed
    /\ Recorded(c, Controlled(c, draft[c].result), {"over_budget"})

ResultAccepted(c) ==
    /\ c \notin over /\ lease[c] = "active" /\ c \notin due
    /\ lease' = [ExpiredLeases EXCEPT ![c] = "finished"]
    /\ owed' = owed \cup Expired
    /\ Recorded(c, draft[c].result, {})

ResultRefused(c) ==
    /\ Refused
    /\ \/ lease' = lease /\ owed' = owed
       \/ lease' = ExpiredLeases /\ owed' = owed \cup Expired

\* Settling the result of a done future: what it leaves alone.
LEMMA SettleFrame ==
  ASSUME ShapeOK, DraftOK, FuturesOK, NEW c \in Contract, SettleResult(c)
  PROVE  /\ pc = "record" /\ queue = {c} /\ c \in done /\ stage[c] = "returned"
         /\ draft[c] \in Draft /\ draft[c].result \in Result
         /\ ResultTaken(c) \/ ResultAccepted(c) \/ ResultRefused(c)
         /\ queue' = {} /\ done' = done \ {c}
         /\ UNCHANGED <<phase, pending, late, toStop, receipts, decision, due, closed, over, draft, token,
                        requested, stops, atlas, cancels>>
<1>1. /\ pc = "record" /\ queue = {c} /\ queue' = {} /\ done' = done \ {c}
      /\ ResultTaken(c) \/ ResultAccepted(c) \/ ResultRefused(c)
  BY DEF SettleResult, ResultTaken, ResultAccepted, ResultRefused
<1>2. c \in done /\ stage[c] = "returned"
  BY <1>1 DEF FuturesOK
<1>3. draft[c] \in Draft /\ draft[c].result \in Result
  BY <1>2 DEF DraftOK, Draft
<1> QED BY <1>1, <1>2, <1>3 DEF SettleResult, atlasVars

\* Settling keeps the types.
LEMMA ShapeSettle ==
  ASSUME ShapeOK, DraftOK, FuturesOK, NEW c \in Contract,
         SettleResult(c) \/ SettleException(c) \/ \E b \in BOOLEAN : SettleUsage(c, b)
  PROVE  ShapeOK'
<1>1. ASSUME NEW b \in BOOLEAN, SettleUsage(c, b) PROVE ShapeOK'
  <2>1. over' \subseteq over \cup {c}
    BY <1>1 DEF SettleUsage
  <2>2. lease' \in [Contract -> {"none", "active", "finished", "over_budget", "cancelled", "timed_out"}]
    <3>1. \E x \in {lease[c], "over_budget"} : lease' = [lease EXCEPT ![c] = x]
      BY <1>1 DEF SettleUsage
    <3> QED BY <3>1 DEF ShapeOK, TypeOK
  <2>3. /\ pc' = "record" /\ queue' = {c}
        /\ UNCHANGED <<phase, pending, done, late, toStop, results, receipts, decision, owed, due, stage, draft,
                       token, requested, stops, atlas, a2a>>
    BY <1>1 DEF SettleUsage, workerVars, atlasVars
  <2>4. queue' \cup pending' \cup done' \cup late' \cup toStop' \subseteq Contract
    BY <2>3 DEF ShapeOK, TypeOK
  <2>5. owed' \cup due' \cup over' \cup token' \cup requested' \cup atlas' \subseteq Contract
    BY <2>1, <2>3 DEF ShapeOK, TypeOK
  <2> QED BY <2>2, <2>3, <2>4, <2>5 DEF ShapeOK, TypeOK
<1>2. CASE SettleException(c)
  <2>1. lease' = Ended({c}, "cancelled") /\ owed' \subseteq owed \cup {c}
    BY <1>2 DEF SettleException, Cancel
  <2>2. lease' \in [Contract -> {"none", "active", "finished", "over_budget", "cancelled", "timed_out"}]
    BY <2>1, EndedTyped
  <2>3. /\ done' \subseteq done
        /\ UNCHANGED <<pc, phase, queue, pending, late, toStop, results, receipts, decision, due, over, stage, draft,
                       token, requested, stops, atlas, a2a>>
    BY <1>2 DEF SettleException, workerVars, atlasVars
  <2>4. queue' \cup pending' \cup done' \cup late' \cup toStop' \subseteq Contract
    BY <2>3 DEF ShapeOK, TypeOK
  <2>5. owed' \cup due' \cup over' \cup token' \cup requested' \cup atlas' \subseteq Contract
    BY <2>1, <2>3 DEF ShapeOK, TypeOK
  <2> QED BY <2>2, <2>3, <2>4, <2>5 DEF ShapeOK, TypeOK
<1>3. CASE SettleResult(c)
  <2>1. /\ \A x \in Expired : x \in Contract
        /\ ExpiredLeases \in [Contract -> {"none", "active", "finished", "over_budget", "cancelled", "timed_out"}]
    BY EndedTyped DEF Expired, Active, ExpiredLeases
  <2>2. /\ owed' \subseteq Contract
        /\ lease' \in [Contract -> {"none", "active", "finished", "over_budget", "cancelled", "timed_out"}]
    BY <1>3, SettleFrame, <2>1 DEF ResultTaken, ResultAccepted, ResultRefused, ShapeOK, TypeOK
  <2>3. /\ results' \in [Contract -> Result \cup {None}] /\ pc' \in {"settle", "raised"}
        /\ DOMAIN a2a' = Contract /\ stage' \in [Contract -> {"none", "queued"} \cup Running \cup Over]
    <3>1. ASSUME NEW r \in Result, NEW kinds, Recorded(c, r, kinds)
          PROVE  /\ results' \in [Contract -> Result \cup {None}] /\ pc' \in {"settle", "raised"}
                 /\ DOMAIN a2a' = Contract /\ stage' \in [Contract -> {"none", "queued"} \cup Running \cup Over]
      <4>1. results' = [results EXCEPT ![c] = r] /\ Journal(c, "result", "settle")
        BY <3>1 DEF Recorded
      <4> QED BY <4>1, JournalFrame DEF ShapeOK, TypeOK
    <3>2. CASE Refused
      BY <3>2 DEF Refused, ShapeOK, TypeOK
    <3>3. Controlled(c, draft[c].result) \in Result /\ draft[c].result \in Result
      BY <1>3, SettleFrame, ControlledTyped
    <3>4. CASE ResultTaken(c)
      BY <3>1, <3>3, <3>4 DEF ResultTaken
    <3>5. CASE ResultAccepted(c)
      BY <3>1, <3>3, <3>5 DEF ResultAccepted
    <3>6. CASE ResultRefused(c)
      BY <3>2, <3>6 DEF ResultRefused
    <3> QED BY <1>3, SettleFrame, <3>4, <3>5, <3>6
  <2>4. /\ queue' = {} /\ done' \subseteq done
        /\ UNCHANGED <<phase, pending, late, toStop, receipts, decision, due, over, draft, token, requested, stops,
                       atlas>>
    BY <1>3, SettleFrame
  <2>5. queue' \cup pending' \cup done' \cup late' \cup toStop' \subseteq Contract
    BY <2>4 DEF ShapeOK, TypeOK
  <2>6. owed' \cup due' \cup over' \cup token' \cup requested' \cup atlas' \subseteq Contract
    BY <2>2, <2>4 DEF ShapeOK, TypeOK
  <2> QED BY <2>2, <2>3, <2>4, <2>5, <2>6 DEF ShapeOK, TypeOK
<1> QED BY <1>1, <1>2, <1>3

\* The drain: late results in the controller's name, and the pool shut down.
LateReturned == {c \in late : stage[c] = "returned"}

\* Draining the late futures: what it leaves alone.
LEMMA DrainFrame ==
  ASSUME Drain
  PROVE  /\ pc = "drain" /\ late' = {} /\ stage' = ShutDown
         /\ results' = [c \in Contract |-> IF c \in LateReturned THEN Controlled(c, draft[c].result) ELSE results[c]]
         /\ \/ /\ pc' = "check"
               /\ a2a' = [c \in Contract |-> IF c \in LateReturned THEN Append(a2a[c], "result") ELSE a2a[c]]
            \/ pc' = "raised" /\ a2a' = a2a
         /\ failures \subseteq failures'
         /\ (\E c \in late : stage[c] \in Running \cup {"queued"}) => "grace_exceeded" \in failures'
         /\ UNCHANGED <<phase, queue, pending, done, toStop, receipts, decision, lease, owed, due, closed, over,
                        draft, token, requested, stops, atlas, cancels>>
BY DEF Drain, LateReturned, leaseVars, atlasVars

\* Draining keeps the types.
LEMMA ShapeDrain ==
  ASSUME ShapeOK, DraftOK, Drain PROVE ShapeOK'
<1>1. results' \in [Contract -> Result \cup {None}]
  <2>1. \A c \in LateReturned : c \in Contract /\ draft[c].result \in Result
    BY DEF LateReturned, ShapeOK, TypeOK, DraftOK, Draft
  <2>2. \A c \in LateReturned : Controlled(c, draft[c].result) \in Result
    BY <2>1, ControlledTyped
  <2> QED BY <2>2, DrainFrame DEF ShapeOK, TypeOK
<1>2. stage' \in [Contract -> {"none", "queued"} \cup Running \cup Over]
  BY DrainFrame DEF ShapeOK, TypeOK, ShutDown, Over
<1>3. DOMAIN a2a' = Contract /\ pc' \in {"check", "raised"}
  BY DrainFrame DEF ShapeOK
<1>4. /\ late' = {} /\ UNCHANGED <<phase, queue, pending, done, toStop, receipts, decision, lease, owed, due, over,
                                   draft, token, requested, stops, atlas>>
  BY DrainFrame
<1>5. queue' \cup pending' \cup done' \cup late' \cup toStop' \subseteq Contract
  BY <1>4 DEF ShapeOK, TypeOK
<1> QED BY <1>1, <1>2, <1>3, <1>4, <1>5 DEF ShapeOK, TypeOK

\* A receipt is of the plan's commits when the predecessors have theirs.
LEMMA ReceiptTyped ==
  ASSUME ShapeOK, NEW c \in Contract, NEW r \in Result, \A d \in Pred(c) : receipts[d] # None
  PROVE  ReceiptOf(receipts, c, r) \in Receipt
<1> DEFINE input == IF Pred(c) = {} THEN Base ELSE CHOOSE k \in Outputs(receipts, Pred(c)) : TRUE
<1>1. Pred(c) \subseteq Contract
  BY PlanFacts DEF Pred
<1>2. \A d \in Pred(c) : receipts[d].output \in Commit
  BY <1>1 DEF ShapeOK, TypeOK, Receipt
<1>3. Outputs(receipts, Pred(c)) \subseteq Commit /\ (Pred(c) # {} => Outputs(receipts, Pred(c)) # {})
  BY <1>2 DEF Outputs
<1>4. input \in Commit
  BY <1>3, GateAssumption
<1> HIDE DEF input
<1>5. ReceiptOf(receipts, c, r) = [result |-> r, input |-> input, preds |-> Pred(c),
                                   output |-> IF r.commit # None THEN r.commit ELSE input]
  BY DEF ReceiptOf, input
<1>6. r.commit \in Commit \cup {None}
  BY DEF Result
<1> QED BY <1>1, <1>4, <1>5, <1>6 DEF Receipt

\* Closing a phase writes receipts, and leaves leases and threads alone.
LEMMA ClosePhaseFrame ==
  ASSUME ShapeOK, BoundOK, ClosePhase
  PROVE  /\ pc = "check" /\ failures \subseteq failures'
         /\ receipts' \in [Contract -> Receipt \cup {None}]
         /\ \/ /\ pc' = "bind" /\ phase' = phase + 1 /\ phase' \in DOMAIN Phases
            \/ pc' = "gate" /\ phase' = phase
         /\ UNCHANGED <<queue, pending, done, late, toStop, results, decision, lease, owed, due, closed, over, stage,
                        draft, token, requested, stops, atlas, cancels, a2a>>
<1> DEFINE S == Phases[phase]
           bad == failures \cup PhaseFailures(S)
<1>1. /\ pc = "check" /\ failures' = bad
      /\ receipts' = IF bad # {} THEN receipts
                     ELSE [c \in Contract |-> IF c \in S THEN ReceiptOf(receipts, c, results[c]) ELSE receipts[c]]
      /\ \/ bad = {} /\ phase < Len(Phases) /\ pc' = "bind" /\ phase' = phase + 1
         \/ pc' = "gate" /\ phase' = phase
  BY DEF ClosePhase
<1>2. phase \in 1 .. Len(Phases) /\ Len(Phases) \in Nat
  BY PlanFacts DEF ShapeOK, TypeOK
<1>3. phase < Len(Phases) => phase + 1 \in DOMAIN Phases
  BY <1>2, PlanFacts
<1>4. CASE bad # {}
  BY <1>1, <1>3, <1>4 DEF ClosePhase, ShapeOK, TypeOK, leaseVars, workerVars, atlasVars
<1>5. CASE bad = {}
  <2>1. \A c \in S : c \in Contract /\ PhaseOf(c) = phase
    BY PlanFacts DEF ShapeOK, TypeOK
  <2>2. \A c \in S : results[c] # None
    BY <1>5 DEF PhaseFailures, CompletedIn
  <2>3. \A c \in S : \A d \in Pred(c) : receipts[d] # None
    BY <1>1, <2>1 DEF BoundOK, Pred
  <2>4. \A c \in S : ReceiptOf(receipts, c, results[c]) \in Receipt
    BY <2>1, <2>2, <2>3, ReceiptTyped DEF ShapeOK, TypeOK
  <2>5. receipts' \in [Contract -> Receipt \cup {None}]
    BY <1>1, <1>5, <2>4 DEF ShapeOK, TypeOK
  <2> QED BY <1>1, <1>3, <2>5 DEF ClosePhase, leaseVars, workerVars, atlasVars
<1> QED BY <1>4, <1>5

\* Closing a phase keeps the types.
LEMMA ShapeClose ==
  ASSUME ShapeOK, BoundOK, ClosePhase PROVE ShapeOK'
<1>1. phase' \in DOMAIN Phases /\ pc' \in {"bind", "gate"}
  BY ClosePhaseFrame DEF ShapeOK, TypeOK
<1> QED BY <1>1, ClosePhaseFrame DEF ShapeOK, TypeOK

\* The gate authorizes only a run without failures, and leaves it as it is;
\* otherwise the team is cancelled and every stop that is owed is asked for.
Authorized(a) == failures = {} /\ Authorizes(results, receipts, Attest(a))

\* The gate authorizes, or closes the team; it leaves results and threads alone.
LEMMA GateFrame ==
  ASSUME NEW a, Gate(a)
  PROVE  /\ pc = "gate" /\ decision'.authorized \in BOOLEAN
         /\ \/ /\ Authorized(a) /\ decision'.attestation = Attest(a) /\ pc' = "reported"
               /\ UNCHANGED <<toStop, closed, lease, owed>>
            \/ /\ ~decision'.authorized /\ pc' = "sweep" /\ closed' = TRUE /\ toStop' = owed'
               /\ \/ closed /\ UNCHANGED <<lease, owed>>
                  \/ Cancel(Contract)
         /\ UNCHANGED <<phase, queue, pending, done, late, results, receipts, failures, due, over, stage, draft,
                        token, requested, stops, atlas, cancels, a2a>>
<1> DEFINE given == IF failures = {} THEN Attest(a) ELSE None
           ok == Authorizes(results, receipts, given)
<1>1. ok \in BOOLEAN
  BY DEF Authorizes
<1>2. failures # {} => ~ok
  <2> SUFFICES ASSUME failures # {} PROVE ~Authorizes(results, receipts, None)
    OBVIOUS
  <2>1. AttestationReasons(results, receipts, None) = {"attestation_missing"}
    BY DEF AttestationReasons
  <2> QED BY <2>1 DEF Authorizes
<1>3. failures = {} /\ ok => Authorized(a)
  BY DEF Authorized
<1>7. failures = {} => given = Attest(a)
  OBVIOUS
<1> HIDE DEF ok, given
<1>4. /\ pc = "gate" /\ decision' = [authorized |-> ok, attestation |-> IF ok THEN given ELSE None]
      /\ IF failures = {} /\ ok
           THEN pc' = "reported" /\ UNCHANGED <<toStop, closed, lease, owed>>
           ELSE /\ pc' = "sweep" /\ closed' = TRUE
                /\ IF closed THEN UNCHANGED <<lease, owed>> ELSE Cancel(Contract)
                /\ toStop' = owed'
      /\ UNCHANGED <<phase, queue, pending, done, late, results, receipts, failures, due, over, stage, draft,
                     token, requested, stops, atlas, cancels, a2a>>
  BY DEF Gate, ok, given, workerVars, atlasVars
<1>8. decision'.authorized = ok /\ (ok => decision'.attestation = given)
  BY <1>4
<1>5. CASE failures = {} /\ ok
  BY <1>1, <1>3, <1>4, <1>5, <1>7, <1>8
<1>6. CASE ~(failures = {} /\ ok)
  BY <1>1, <1>2, <1>4, <1>6, <1>8
<1> QED BY <1>5, <1>6

\* The gate keeps the types.
LEMMA ShapeGate ==
  ASSUME ShapeOK, NEW a, Gate(a) PROVE ShapeOK'
<1>1. /\ lease' \in [Contract -> {"none", "active", "finished", "over_budget", "cancelled", "timed_out"}]
      /\ owed' \subseteq Contract
  <2>1. CASE UNCHANGED <<lease, owed>>
    BY <2>1 DEF ShapeOK, TypeOK
  <2>2. CASE Cancel(Contract)
    BY <2>2, EndedTyped DEF Cancel, Active, ShapeOK, TypeOK
  <2> QED BY <2>1, <2>2, GateFrame
<1>2. toStop' \subseteq Contract /\ pc' \in {"sweep", "reported"} /\ decision'.authorized \in BOOLEAN
  BY <1>1, GateFrame DEF ShapeOK, TypeOK
<1>3. UNCHANGED <<phase, queue, pending, done, late, results, receipts, due, over, stage, draft, token, requested,
                  stops, atlas, a2a>>
  BY GateFrame
<1>4. queue' \cup pending' \cup done' \cup late' \cup toStop' \subseteq Contract
  BY <1>2, <1>3 DEF ShapeOK, TypeOK
<1>5. owed' \cup due' \cup over' \cup token' \cup requested' \cup atlas' \subseteq Contract
  BY <1>1, <1>3 DEF ShapeOK, TypeOK
<1> QED BY <1>1, <1>2, <1>3, <1>4, <1>5 DEF ShapeOK, TypeOK

-----------------------------------------------------------------------------
(* Steps that are not a worker's. *)

Others ==
    \/ \E c \in Contract : TimeUp(c) \/ AtlasCancelWorker(c) \/ AtlasStop(c)
    \/ \E who \in {"main", "atlas"}, ok \in BOOLEAN : StopReturns(who, ok)
    \/ AtlasCancelTeam \/ AtlasAcknowledge

\* The steps of a run, by the actor.
LEMMA NextSplits ==
  ASSUME Next
  PROVE  Orchestrate \/ Others \/ \E c \in Contract : WorkerStep(c) \/ Hang(c)
BY DEF Next, Others

\* The clock, Atlas and the answers of stop() leave the loop and its records alone.
LEMMA OthersFrame ==
  ASSUME Others
  PROVE  UNCHANGED <<pc, phase, queue, pending, done, late, toStop, results, receipts, failures, decision,
                     over, stage, draft, a2a>>
BY DEF Others, TimeUp, AtlasCancelWorker, AtlasCancelTeam, AtlasCancel, AtlasStop, StopReturns, AtlasAcknowledge,
       runVars, leaseVars, workerVars, atlasVars

\* The orchestrator moves a thread's stage only by submitting it, or by
\* dropping it before it started; it never touches what a worker constructs.
LEMMA StageFrame ==
  ASSUME ShapeOK, Orchestrate
  PROVE  UNCHANGED draft /\ (UNCHANGED stage \/ stage' = ShutDown \/ Submit)
<1>1. ASSUME NEW c \in Contract, Admit(c) PROVE UNCHANGED draft /\ (UNCHANGED stage \/ stage' = ShutDown)
  BY <1>1 DEF Admit, Journal
<1>2. ASSUME NEW c \in Contract, SettleResult(c) PROVE UNCHANGED draft /\ (UNCHANGED stage \/ stage' = ShutDown)
  BY <1>2 DEF SettleResult, Recorded, Refused, Journal
<1>3. CASE Drain
  BY <1>3, DrainFrame
<1>4. ASSUME NEW a, Gate(a) PROVE UNCHANGED <<draft, stage>>
  BY <1>4, GateFrame
<1>5. CASE Submit
  BY <1>5 DEF Submit
<1>6. CASE BindPhase \/ Poll \/ Reap \/ LoopStopped \/ MainAcknowledge \/ Settled \/ ClosePhase \/ Report
  BY <1>6 DEF BindPhase, Poll, Reap, LoopStopped, MainAcknowledge, Settled, ClosePhase, Report, workerVars
<1>7. ASSUME NEW c \in Contract, MainStop(c) \/ SettleException(c) \/ \E b \in BOOLEAN : SettleUsage(c, b)
      PROVE  UNCHANGED <<draft, stage>>
  BY <1>7 DEF MainStop, SettleException, SettleUsage, workerVars
<1> QED BY <1>1, <1>2, <1>3, <1>4, <1>5, <1>6, <1>7 DEF Orchestrate

\* So a thread that returned or raised stays so, whoever acts; one that is
\* under way is moved by itself alone.
LEMMA StageStep ==
  ASSUME ShapeOK, AdmitsOnce, Next, NEW c \in Contract
  PROVE  /\ stage[c] \in Over => stage'[c] = stage[c]
         /\ stage[c] \in Running => stage'[c] \in Running \cup Over
         /\ stage[c] = "none" => stage'[c] = "none" \/ (Submit /\ c \in Phases[phase] /\ stage'[c] = "queued")
<1>1. ASSUME NEW w \in Contract, WorkerStep(w) \/ Hang(w)
      PROVE  /\ stage[c] \in Over => stage'[c] = stage[c]
             /\ stage[c] \in Running => stage'[c] \in Running \cup Over
             /\ stage[c] = "none" => stage'[c] = "none"
  <2>1. PICK to : Moves(w, to)
    BY <1>1, WorkerFrame
  <2> QED BY <2>1 DEF Moves, ShapeOK, TypeOK, Running, Over
<1>2. CASE Others
  BY <1>2, OthersFrame
<1>3. CASE Orchestrate /\ (UNCHANGED stage \/ stage' = ShutDown)
  BY <1>3 DEF ShutDown, Running, Over
<1>4. CASE Submit
  <2>1. \A d \in Phases[phase] : stage[d] = "none"
    BY <1>4 DEF Submit, AdmitsOnce
  <2> QED BY <1>4, <2>1 DEF Submit, Running, Over
<1> QED BY <1>1, <1>2, <1>3, <1>4, NextSplits, StageFrame

-----------------------------------------------------------------------------
(* Drafts. *)

DraftOf(c) ==
    stage[c] \in {"observing", "closing", "building", "returned"} =>
         /\ draft[c] \in Draft
         /\ Role[c] # "scout" => draft[c].result.assess = None
         /\ draft[c].result.assess = "actionable" => draft[c].raw.assess = "actionable"
         /\ stage[c] = "building" /\ draft[c].seen => draft[c].result.assess # "actionable"
         /\ stage[c] = "returned" /\ draft[c].result.assess = "actionable" =>
              draft[c].raw.findings = "typed"

\* Another contract's draft is as it was.
LEMMA DraftKept ==
  ASSUME DraftOK, NEW x \in Contract, draft'[x] = draft[x], stage'[x] = stage[x] PROVE DraftOf(x)'
BY DEF DraftOK, DraftOf

\* What is being constructed stays honest.
LEMMA DraftStep ==
  ASSUME ShapeOK, DraftOK, AdmitsOnce, Next PROVE DraftOK'
<1>1. CASE Others
  BY <1>1, OthersFrame DEF DraftOK
<1>2. CASE Orchestrate
  <2>1. UNCHANGED draft /\ \A c \in Contract : stage'[c] \in {stage[c], "queued", "dropped"}
    BY <1>2, StageFrame DEF ShutDown, Submit
  <2> QED BY <2>1 DEF DraftOK
<1>3. ASSUME NEW c \in Contract, UNCHANGED draft, NEW to \in Running \cup {"raised"}, Moves(c, to),
             to \notin {"observing", "closing", "building"}
      PROVE  DraftOK'
  <2>1. \A d \in Contract : stage'[d] = IF d = c THEN to ELSE stage[d]
    BY <1>3 DEF Moves, ShapeOK, TypeOK
  <2> QED BY <1>3, <2>1 DEF DraftOK, Running
<1>4. ASSUME NEW c \in Contract, Start(c) \/ MakeRunner(c) \/ Launch(c) \/ Abort(c) \/ Hang(c) PROVE DraftOK'
  <2>1. UNCHANGED draft
    BY <1>4 DEF Start, MakeRunner, Launch, Abort, Hang
  <2>2. \E to \in {"started", "launching", "pi", "raised", "hung"} : Moves(c, to)
    BY <1>4 DEF Start, MakeRunner, Launch, Abort, Hang, Worker, Leave, Moves, Running
  <2> QED BY <2>1, <2>2, <1>3 DEF Running
<1>5. ASSUME NEW c \in Contract, NEW raw \in Raws[c], PiEnds(c, raw) PROVE DraftOK'
  <2> DEFINE d == [raw |-> raw, result |-> Verdict(c, raw), seen |-> FALSE]
  <2>1. raw \in Raw
    BY RunAssumption
  <2>2. /\ d \in Draft /\ (Role[c] # "scout" => d.result.assess = None)
        /\ d.result.assess = "actionable" => d.raw.assess = "actionable"
    BY <2>1, VerdictTyped DEF Draft
  <2>3. draft' = [draft EXCEPT ![c] = d] /\ \E to \in {"observing", "closing"} : stage' = [stage EXCEPT ![c] = to]
    BY <1>5 DEF PiEnds, Worker
  <2> HIDE DEF d
  <2>4. \A x \in Contract : x # c => draft'[x] = draft[x] /\ stage'[x] = stage[x]
    BY <2>3 DEF ShapeOK, TypeOK
  <2>5. draft'[c] = d /\ stage'[c] \in {"observing", "closing"}
    BY <2>3 DEF ShapeOK, TypeOK
  <2>6. DraftOf(c)'
    BY <2>2, <2>5 DEF DraftOf
  <2> QED BY <2>4, <2>6, DraftKept DEF DraftOK, DraftOf
<1>6. ASSUME NEW c \in Contract, NEW k \in Commit, Observe(c, k) PROVE DraftOK'
  <2>1. stage[c] = "observing" /\ draft[c] \in Draft /\ draft[c].result \in Result
    BY <1>6 DEF Observe, Worker, DraftOK, Draft
  <2> DEFINE r == IF c \in token THEN Controlled(c, draft[c].result) ELSE [draft[c].result EXCEPT !.commit = k]
  <2>2. /\ r \in Result /\ (Role[c] # "scout" => r.assess = None)
        /\ r.assess = "actionable" => draft[c].result.assess = "actionable"
    BY <2>1, ControlledTyped DEF Result, DraftOK
  <2>3. draft' = [draft EXCEPT ![c].result = r] /\ stage' = [stage EXCEPT ![c] = "closing"]
    BY <1>6 DEF Observe, Worker
  <2> HIDE DEF r
  <2>4. \A x \in Contract : x # c => draft'[x] = draft[x] /\ stage'[x] = stage[x]
    BY <2>3 DEF ShapeOK, TypeOK
  <2>5. /\ draft'[c] = [draft[c] EXCEPT !.result = r] /\ stage'[c] = "closing"
    BY <2>3 DEF ShapeOK, TypeOK
  <2>6. draft'[c] \in Draft /\ draft'[c].result = r /\ draft'[c].raw = draft[c].raw
    BY <2>1, <2>2, <2>5 DEF Draft
  <2>7. draft[c].result.assess = "actionable" => draft[c].raw.assess = "actionable"
    BY <2>1 DEF DraftOK
  <2>8. DraftOf(c)'
    BY <2>2, <2>5, <2>6, <2>7 DEF DraftOf
  <2> QED BY <2>4, <2>8, DraftKept DEF DraftOK, DraftOf
<1>7. ASSUME NEW c \in Contract, Close(c) PROVE DraftOK'
  <2>1. stage[c] = "closing" /\ draft[c] \in Draft /\ draft[c].result \in Result
    BY <1>7 DEF Close, Worker, DraftOK, Draft
  <2> DEFINE r == IF c \in token THEN Controlled(c, draft[c].result) ELSE draft[c].result
             b == c \in token
  <2>2. /\ r \in Result /\ (Role[c] # "scout" => r.assess = None) /\ b \in BOOLEAN
        /\ r.assess = "actionable" => draft[c].result.assess = "actionable"
        /\ b => r.assess # "actionable"
    BY <2>1, ControlledTyped DEF DraftOK
  <2>3. draft' = [draft EXCEPT ![c].result = r, ![c].seen = b] /\ stage' = [stage EXCEPT ![c] = "building"]
    BY <1>7 DEF Close, Worker
  <2> HIDE DEF r, b
  <2>4. \A x \in Contract : x # c => draft'[x] = draft[x] /\ stage'[x] = stage[x]
    BY <2>3 DEF ShapeOK, TypeOK
  <2>5. /\ draft'[c] = [draft[c] EXCEPT !.result = r, !.seen = b] /\ stage'[c] = "building"
    BY <2>3 DEF ShapeOK, TypeOK
  <2>6. draft'[c] \in Draft /\ draft'[c].result = r /\ draft'[c].raw = draft[c].raw /\ draft'[c].seen = b
    BY <2>1, <2>2, <2>5 DEF Draft
  <2>7. draft[c].result.assess = "actionable" => draft[c].raw.assess = "actionable"
    BY <2>1 DEF DraftOK
  <2>8. DraftOf(c)'
    BY <2>2, <2>5, <2>6, <2>7 DEF DraftOf
  <2> QED BY <2>4, <2>8, DraftKept DEF DraftOK, DraftOf
<1>8. ASSUME NEW c \in Contract, Build(c) PROVE DraftOK'
  <2>1. stage[c] = "building" /\ draft[c] \in Draft /\ draft[c].result \in Result /\ UNCHANGED draft
    BY <1>8 DEF Build, DraftOK, Draft
  <2>2. \/ stage' = [stage EXCEPT ![c] = "raised"]
        \/ /\ stage' = [stage EXCEPT ![c] = "returned"]
           /\ draft[c].seen \/ Constructible(c, draft[c].raw, draft[c].result)
    BY <1>8 DEF Build, Leave
  <2>3. /\ \A x \in Contract : x # c => stage'[x] = stage[x]
        /\ stage'[c] \in {"raised", "returned"}
        /\ stage'[c] = "returned" => draft[c].seen \/ Constructible(c, draft[c].raw, draft[c].result)
    BY <2>2 DEF ShapeOK, TypeOK
  <2>4. draft[c].result.assess = "actionable" => Role[c] = "scout"
    BY <2>1, GateAssumption DEF DraftOK
  <2>5. stage'[c] = "returned" /\ draft[c].result.assess = "actionable" => draft[c].raw.findings = "typed"
    BY <2>1, <2>3, <2>4 DEF DraftOK, Constructible
  <2> QED BY <2>1, <2>3, <2>5 DEF DraftOK
<1> QED BY <1>1, <1>2, <1>4, <1>5, <1>6, <1>7, <1>8, NextSplits DEF WorkerStep

-----------------------------------------------------------------------------
(* What each step of the orchestrator leaves alone. *)

\* _bind_phase: what it changes.
LEMMA BindFrame ==
  ASSUME BindPhase
  PROVE  /\ pc = "bind" /\ failures \subseteq failures'
         /\ \/ pc' = "admit" /\ queue' = Phases[phase] /\ Bindable(receipts, phase)
            \/ pc' = "gate" /\ queue' = {}
         /\ UNCHANGED <<phase, pending, done, late, toStop, results, receipts, decision, lease, owed, due, closed, over,
                        stage, draft, token, requested, stops, atlas, cancels, a2a>>
BY DEF BindPhase, Fail, leaseVars, workerVars, atlasVars

Granted(c) ==
    /\ ~closed /\ lease' = [ExpiredLeases EXCEPT ![c] = "active"] /\ queue' = queue \ {c}
    /\ Journal(c, "assignment", "admit") /\ failures' = failures

\* Admission of one contract: what it changes.
LEMMA AdmitFrame ==
  ASSUME NEW c \in Contract, Admit(c)
  PROVE  /\ pc = "admit" /\ c \in queue /\ owed' = owed \cup Expired /\ failures \subseteq failures'
         /\ \/ Granted(c)
            \/ lease' = ExpiredLeases /\ pc' = "gate" /\ queue' = {} /\ UNCHANGED <<a2a, stage>>
         /\ UNCHANGED <<phase, pending, done, late, toStop, results, receipts, decision, due, closed, over, draft, token,
                        requested, stops, atlas, cancels>>
BY DEF Admit, Granted, Fail, atlasVars

\* Submission of the admitted: what it changes.
LEMMA SubmitFrame ==
  ASSUME Submit
  PROVE  /\ pc = "admit" /\ queue = {} /\ pc' = "poll" /\ pending' = Phases[phase]
         /\ stage' = [c \in Contract |-> IF c \in Phases[phase] THEN "queued" ELSE stage[c]]
         /\ UNCHANGED <<phase, queue, done, late, toStop, results, receipts, failures, decision, lease, owed, due,
                        closed, over, draft, token, requested, stops, atlas, cancels, a2a>>
BY DEF Submit, leaseVars, atlasVars

\* The wait for futures: what it changes.
LEMMA PollFrame ==
  ASSUME Poll
  PROVE  /\ pc = "poll" /\ pc' = "reap" /\ done' = {c \in pending : stage[c] \in Over} /\ pending' = pending \ done'
         /\ UNCHANGED <<phase, queue, late, toStop, results, receipts, failures, decision, lease, owed, due, closed,
                        over, stage, draft, token, requested, stops, atlas, cancels, a2a>>
BY DEF Poll, leaseVars, workerVars, atlasVars

\* A turn of the loop reaps what ended: what it changes.
LEMMA ReapFrame ==
  ASSUME Reap
  PROVE  /\ pc = "reap" /\ pc' = "stopping" /\ lease' = ExpiredLeases /\ owed' = owed \cup Expired
         /\ late' = late \cup (pending \cap Expired) /\ pending' = pending \ Expired /\ failures \subseteq failures'
         /\ UNCHANGED <<phase, queue, done, results, receipts, decision, due, closed, over, stage, draft, token,
                        requested, stops, atlas, cancels, a2a>>
BY DEF Reap, workerVars, atlasVars

\* The orchestrator's call of stop(): what it changes.
LEMMA MainStopFrame ==
  ASSUME NEW c \in Contract, MainStop(c)
  PROVE  /\ StopCall("main", c)
         /\ UNCHANGED <<pc, phase, queue, pending, done, late, toStop, results, receipts, failures, decision, lease,
                        owed, due, closed, over, stage, draft, atlas, cancels, a2a>>
BY DEF MainStop, runVars, leaseVars, atlasVars

\* The answer to that call taken: what it changes.
LEMMA AcknowledgeFrame ==
  ASSUME MainAcknowledge
  PROVE  /\ Answered("main") /\ failures \subseteq failures' /\ stops' = [stops EXCEPT !["main"] = None]
         /\ toStop' = toStop \ {stops["main"].lease}
         /\ \/ stops["main"].answer = "quiet" /\ owed' = owed \ {stops["main"].lease}
            \/ owed' = owed /\ "not_quiescent" \in failures'
         /\ UNCHANGED <<pc, phase, queue, pending, done, late, results, receipts, decision, lease, due, closed, over,
                        stage, draft, token, requested, atlas, cancels, a2a>>
BY DEF MainAcknowledge, workerVars, atlasVars

\* The loop ends its stops or an iteration, and the sweep ends.
Turned ==
    \/ pc = "stopping" /\ pc' = "settle"
    \/ pc = "settle" /\ done = {} /\ pc' = "poll" /\ pending # {}
    \/ pc = "settle" /\ done = {} /\ pc' = "drain" /\ pending = {}
    \/ pc = "sweep" /\ toStop = {} /\ pc' = "reported"

\* The turns between parts of the loop change no record.
LEMMA TurnFrame ==
  ASSUME LoopStopped \/ Settled \/ Report
  PROVE  /\ Turned
         /\ UNCHANGED <<phase, queue, pending, done, late, toStop, results, receipts, failures, decision, lease, owed,
                        due, closed, over, stage, draft, token, requested, stops, atlas, cancels, a2a>>
BY DEF LoopStopped, Settled, Report, Turned, leaseVars, workerVars, atlasVars

\* Usage that arrives with a result: what it changes.
LEMMA UsageFrame ==
  ASSUME NEW c \in Contract, NEW b \in BOOLEAN, SettleUsage(c, b)
  PROVE  /\ pc = "settle" /\ c \in done /\ stage[c] = "returned" /\ pc' = "record" /\ queue' = {c}
         /\ \/ lease' = [lease EXCEPT ![c] = lease[c]]
            \/ lease[c] = "active" /\ lease' = [lease EXCEPT ![c] = "over_budget"]
         /\ UNCHANGED <<phase, pending, done, late, toStop, results, receipts, failures, decision, owed, due, closed,
                        stage, draft, token, requested, stops, atlas, cancels, a2a>>
BY DEF SettleUsage, workerVars, atlasVars

\* A future that raised: what it changes.
LEMMA ExceptionFrame ==
  ASSUME NEW c \in Contract, SettleException(c)
  PROVE  /\ pc = "settle" /\ c \in done /\ Cancel({c}) /\ done' = done \ {c} /\ failures \subseteq failures'
         /\ UNCHANGED <<pc, phase, queue, pending, late, toStop, results, receipts, decision, due, closed, over, stage,
                        draft, token, requested, stops, atlas, cancels, a2a>>
BY DEF SettleException, Fail, workerVars, atlasVars

\* The orchestrator's steps, by name.
LEMMA OrchestrateSplits ==
  ASSUME Orchestrate
  PROVE  \/ BindPhase \/ Submit \/ Poll \/ Reap \/ LoopStopped \/ Settled \/ Report \/ MainAcknowledge \/ Drain
         \/ ClosePhase
         \/ \E c \in Contract : \/ Admit(c) \/ MainStop(c) \/ SettleResult(c) \/ SettleException(c)
                                \/ \E b \in BOOLEAN : SettleUsage(c, b)
         \/ \E a : Gate(a)
BY DEF Orchestrate

\* Recording of a result is journalled, or the run raises.
LEMMA RecordFrame ==
  ASSUME NEW c \in Contract, ResultTaken(c) \/ ResultAccepted(c) \/ ResultRefused(c)
  PROVE  /\ pc' \in {"settle", "raised"} /\ failures \subseteq failures'
         /\ \/ UNCHANGED <<results, a2a, stage>>
            \/ /\ \E r : results' = [results EXCEPT ![c] = r]
               /\ \/ a2a' = [a2a EXCEPT ![c] = Append(@, "result")] /\ stage' = stage
                  \/ a2a' = a2a /\ stage' = ShutDown /\ pc' = "raised"
<1>1. ASSUME NEW r, NEW kinds, Recorded(c, r, kinds)
      PROVE  /\ pc' \in {"settle", "raised"} /\ failures \subseteq failures'
             /\ \E x : results' = [results EXCEPT ![c] = x]
             /\ \/ a2a' = [a2a EXCEPT ![c] = Append(@, "result")] /\ stage' = stage
                \/ a2a' = a2a /\ stage' = ShutDown /\ pc' = "raised"
  BY <1>1 DEF Recorded, Journal, Fail
<1>2. CASE Refused
  BY <1>2 DEF Refused, Fail
<1> QED BY <1>1, <1>2 DEF ResultTaken, ResultAccepted, ResultRefused

\* Every step keeps the types.
LEMMA ShapeStep ==
  ASSUME ShapeOK, DraftOK, FuturesOK, BoundOK, Next PROVE ShapeOK'
<1>1. CASE Others
  BY <1>1, ShapeOthers DEF Others
<1>2. CASE Orchestrate
  BY <1>2, OrchestrateSplits, ShapeAdmission, ShapeLoop, ShapeSettle, ShapeDrain, ShapeClose, ShapeGate
<1> QED BY <1>1, <1>2, NextSplits, ShapeWorker

-----------------------------------------------------------------------------
(* How a lease moves, whoever acts. *)

Finishes(c) == c \in done /\ stage[c] = "returned" /\ (lease'[c] = "finished" => ResultAccepted(c))

LeaseMove(c) ==
    \/ lease'[c] = lease[c]
    \/ lease[c] = "active" /\ lease'[c] \in {"cancelled", "timed_out"} /\ c \in owed'
    \/ lease'[c] = "active" /\ Admit(c) /\ ~closed
    \/ lease[c] = "active" /\ lease'[c] \in {"finished", "over_budget"} /\ Finishes(c)

\* A stop is acknowledged by the caller whose stop() answered True.
Acknowledged(c) ==
    \E w \in {"main", "atlas"} : stops[w] # None /\ stops[w].answer = "quiet" /\ stops[w].lease = c

OwedMove(c) ==
    /\ c \in owed' => c \in owed \/ (lease[c] = "active" /\ lease'[c] \in {"cancelled", "timed_out"})
    /\ c \in owed /\ c \notin owed' => Acknowledged(c)

\* Ending a set of leases moves the active ones of it only.
LEMMA EndedMoves ==
  ASSUME NEW S, NEW x, NEW c \in Contract
  PROVE  Ended(S, x)[c] = IF c \in S /\ lease[c] = "active" THEN x ELSE lease[c]
BY DEF Ended

\* Cancellation and expiry owe a stop to every lease they end.
LEMMA CancelMoves ==
  ASSUME ShapeOK, NEW S, Cancel(S), NEW c \in Contract PROVE LeaseMove(c) /\ OwedMove(c)
BY EndedMoves DEF Cancel, LeaseMove, OwedMove, Active

\* So does expiry.
LEMMA ExpiryMoves ==
  ASSUME ShapeOK, owed' = owed \cup Expired, NEW c \in Contract, lease'[c] = ExpiredLeases[c]
  PROVE  LeaseMove(c) /\ OwedMove(c)
BY EndedMoves DEF Expired, ExpiredLeases, LeaseMove, OwedMove, Active

\* A step that leaves the leases alone moves none.
LEMMA StillMoves ==
  ASSUME UNCHANGED <<lease, owed>>, NEW c \in Contract PROVE LeaseMove(c) /\ OwedMove(c)
BY DEF LeaseMove, OwedMove

\* How a lease may move in one step.
LEMMA LeaseStep ==
  ASSUME ShapeOK, DraftOK, AdmitsOnce, FuturesOK, Next, NEW c \in Contract
  PROVE  LeaseMove(c) /\ OwedMove(c)
<1>1. ASSUME NEW w \in Contract, WorkerStep(w) \/ Hang(w) PROVE LeaseMove(c) /\ OwedMove(c)
  <2>1. UNCHANGED <<lease, owed>>
    BY <1>1, WorkerFrame
  <2> QED BY <2>1, StillMoves
<1>2. CASE Others
  <2>1. ASSUME NEW S, AtlasCancel(S) PROVE LeaseMove(c) /\ OwedMove(c)
    BY <2>1, CancelMoves DEF AtlasCancel
  <2>2. CASE AtlasAcknowledge
    <3>1. lease' = lease /\ stops["atlas"] # None
      BY <2>2 DEF AtlasAcknowledge, Answered
    <3>2. \/ stops["atlas"].answer = "quiet" /\ owed' = owed \ {stops["atlas"].lease}
          \/ owed' = owed
      BY <2>2 DEF AtlasAcknowledge
    <3> QED BY <3>1, <3>2 DEF LeaseMove, OwedMove, Acknowledged
  <2>3. CASE \/ \E d \in Contract : TimeUp(d) \/ AtlasStop(d)
             \/ \E who \in {"main", "atlas"}, ok \in BOOLEAN : StopReturns(who, ok)
    <3>1. UNCHANGED <<lease, owed>>
      BY <2>3 DEF TimeUp, AtlasStop, StopReturns, leaseVars
    <3> QED BY <3>1, StillMoves
  <2> QED BY <1>2, <2>1, <2>2, <2>3 DEF Others, AtlasCancelWorker, AtlasCancelTeam
<1>3. CASE BindPhase \/ Submit \/ Poll \/ LoopStopped \/ Settled \/ Report \/ Drain \/ ClosePhase
  <2>1. UNCHANGED <<lease, owed>>
    BY <1>3, BindFrame, SubmitFrame, PollFrame, TurnFrame, DrainFrame
       DEF ClosePhase, leaseVars
  <2> QED BY <2>1, StillMoves
<1>4. CASE Reap
  BY <1>4, ReapFrame, ExpiryMoves
<1>5. CASE MainAcknowledge
  <2>1. lease' = lease /\ stops["main"] # None
    BY <1>5, AcknowledgeFrame DEF Answered
  <2>2. \/ stops["main"].answer = "quiet" /\ owed' = owed \ {stops["main"].lease}
        \/ owed' = owed
    BY <1>5, AcknowledgeFrame
  <2> QED BY <2>1, <2>2 DEF LeaseMove, OwedMove, Acknowledged
<1>6. ASSUME NEW d \in Contract, Admit(d) PROVE LeaseMove(c) /\ OwedMove(c)
  <2>1. owed' = owed \cup Expired /\ pc = "admit" /\ d \in queue
    BY <1>6, AdmitFrame
  <2>2. CASE lease' = ExpiredLeases
    BY <2>1, <2>2, ExpiryMoves
  <2>3. CASE ~closed /\ lease' = [ExpiredLeases EXCEPT ![d] = "active"]
    <3>1. d # c => lease'[c] = ExpiredLeases[c]
      BY <2>3 DEF ExpiredLeases, Ended
    <3>2. d = c => lease'[c] = "active" /\ lease[c] = "none"
      BY <2>1, <2>3 DEF ExpiredLeases, Ended, AdmitsOnce, Fresh
    <3>3. CASE d = c
      BY <1>6, <2>1, <2>3, <3>2, <3>3 DEF LeaseMove, OwedMove, Expired, Active
    <3> QED BY <2>1, <3>1, <3>3, ExpiryMoves
  <2> QED BY <1>6, <2>2, <2>3, AdmitFrame DEF Granted
<1>7. ASSUME NEW d \in Contract, MainStop(d) PROVE LeaseMove(c) /\ OwedMove(c)
  BY <1>7, MainStopFrame, StillMoves
<1>8. ASSUME NEW d \in Contract, SettleException(d) PROVE LeaseMove(c) /\ OwedMove(c)
  BY <1>8, ExceptionFrame, CancelMoves
<1>9. ASSUME NEW d \in Contract, NEW b \in BOOLEAN, SettleUsage(d, b) PROVE LeaseMove(c) /\ OwedMove(c)
  <2>1. owed' = owed /\ d \in done /\ stage[d] = "returned"
    BY <1>9, UsageFrame
  <2>2. \/ lease'[c] = lease[c]
        \/ d = c /\ lease[c] = "active" /\ lease'[c] = "over_budget"
    BY <1>9, UsageFrame DEF ShapeOK, TypeOK
  <2> QED BY <2>1, <2>2 DEF LeaseMove, OwedMove, Finishes
<1>10. ASSUME NEW d \in Contract, SettleResult(d) PROVE LeaseMove(c) /\ OwedMove(c)
  <2>1. d \in done /\ stage[d] = "returned" /\ (ResultTaken(d) \/ ResultAccepted(d) \/ ResultRefused(d))
    BY <1>10, SettleFrame
  <2>2. CASE ResultTaken(d)
    BY <2>2, StillMoves DEF ResultTaken
  <2>3. CASE ResultRefused(d)
    BY <2>3, StillMoves, ExpiryMoves DEF ResultRefused
  <2>4. CASE ResultAccepted(d)
    <3>1. /\ owed' = owed \cup Expired /\ lease[d] = "active" /\ d \notin due
          /\ lease' = [ExpiredLeases EXCEPT ![d] = "finished"]
      BY <2>4 DEF ResultAccepted
    <3>2. d # c => lease'[c] = ExpiredLeases[c]
      BY <3>1 DEF ExpiredLeases, Ended
    <3>3. CASE d = c
      <4>1. lease'[c] = "finished"
        BY <3>1, <3>3 DEF ExpiredLeases, Ended
      <4> QED BY <2>1, <2>4, <3>1, <3>3, <4>1 DEF LeaseMove, OwedMove, Finishes, Expired
    <3> QED BY <3>1, <3>2, <3>3, ExpiryMoves
  <2> QED BY <2>1, <2>2, <2>3, <2>4
<1>11. ASSUME NEW a, Gate(a) PROVE LeaseMove(c) /\ OwedMove(c)
  <2>1. CASE UNCHANGED <<lease, owed>>
    BY <2>1, StillMoves
  <2>2. CASE Cancel(Contract)
    BY <2>2, CancelMoves
  <2> QED BY <1>11, <2>1, <2>2, GateFrame
<1> QED BY <1>1, <1>2, <1>3, <1>4, <1>5, <1>6, <1>7, <1>8, <1>9, <1>10, <1>11, NextSplits, OrchestrateSplits

\* A team that is closed stays closed, and has nobody active when it closes.
LEMMA ClosedStep ==
  ASSUME ShapeOK, Next
  PROVE  /\ closed => closed'
         /\ closed' => closed \/ Active(lease') = {}
<1>1. ASSUME Cancel(Contract) PROVE Active(lease') = {}
  BY <1>1, EndedMoves DEF Cancel, Active
<1>2. ASSUME NEW w \in Contract, WorkerStep(w) \/ Hang(w) PROVE closed' = closed
  BY <1>2, WorkerFrame
<1>3. CASE Others
  <2>1. CASE AtlasCancelTeam
    BY <2>1, <1>1 DEF AtlasCancelTeam, AtlasCancel
  <2>2. CASE AtlasAcknowledge \/ \E c \in Contract : AtlasCancelWorker(c) \/ TimeUp(c) \/ AtlasStop(c)
    <3>1. closed' = closed
      BY <2>2 DEF AtlasCancelWorker, TimeUp, AtlasStop, AtlasAcknowledge, leaseVars
    <3> QED BY <3>1
  <2>3. CASE \E who \in {"main", "atlas"}, ok \in BOOLEAN : StopReturns(who, ok)
    <3>1. closed' = closed
      BY <2>3 DEF StopReturns, leaseVars
    <3> QED BY <3>1
  <2> QED BY <1>3, <2>1, <2>2, <2>3 DEF Others
<1>4. CASE BindPhase \/ Submit \/ Poll \/ LoopStopped \/ Settled \/ Report \/ Drain \/ ClosePhase \/ Reap
           \/ MainAcknowledge
  <2>1. closed' = closed
    BY <1>4, BindFrame, SubmitFrame, PollFrame, TurnFrame, DrainFrame, ReapFrame, AcknowledgeFrame
       DEF ClosePhase, leaseVars
  <2> QED BY <2>1
<1>5. ASSUME NEW d \in Contract, Admit(d) \/ MainStop(d) \/ SettleException(d) PROVE closed' = closed
  BY <1>5, AdmitFrame, MainStopFrame, ExceptionFrame
<1>6. ASSUME NEW d \in Contract, SettleResult(d) \/ \E b \in BOOLEAN : SettleUsage(d, b) PROVE closed' = closed
  BY <1>6, UsageFrame DEF SettleResult
<1>7. ASSUME NEW a, Gate(a) PROVE closed' => closed \/ Active(lease') = {}
  BY <1>7, <1>1, GateFrame
<1>8. ASSUME NEW a, Gate(a) PROVE closed => closed'
  BY <1>8, GateFrame
<1> QED BY <1>2, <1>3, <1>4, <1>5, <1>6, <1>7, <1>8, NextSplits, OrchestrateSplits

\* The states leases are in follow: a stop is owed only by an ended lease.
LEMMA LeasesStep ==
  ASSUME ShapeOK, DraftOK, AdmitsOnce, FuturesOK, BoundOK, LeasesOK, Next PROVE LeasesOK'
<1>1. ASSUME NEW c \in owed' PROVE lease'[c] \in {"cancelled", "timed_out"}
  <2>1. ShapeOK'
    BY ShapeStep
  <2>2. c \in Contract
    BY <2>1 DEF ShapeOK, TypeOK
  <2>3. LeaseMove(c) /\ OwedMove(c)
    BY <2>2, LeaseStep
  <2>4. c \in owed => lease[c] \in {"cancelled", "timed_out"}
    BY DEF LeasesOK
  <2>5. Admit(c) => lease[c] = "none"
    BY <2>2, AdmitFrame DEF AdmitsOnce, Fresh
  <2> QED BY <1>1, <2>3, <2>4, <2>5 DEF LeaseMove, OwedMove
<1>2. ASSUME closed' PROVE Active(lease') = {}
  <2>1. CASE closed
    <3>1. \A c \in Contract : lease[c] # "active"
      BY <2>1 DEF LeasesOK, Active
    <3>2. \A c \in Contract : lease'[c] # "active"
      BY <2>1, <3>1, LeaseStep DEF LeaseMove
    <3> QED BY <3>2 DEF Active
  <2> QED BY <1>2, <2>1, ClosedStep
<1> QED BY <1>1, <1>2 DEF LeasesOK

-----------------------------------------------------------------------------
(* What is recorded of a contract. *)

\* The journal and the results of a contract change when it is admitted, when
\* its done future is settled and when its late one is drained.
LEMMA RecordsStep ==
  ASSUME ShapeOK, DraftOK, FuturesOK, Next, NEW c \in Contract,
         ~Admit(c), ~SettleResult(c), ~(Drain /\ c \in late)
  PROVE  a2a'[c] = a2a[c] /\ results'[c] = results[c]
<1>1. ASSUME NEW w \in Contract, WorkerStep(w) \/ Hang(w) PROVE UNCHANGED <<a2a, results>>
  BY <1>1, WorkerFrame
<1>2. CASE Others
  BY <1>2, OthersFrame
<1>3. CASE BindPhase \/ Submit \/ Poll \/ LoopStopped \/ Settled \/ Report \/ ClosePhase \/ Reap \/ MainAcknowledge
  BY <1>3, BindFrame, SubmitFrame, PollFrame, TurnFrame, ReapFrame, AcknowledgeFrame DEF ClosePhase
<1>4. ASSUME NEW d \in Contract, MainStop(d) \/ SettleException(d) \/ \E b \in BOOLEAN : SettleUsage(d, b)
      PROVE  UNCHANGED <<a2a, results>>
  BY <1>4, MainStopFrame, ExceptionFrame, UsageFrame
<1>5. ASSUME NEW d \in Contract, Admit(d) PROVE a2a'[c] = a2a[c] /\ results'[c] = results[c]
  <2>1. d # c /\ results' = results
    BY <1>5, AdmitFrame
  <2>2. a2a' = a2a \/ a2a' = [a2a EXCEPT ![d] = Append(@, "assignment")]
    BY <1>5, AdmitFrame DEF Granted, Journal
  <2> QED BY <2>1, <2>2 DEF ShapeOK
<1>6. ASSUME NEW d \in Contract, SettleResult(d) PROVE a2a'[c] = a2a[c] /\ results'[c] = results[c]
  <2>1. d # c /\ (ResultTaken(d) \/ ResultAccepted(d) \/ ResultRefused(d))
    BY <1>6, SettleFrame
  <2>2. /\ a2a' = a2a \/ a2a' = [a2a EXCEPT ![d] = Append(@, "result")]
        /\ results' = results \/ \E r : results' = [results EXCEPT ![d] = r]
    BY <2>1, RecordFrame
  <2>3. a2a'[c] = a2a[c]
    BY <2>1, <2>2 DEF ShapeOK
  <2>4. results'[c] = results[c]
    BY <2>1, <2>2 DEF ShapeOK, TypeOK
  <2> QED BY <2>3, <2>4
<1>7. CASE Drain
  <2>1. c \notin LateReturned
    BY <1>7 DEF LateReturned
  <2> QED BY <1>7, <2>1, DrainFrame
<1>8. ASSUME NEW a, Gate(a) PROVE UNCHANGED <<a2a, results>>
  BY <1>8, GateFrame
<1> QED BY <1>1, <1>2, <1>3, <1>4, <1>5, <1>6, <1>7, <1>8, NextSplits, OrchestrateSplits

\* A contract whose future the loop holds, or that it has not come to.
Held(c) == c \in pending \cup done \cup late

\* An assigned contract is not fresh.
LEMMA AssignedIsNotFresh == ASSUME NEW c PROVE ~(Assigned(c) /\ Fresh(c))
<1>1. <<"assignment">> # <<>>
  OBVIOUS
<1> QED BY <1>1 DEF Assigned, Fresh

\* Settling and draining are of contracts that were assigned.
LEMMA RecordedWasAssigned ==
  ASSUME ShapeOK, DraftOK, FuturesOK, NEW c \in Contract, SettleResult(c) \/ (Drain /\ c \in late)
  PROVE  Assigned(c)
<1>1. CASE SettleResult(c)
  BY <1>1, SettleFrame DEF FuturesOK
<1>2. CASE Drain /\ c \in late
  BY <1>2 DEF FuturesOK
<1> QED BY <1>1, <1>2

\* A fresh contract stays so until it is admitted.
LEMMA FreshStep ==
  ASSUME ShapeOK, DraftOK, AdmitsOnce, FuturesOK, Next, NEW c \in Contract, Fresh(c), ~Admit(c),
         ~(Submit /\ c \in Phases[phase])
  PROVE  Fresh(c)'
<1>1. a2a'[c] = a2a[c] /\ results'[c] = results[c]
  BY RecordsStep, RecordedWasAssigned, AssignedIsNotFresh
<1>2. stage'[c] = "none"
  BY StageStep DEF Fresh
<1>3. lease'[c] = "none"
  BY LeaseStep DEF LeaseMove, Fresh
<1> QED BY <1>1, <1>2, <1>3 DEF Fresh

\* Steps that leave the loop where it is: the workers', Atlas's, the clock's
\* and the calls of stop().
Still ==
    /\ UNCHANGED <<pc, phase, queue, pending, done, late, results, receipts, decision, a2a>>
    /\ failures \subseteq failures'

\* The steps of a run, by name.
LEMMA StepSplits ==
  ASSUME Next
  PROVE  \/ Still \/ BindPhase \/ Submit \/ Poll \/ Reap \/ LoopStopped \/ Settled \/ Report \/ Drain \/ ClosePhase
         \/ \E c \in Contract : \/ Admit(c) \/ SettleResult(c) \/ SettleException(c)
                                \/ \E b \in BOOLEAN : SettleUsage(c, b)
         \/ \E a : Gate(a)
<1>1. ASSUME NEW w \in Contract, WorkerStep(w) \/ Hang(w) PROVE Still
  BY <1>1, WorkerFrame DEF Still
<1>2. CASE Others
  BY <1>2, OthersFrame DEF Still
<1>3. CASE MainAcknowledge
  BY <1>3, AcknowledgeFrame DEF Still
<1>4. ASSUME NEW c \in Contract, MainStop(c) PROVE Still
  BY <1>4, MainStopFrame DEF Still
<1> QED BY <1>1, <1>2, <1>3, <1>4, NextSplits, OrchestrateSplits

-----------------------------------------------------------------------------
(* Admission. *)

\* The run goes on to the next phase when it closed the one before.
LEMMA PhaseStep ==
  ASSUME ShapeOK, DraftOK, FuturesOK, BoundOK, Next
  PROVE  \/ phase' = phase /\ (pc' = "bind" => pc = "bind" /\ Still)
         \/ phase' = phase + 1
<1>1. CASE BindPhase \/ Submit \/ Poll \/ Reap \/ LoopStopped \/ Settled \/ Report \/ Drain
  BY <1>1, BindFrame, SubmitFrame, PollFrame, ReapFrame, TurnFrame, DrainFrame DEF Turned
<1>2. CASE ClosePhase
  BY <1>2, ClosePhaseFrame
<1>3. ASSUME NEW c \in Contract, Admit(c) PROVE phase' = phase /\ pc' # "bind"
  BY <1>3, AdmitFrame DEF Granted, Journal
<1>4. ASSUME NEW c \in Contract, SettleResult(c) PROVE phase' = phase /\ pc' # "bind"
  BY <1>4, SettleFrame, RecordFrame
<1>5. ASSUME NEW c \in Contract, SettleException(c) \/ \E b \in BOOLEAN : SettleUsage(c, b)
      PROVE  phase' = phase /\ pc' # "bind"
  BY <1>5, ExceptionFrame, UsageFrame
<1>6. ASSUME NEW a, Gate(a) PROVE phase' = phase /\ pc' # "bind"
  BY <1>6, GateFrame
<1> QED BY <1>1, <1>2, <1>3, <1>4, <1>5, <1>6, StepSplits DEF Still

\* Later phases stay untouched.
LEMMA FreshAheadStep ==
  ASSUME ShapeOK, DraftOK, AdmitsOnce, FuturesOK, BoundOK, FreshAhead, Next PROVE FreshAhead'
<1> SUFFICES ASSUME NEW p \in DOMAIN Phases, p > phase' \/ (p = phase' /\ pc' = "bind"), NEW c \in Phases[p]
             PROVE  Fresh(c)'
  BY DEF FreshAhead
<1>0. c \in Contract /\ PhaseOf(c) = p /\ p \in Nat /\ phase \in Nat /\ phase \in DOMAIN Phases
  BY PlanFacts DEF ShapeOK, TypeOK
<1>1. p > phase \/ (p = phase /\ pc = "bind")
  BY <1>0, PhaseStep
<1>2. Fresh(c)
  BY <1>1 DEF FreshAhead
<1>3. c \in Phases[phase] => pc = "bind"
  BY <1>0, <1>1, PlanFacts
<1>4. ~Admit(c)
  BY <1>0, <1>3, AdmitFrame DEF AdmitsOnce
<1>5. ~(Submit /\ c \in Phases[phase])
  BY <1>3, SubmitFrame
<1> QED BY <1>0, <1>2, <1>4, <1>5, FreshStep

\* Nobody is admitted twice.
LEMMA AdmitsOnceStep ==
  ASSUME ShapeOK, DraftOK, AdmitsOnce, FuturesOK, FreshAhead, BoundOK, Next PROVE AdmitsOnce'
<1> SUFFICES ASSUME pc' = "admit" PROVE AdmitsOnce'
  BY DEF AdmitsOnce
<1>0. Phases[phase] \subseteq Contract
  BY PlanFacts DEF ShapeOK, TypeOK
<1>1. CASE BindPhase
  <2>1. queue' = Phases[phase] /\ phase' = phase /\ UNCHANGED <<lease, stage, a2a, results>> /\ pc = "bind"
    BY <1>1, BindFrame
  <2>2. \A c \in Phases[phase] : Fresh(c)
    BY <2>1 DEF FreshAhead, ShapeOK, TypeOK
  <2>3. \A c \in Phases[phase] : Fresh(c)'
    BY <2>1, <2>2 DEF Fresh
  <2> QED BY <2>1, <2>3 DEF AdmitsOnce
<1>2. CASE Still
  <2>1. pc = "admit" /\ queue' = queue /\ phase' = phase
    BY <1>2 DEF Still
  <2>2. ~Submit /\ ~Drain /\ \A c \in Contract : ~SettleResult(c)
    BY <2>1, SubmitFrame, DrainFrame DEF SettleResult
  <2>3. \A c \in Contract : ~Admit(c)
    <3> SUFFICES ASSUME NEW c \in Contract, Admit(c) PROVE FALSE
      OBVIOUS
    <3>1. c \in queue /\ c \notin queue'
      BY AdmitFrame DEF Granted
    <3> QED BY <2>1, <3>1
  <2>4. \A c \in queue : Fresh(c)'
    BY <1>0, <2>1, <2>2, <2>3, FreshStep DEF AdmitsOnce
  <2>5. ASSUME NEW c \in Phases[phase] \ queue PROVE Assigned(c)' /\ stage'[c] = "none"
    <3>1. Assigned(c) /\ stage[c] = "none" /\ c \in Contract
      BY <1>0, <2>1 DEF AdmitsOnce
    <3>2. stage'[c] = "none"
      BY <2>2, <3>1, StageStep
    <3>3. a2a'[c] = a2a[c] /\ results'[c] = results[c]
      BY <1>2 DEF Still
    <3> QED BY <3>1, <3>2, <3>3 DEF Assigned
  <2> QED BY <2>1, <2>4, <2>5 DEF AdmitsOnce
<1>3. ASSUME NEW d \in Contract, Admit(d) PROVE AdmitsOnce'
  <2>1. /\ pc = "admit" /\ d \in queue /\ queue' = queue \ {d} /\ phase' = phase /\ results' = results
        /\ Granted(d)
    BY <1>3, AdmitFrame DEF Granted
  <2>2. a2a' = [a2a EXCEPT ![d] = Append(@, "assignment")] /\ stage' = stage
    BY <2>1 DEF Granted, Journal
  <2>3. ~Submit
    BY SubmitFrame
  <2>4. ASSUME NEW c \in queue' PROVE Fresh(c)'
    <3>1. c \in Contract /\ Fresh(c) /\ c # d
      BY <1>0, <2>1 DEF AdmitsOnce
    <3>2. ~Admit(c)
      BY <2>1, <3>1, AdmitFrame DEF Granted
    <3> QED BY <2>3, <3>1, <3>2, FreshStep
  <2>5. Assigned(d)' /\ stage'[d] = "none"
    <3>1. Fresh(d)
      BY <2>1 DEF AdmitsOnce
    <3>2. a2a'[d] = <<"assignment">>
      BY <2>2, <3>1 DEF ShapeOK, Fresh
    <3> QED BY <2>1, <2>2, <3>1, <3>2 DEF Assigned, Fresh
  <2>6. ASSUME NEW c \in Phases[phase] \ queue PROVE Assigned(c)' /\ stage'[c] = "none"
    <3>1. Assigned(c) /\ stage[c] = "none" /\ c \in Contract /\ c # d
      BY <1>0, <2>1 DEF AdmitsOnce
    <3>2. a2a'[c] = a2a[c]
      BY <2>2, <3>1 DEF ShapeOK
    <3> QED BY <2>1, <2>2, <3>1, <3>2 DEF Assigned
  <2>7. queue' \subseteq Phases[phase']
    BY <2>1 DEF AdmitsOnce
  <2>8. \A c \in Phases[phase'] \ queue' : Assigned(c)' /\ stage'[c] = "none"
    BY <2>1, <2>5, <2>6
  <2> QED BY <2>4, <2>7, <2>8 DEF AdmitsOnce
<1>4. CASE Submit \/ Poll \/ Reap \/ LoopStopped \/ Settled \/ Report \/ Drain
  BY <1>4, SubmitFrame, PollFrame, ReapFrame, TurnFrame, DrainFrame DEF Turned
<1>5. ASSUME NEW c \in Contract, SettleResult(c) PROVE FALSE
  BY <1>5, SettleFrame, RecordFrame
<1>6. ASSUME NEW c \in Contract, SettleException(c) \/ \E b \in BOOLEAN : SettleUsage(c, b) PROVE FALSE
  BY <1>6, ExceptionFrame, UsageFrame
<1>7. ASSUME NEW a, Gate(a) PROVE FALSE
  BY <1>7, GateFrame
<1>8. CASE ClosePhase
  BY <1>8, ClosePhaseFrame
<1> QED BY <1>1, <1>2, <1>3, <1>4, <1>5, <1>6, <1>7, <1>8, StepSplits

-----------------------------------------------------------------------------
(* The futures of the loop. *)

\* A future the loop holds was held before, or was just submitted.
LEMMA HeldStep ==
  ASSUME ShapeOK, DraftOK, FuturesOK, BoundOK, Next, NEW c, Held(c)'
  PROVE  Held(c) \/ (Submit /\ c \in Phases[phase])
<1>1. CASE Still
  BY <1>1 DEF Still, Held
<1>2. CASE BindPhase \/ Submit \/ Poll \/ Reap \/ LoopStopped \/ Settled \/ Report \/ Drain
  BY <1>2, BindFrame, SubmitFrame, PollFrame, ReapFrame, TurnFrame, DrainFrame DEF Held
<1>3. CASE ClosePhase
  BY <1>3, ClosePhaseFrame DEF Held
<1>4. ASSUME NEW d \in Contract, Admit(d) PROVE Held(c)
  BY <1>4, AdmitFrame DEF Held
<1>5. ASSUME NEW d \in Contract, SettleResult(d) PROVE Held(c)
  BY <1>5, SettleFrame DEF Held
<1>6. ASSUME NEW d \in Contract, SettleException(d) \/ \E b \in BOOLEAN : SettleUsage(d, b) PROVE Held(c)
  BY <1>6, ExceptionFrame, UsageFrame DEF Held
<1>7. ASSUME NEW a, Gate(a) PROVE Held(c)
  BY <1>7, GateFrame DEF Held
<1> QED BY <1>1, <1>2, <1>3, <1>4, <1>5, <1>6, <1>7, StepSplits

\* Nothing is recorded for a future before it leaves the loop.
LEMMA HeldIsAssigned ==
  ASSUME ShapeOK, DraftOK, AdmitsOnce, FuturesOK, BoundOK, Next, NEW c, Held(c)'
  PROVE  Assigned(c)'
<1>1. CASE Submit /\ c \in Phases[phase]
  <2>1. Assigned(c)
    BY <1>1, SubmitFrame DEF AdmitsOnce
  <2> QED BY <1>1, <2>1, SubmitFrame DEF Assigned
<1>2. CASE Held(c)
  <2>1. Assigned(c) /\ c \in Contract /\ pc \in {"poll", "reap", "stopping", "settle", "record", "drain", "raised"}
    BY <1>2 DEF FuturesOK, Held, ShapeOK, TypeOK
  <2>2. ~Admit(c)
    BY <2>1, AdmitFrame
  <2>3. ~SettleResult(c)
    <3> SUFFICES ASSUME SettleResult(c) PROVE FALSE
      OBVIOUS
    <3>1. c \in done /\ done' = done \ {c} /\ pending' = pending /\ late' = late
      BY <2>1, SettleFrame
    <3> QED BY <3>1 DEF Held, FuturesOK
  <2>4. ~(Drain /\ c \in late)
    <3> SUFFICES ASSUME Drain PROVE ~Held(c)'
      OBVIOUS
    <3>1. pending' = pending /\ done' = done /\ late' = {} /\ pc = "drain"
      BY DrainFrame
    <3> QED BY <3>1 DEF Held, FuturesOK
  <2>5. a2a'[c] = a2a[c] /\ results'[c] = results[c]
    BY <2>1, <2>2, <2>3, <2>4, RecordsStep
  <2> QED BY <2>1, <2>5 DEF Assigned
<1> QED BY <1>1, <1>2, HeldStep

Apart ==
    /\ pending \cap done = {} /\ pending \cap late = {} /\ done \cap late = {}
    /\ pc \notin {"poll", "reap", "stopping", "settle", "record", "drain", "raised"} =>
         pending \cup done \cup late = {}
    /\ pc = "drain" => pending \cup done = {}
    /\ pc = "record" => queue \subseteq done

\* A future is in one place.
LEMMA ApartStep ==
  ASSUME ShapeOK, DraftOK, AdmitsOnce, FuturesOK, BoundOK, Next PROVE Apart'
<1>0. Apart
  BY DEF FuturesOK, Apart
<1>1. CASE Still
  BY <1>0, <1>1 DEF Still, Apart
<1>2. CASE BindPhase
  BY <1>0, <1>2, BindFrame DEF Apart
<1>3. CASE Submit
  BY <1>0, <1>3, SubmitFrame DEF Apart
<1>4. CASE Poll
  <2>1. pending \cap done = {} /\ pending \cap late = {} /\ done \cap late = {}
    BY <1>0 DEF Apart
  <2>2. /\ pc' = "reap" /\ done' = {c \in pending : stage[c] \in Over} /\ pending' = pending \ done' /\ late' = late
    BY <1>4, PollFrame
  <2> QED BY <2>1, <2>2 DEF Apart
<1>5. CASE Reap
  <2>1. pending \cap done = {} /\ pending \cap late = {} /\ done \cap late = {}
    BY <1>0 DEF Apart
  <2>2. /\ pc' = "stopping" /\ late' = late \cup (pending \cap Expired) /\ pending' = pending \ Expired /\ done' = done
    BY <1>5, ReapFrame
  <2> QED BY <2>1, <2>2 DEF Apart
<1>6. CASE LoopStopped \/ Settled \/ Report
  BY <1>0, <1>6, TurnFrame DEF Apart, Turned
<1>7. CASE Drain
  BY <1>0, <1>7, DrainFrame DEF Apart
<1>8. CASE ClosePhase
  BY <1>0, <1>8, ClosePhaseFrame DEF Apart
<1>9. ASSUME NEW c \in Contract, Admit(c) PROVE Apart'
  BY <1>0, <1>9, AdmitFrame DEF Apart, Granted, Journal
<1>10. ASSUME NEW c \in Contract, SettleResult(c) PROVE Apart'
  BY <1>0, <1>10, SettleFrame, RecordFrame DEF Apart
<1>11. ASSUME NEW c \in Contract, SettleException(c) PROVE Apart'
  BY <1>0, <1>11, ExceptionFrame DEF Apart
<1>12. ASSUME NEW c \in Contract, NEW b \in BOOLEAN, SettleUsage(c, b) PROVE Apart'
  BY <1>0, <1>12, UsageFrame DEF Apart
<1>13. ASSUME NEW a, Gate(a) PROVE Apart'
  BY <1>0, <1>13, GateFrame DEF Apart
<1> QED BY <1>1, <1>2, <1>3, <1>4, <1>5, <1>6, <1>7, <1>8, <1>9, <1>10, <1>11, <1>12, <1>13, StepSplits

\* A done future's thread is over, and the one to be recorded returned.
DoneIsOver ==
    /\ \A c \in done : stage[c] \in Over
    /\ pc = "record" => \A c \in queue : stage[c] = "returned"

\* A done future's thread is over.
LEMMA DoneStep ==
  ASSUME ShapeOK, DraftOK, AdmitsOnce, FuturesOK, BoundOK, Next PROVE DoneIsOver'
<1>0. \A c \in Contract : stage[c] \in Over => stage'[c] = stage[c]
  BY StageStep
<1>1. \A c \in done' : c \in Contract /\ stage[c] \in Over
  <2>0. \A c \in done : c \in Contract /\ stage[c] \in Over
    BY DEF FuturesOK, ShapeOK, TypeOK
  <2>1. CASE done' \subseteq done
    BY <2>0, <2>1
  <2>2. CASE Poll
    BY <2>2, PollFrame DEF ShapeOK, TypeOK
  <2>3. Poll \/ done' \subseteq done
    <3>1. CASE BindPhase \/ Submit \/ Reap \/ LoopStopped \/ Settled \/ Report \/ Drain \/ ClosePhase
      BY <3>1, BindFrame, SubmitFrame, ReapFrame, TurnFrame, DrainFrame, ClosePhaseFrame
    <3>2. ASSUME NEW c \in Contract, Admit(c) \/ SettleResult(c) PROVE done' \subseteq done
      BY <3>2, AdmitFrame, SettleFrame
    <3>3. ASSUME NEW c \in Contract, SettleException(c) \/ \E b \in BOOLEAN : SettleUsage(c, b)
          PROVE  done' \subseteq done
      BY <3>3, ExceptionFrame, UsageFrame
    <3>4. ASSUME NEW a, Gate(a) PROVE done' \subseteq done
      BY <3>4, GateFrame
    <3> QED BY <3>1, <3>2, <3>3, <3>4, StepSplits DEF Still
  <2> QED BY <2>1, <2>2, <2>3
<1>2. ASSUME pc' = "record", NEW c \in queue' PROVE c \in Contract /\ stage[c] = "returned"
  <2>1. CASE Still
    BY <1>2, <2>1 DEF Still, FuturesOK, ShapeOK, TypeOK
  <2>2. ASSUME NEW d \in Contract, NEW b \in BOOLEAN, SettleUsage(d, b) PROVE c \in Contract /\ stage[c] = "returned"
    BY <1>2, <2>2, UsageFrame
  <2>3. CASE BindPhase \/ Submit \/ Poll \/ Reap \/ LoopStopped \/ Settled \/ Report \/ Drain \/ ClosePhase
    BY <1>2, <2>3, BindFrame, SubmitFrame, PollFrame, ReapFrame, TurnFrame, DrainFrame, ClosePhaseFrame DEF Turned
  <2>4. ASSUME NEW d \in Contract, Admit(d) PROVE FALSE
    BY <1>2, <2>4, AdmitFrame DEF Granted, Journal
  <2>5. ASSUME NEW d \in Contract, SettleResult(d) \/ SettleException(d) PROVE FALSE
    BY <1>2, <2>5, SettleFrame, RecordFrame, ExceptionFrame
  <2>6. ASSUME NEW a, Gate(a) PROVE FALSE
    BY <1>2, <2>6, GateFrame
  <2> QED BY <2>1, <2>2, <2>3, <2>4, <2>5, <2>6, StepSplits
<1>3. \A c \in done' : stage'[c] \in Over
  BY <1>0, <1>1
<1>4. pc' = "record" => \A c \in queue' : stage'[c] = "returned"
  BY <1>0, <1>2 DEF Over
<1> QED BY <1>3, <1>4 DEF DoneIsOver

\* The futures of the loop, together.
LEMMA FuturesStep ==
  ASSUME ShapeOK, DraftOK, AdmitsOnce, FuturesOK, BoundOK, Next PROVE FuturesOK'
<1>1. Apart' /\ DoneIsOver'
  BY ApartStep, DoneStep
<1>2. \A c \in pending' \cup done' \cup late' : Assigned(c)'
  BY HeldIsAssigned DEF Held
<1> QED BY <1>1, <1>2 DEF FuturesOK, Apart, DoneIsOver

\* Failures are never taken back, and a run that raised is over.
LEMMA FailuresStep ==
  ASSUME ShapeOK, DraftOK, FuturesOK, BoundOK, Next
  PROVE  failures \subseteq failures' /\ (pc \in {"raised", "reported"} => pc' = pc)
<1>1. CASE Still
  BY <1>1 DEF Still
<1>2. CASE BindPhase \/ Submit \/ Poll \/ Reap \/ LoopStopped \/ Settled \/ Report \/ Drain \/ ClosePhase
  BY <1>2, BindFrame, SubmitFrame, PollFrame, ReapFrame, TurnFrame, DrainFrame, ClosePhaseFrame DEF Turned
<1>3. ASSUME NEW c \in Contract, Admit(c) PROVE failures \subseteq failures' /\ pc = "admit"
  BY <1>3, AdmitFrame
<1>4. ASSUME NEW c \in Contract, SettleResult(c) PROVE failures \subseteq failures' /\ pc = "record"
  BY <1>4, SettleFrame, RecordFrame
<1>5. ASSUME NEW c \in Contract, SettleException(c) \/ \E b \in BOOLEAN : SettleUsage(c, b)
      PROVE  failures \subseteq failures' /\ pc = "settle"
  BY <1>5, ExceptionFrame, UsageFrame
<1>6. ASSUME NEW a, Gate(a) PROVE failures' = failures /\ pc = "gate"
  BY <1>6, GateFrame
<1> QED BY <1>1, <1>2, <1>3, <1>4, <1>5, <1>6, StepSplits

\* A thread under way leaves the loop's hands only with the grace exceeded.
LEMMA LetGo ==
  ASSUME ShapeOK, DraftOK, AdmitsOnce, FuturesOK, BoundOK, Next, NEW c \in pending \cup late,
         stage[c] \in Running \cup {"queued"}
  PROVE  c \in pending' \cup late' \/ "grace_exceeded" \in failures'
<1>1. CASE Still
  BY <1>1 DEF Still
<1>2. CASE Drain
  <2>1. pending = {}
    BY <1>2, DrainFrame DEF FuturesOK
  <2> QED BY <1>2, <2>1, DrainFrame
<1>3. CASE Poll
  <2>1. stage[c] \notin Over
    BY DEF Running, Over
  <2> QED BY <1>3, <2>1, PollFrame
<1>4. CASE Reap
  BY <1>4, ReapFrame
<1>5. CASE Submit
  BY <1>5, SubmitFrame DEF FuturesOK
<1>6. CASE BindPhase \/ LoopStopped \/ Settled \/ Report \/ ClosePhase
  BY <1>6, BindFrame, TurnFrame, ClosePhaseFrame
<1>7. ASSUME NEW d \in Contract, Admit(d) \/ SettleResult(d) PROVE c \in pending' \cup late'
  BY <1>7, AdmitFrame, SettleFrame
<1>8. ASSUME NEW d \in Contract, SettleException(d) \/ \E b \in BOOLEAN : SettleUsage(d, b)
      PROVE  c \in pending' \cup late'
  BY <1>8, ExceptionFrame, UsageFrame
<1>9. ASSUME NEW a, Gate(a) PROVE c \in pending' \cup late'
  BY <1>9, GateFrame
<1> QED BY <1>1, <1>2, <1>3, <1>4, <1>5, <1>6, <1>7, <1>8, <1>9, StepSplits

\* No thread is lost sight of.
LEMMA NoStrayStep ==
  ASSUME ShapeOK, DraftOK, AdmitsOnce, FuturesOK, BoundOK, NoStray, Next PROVE NoStray'
<1> SUFFICES ASSUME NEW c \in Contract, stage'[c] \in Running \cup {"queued"}
             PROVE  c \in pending' \cup late' \/ "grace_exceeded" \in failures' \/ pc' = "raised"
  BY DEF NoStray
<1>1. CASE Submit /\ c \in Phases[phase]
  BY <1>1, SubmitFrame
<1>2. CASE ~(Submit /\ c \in Phases[phase])
  <2>1. stage[c] \in Running \cup {"queued"}
    <3>1. stage[c] \notin Over
      BY StageStep DEF Running, Over
    <3>2. stage[c] # "none"
      BY <1>2, StageStep DEF Running
    <3> QED BY <3>1, <3>2 DEF ShapeOK, TypeOK
  <2>2. c \in pending \cup late \/ "grace_exceeded" \in failures \/ pc = "raised"
    BY <2>1 DEF NoStray
  <2> QED BY <2>1, <2>2, LetGo, FailuresStep
<1> QED BY <1>1, <1>2

-----------------------------------------------------------------------------
(* Results. *)

\* What is recorded for a contract: in the controller's name, or as the worker
\* gave it and then with a lease that finished.
LEMMA RecordingStep ==
  ASSUME ShapeOK, DraftOK, FuturesOK, NEW c \in Contract, SettleResult(c) \/ (Drain /\ c \in late)
  PROVE  /\ a2a'[c] \in {a2a[c], Append(a2a[c], "result")}
         /\ \/ results'[c] = results[c]
            \/ /\ stage[c] = "returned" /\ draft[c] \in Draft
               /\ \/ results'[c] = Controlled(c, draft[c].result)
                  \/ results'[c] = draft[c].result /\ lease'[c] = "finished"
<1>1. CASE SettleResult(c)
  <2>1. /\ stage[c] = "returned" /\ draft[c] \in Draft
        /\ ResultTaken(c) \/ ResultAccepted(c) \/ ResultRefused(c)
    BY <1>1, SettleFrame
  <2>2. a2a'[c] \in {a2a[c], Append(a2a[c], "result")}
    BY <2>1, RecordFrame DEF ShapeOK
  <2>3. CASE ResultTaken(c)
    <3>1. results' = [results EXCEPT ![c] = Controlled(c, draft[c].result)]
      BY <2>3 DEF ResultTaken, Recorded
    <3> QED BY <2>1, <2>2, <3>1 DEF ShapeOK, TypeOK
  <2>4. CASE ResultAccepted(c)
    <3>1. /\ results' = [results EXCEPT ![c] = draft[c].result]
          /\ lease' = [ExpiredLeases EXCEPT ![c] = "finished"]
      BY <2>4 DEF ResultAccepted, Recorded
    <3>2. results'[c] = draft[c].result
      BY <3>1 DEF ShapeOK, TypeOK
    <3>3. lease'[c] = "finished"
      BY <3>1 DEF ExpiredLeases, Ended
    <3> QED BY <2>1, <2>2, <3>2, <3>3
  <2>5. CASE ResultRefused(c)
    <3>1. results' = results
      BY <2>5 DEF ResultRefused, Refused
    <3> QED BY <2>2, <3>1
  <2> QED BY <2>1, <2>3, <2>4, <2>5
<1>2. CASE Drain /\ c \in late
  <2>1. a2a'[c] \in {a2a[c], Append(a2a[c], "result")}
    BY <1>2, DrainFrame
  <2>2. results'[c] = IF c \in LateReturned THEN Controlled(c, draft[c].result) ELSE results[c]
    BY <1>2, DrainFrame
  <2>3. c \in LateReturned => stage[c] = "returned" /\ draft[c] \in Draft
    BY DEF LateReturned, DraftOK
  <2> QED BY <2>1, <2>2, <2>3
<1> QED BY <1>1, <1>2

\* So a result is as it was, or is recorded now, for the first time.
Recording(c) ==
    /\ stage[c] = "returned" /\ draft[c] \in Draft /\ results[c] = None
    /\ \/ results'[c] = Controlled(c, draft[c].result)
       \/ results'[c] = draft[c].result /\ lease'[c] = "finished"

\* A result is written by a recording only.
LEMMA ResultsStep ==
  ASSUME ShapeOK, DraftOK, FuturesOK, Next, NEW c \in Contract
  PROVE  results'[c] = results[c] \/ Recording(c)
<1>1. CASE SettleResult(c) \/ (Drain /\ c \in late)
  BY <1>1, RecordingStep, RecordedWasAssigned DEF Recording, Assigned
<1>2. CASE Admit(c)
  BY <1>2, AdmitFrame
<1> QED BY <1>1, <1>2, RecordsStep

\* Only what returned is accepted.
LEMMA SettledStep ==
  ASSUME ShapeOK, DraftOK, AdmitsOnce, FuturesOK, SettledReturned, Next PROVE SettledReturned'
<1> SUFFICES ASSUME NEW c \in Contract
             PROVE  /\ lease'[c] \in {"finished", "over_budget"} => stage'[c] = "returned"
                    /\ results'[c] # None => /\ stage'[c] = "returned"
                                             /\ Role[c] # "scout" => results'[c].assess = None
  BY DEF SettledReturned
<1>1. stage[c] = "returned" => stage'[c] = "returned"
  BY StageStep DEF Over
<1>2. lease'[c] \in {"finished", "over_budget"} => stage'[c] = "returned"
  <2>1. lease[c] \in {"finished", "over_budget"} => stage[c] = "returned"
    BY DEF SettledReturned
  <2> QED BY <1>1, <2>1, LeaseStep DEF LeaseMove, Finishes
<1>3. CASE results'[c] = results[c]
  BY <1>1, <1>2, <1>3 DEF SettledReturned
<1>4. CASE Recording(c)
  <2>1. stage[c] = "returned" /\ draft[c] \in Draft /\ draft[c].result \in Result
    BY <1>4 DEF Recording, Draft
  <2>2. Role[c] # "scout" => draft[c].result.assess = None
    BY <2>1 DEF DraftOK
  <2>3. Role[c] # "scout" => Controlled(c, draft[c].result).assess = None
    BY <2>1, ControlledTyped
  <2> QED BY <1>1, <1>2, <1>4, <2>1, <2>2, <2>3 DEF Recording
<1> QED BY <1>3, <1>4, ResultsStep

\* A result and the end of its lease agree.
LEMMA FinalityStep ==
  ASSUME ShapeOK, DraftOK, AdmitsOnce, FuturesOK, FinalityOfLease, Next PROVE FinalityOfLease'
<1> SUFFICES ASSUME NEW c \in Contract, results'[c] # None
             PROVE  /\ lease'[c] # "finished" => results'[c].disp = "failed"
                    /\ results'[c].disp = "completed" => lease'[c] = "finished"
  BY DEF FinalityOfLease
<1>1. CASE results'[c] = results[c]
  <2>1. lease[c] = "finished" => lease'[c] = "finished"
    <3>1. Admit(c) => lease[c] = "none"
      BY AdmitFrame DEF AdmitsOnce, Fresh
    <3> QED BY <3>1, LeaseStep DEF LeaseMove
  <2> QED BY <1>1, <2>1 DEF FinalityOfLease
<1>2. CASE Recording(c)
  <2>1. Controlled(c, draft[c].result).disp = "failed"
    BY DEF Controlled
  <2> QED BY <1>2, <2>1 DEF Recording
<1> QED BY <1>1, <1>2, ResultsStep

\* What a worker constructed stays as it was when its thread is over.
LEMMA DraftStays ==
  ASSUME ShapeOK, Next, NEW c \in Contract, stage[c] = "returned" PROVE draft'[c] = draft[c]
<1>1. ASSUME NEW w \in Contract, WorkerStep(w) \/ Hang(w) PROVE draft'[c] = draft[c]
  <2>1. w # c
    <3>1. \E to : Moves(w, to)
      BY <1>1, WorkerFrame
    <3> QED BY <3>1 DEF Moves, Running
  <2>2. CASE UNCHANGED draft
    BY <2>2
  <2>3. ASSUME NEW raw, PiEnds(w, raw) PROVE draft'[c] = draft[c]
    BY <2>1, <2>3 DEF PiEnds, ShapeOK
  <2>4. ASSUME NEW k, Observe(w, k) PROVE draft'[c] = draft[c]
    <3>1. \E x : draft' = [draft EXCEPT ![w] = x]
      BY <2>4 DEF Observe, ShapeOK
    <3> QED BY <2>1, <3>1 DEF ShapeOK
  <2>5. CASE Close(w)
    <3>1. \E x : draft' = [draft EXCEPT ![w] = x]
      BY <2>5 DEF Close, ShapeOK
    <3> QED BY <2>1, <3>1 DEF ShapeOK
  <2> QED BY <1>1, <2>2, <2>3, <2>4, <2>5 DEF WorkerStep, Hang, Start, MakeRunner, Launch, Abort, Build
<1>2. CASE Others
  BY <1>2, OthersFrame
<1>3. CASE Orchestrate
  BY <1>3, StageFrame
<1> QED BY <1>1, <1>2, <1>3, NextSplits

\* A scout's result stays within its terminal block.
LEMMA ScoutStep ==
  ASSUME ShapeOK, DraftOK, FuturesOK, SettledReturned, ScoutNeverInferred, Next PROVE ScoutNeverInferred'
<1> SUFFICES ASSUME NEW c \in Contract, results'[c] # None, results'[c].assess = "actionable"
             PROVE  draft'[c].raw.assess = "actionable" /\ draft'[c].raw.findings = "typed"
  BY DEF ScoutNeverInferred
<1>1. CASE results'[c] = results[c]
  <2>1. stage[c] = "returned" /\ draft[c].raw.assess = "actionable" /\ draft[c].raw.findings = "typed"
    BY <1>1 DEF SettledReturned, ScoutNeverInferred
  <2> QED BY <2>1, DraftStays
<1>2. CASE Recording(c)
  <2>1. stage[c] = "returned" /\ draft[c] \in Draft /\ draft[c].result \in Result
    BY <1>2 DEF Recording, Draft
  <2>2. results'[c] = draft[c].result
    BY <1>2, <2>1, ControlledTyped DEF Recording
  <2>3. draft[c].raw.assess = "actionable" /\ draft[c].raw.findings = "typed"
    BY <2>1, <2>2 DEF DraftOK
  <2> QED BY <2>1, <2>3, DraftStays
<1> QED BY <1>1, <1>2, ResultsStep

\* A result follows its assignment.
LEMMA EventsAppend ==
  /\ Append(<<>>, "assignment") = <<"assignment">>
  /\ Append(<<"assignment">>, "result") = <<"assignment", "result">>
<1>1. Append(<<>>, "assignment") = <<"assignment">>
  OBVIOUS
<1>2. ASSUME NEW S, NEW x \in S, NEW y \in S, NEW s \in Seq(S), s = <<x>> PROVE Append(s, y) = <<x, y>>
  <2>1. /\ Append(s, y) \in Seq(S) /\ Len(Append(s, y)) = 2
        /\ Append(s, y)[1] = x /\ Append(s, y)[2] = y
    BY <1>2
  <2>2. <<x, y>> \in Seq(S) /\ Len(<<x, y>>) = 2 /\ <<x, y>>[1] = x /\ <<x, y>>[2] = y
    OBVIOUS
  <2>3. \A i \in 1 .. 2 : i = 1 \/ i = 2
    OBVIOUS
  <2>4. \A i \in 1 .. 2 : Append(s, y)[i] = <<x, y>>[i]
    BY <2>1, <2>2, <2>3
  <2>5. \A a, b \in Seq(S) : Len(a) = Len(b) /\ (\A i \in 1 .. Len(a) : a[i] = b[i]) => a = b
    OBVIOUS
  <2> QED BY <2>1, <2>2, <2>4, <2>5
<1>3. <<"assignment">> \in Seq({"assignment", "result"})
  OBVIOUS
<1> QED BY <1>1, <1>2, <1>3

\* A child has at most one result in the journal, after its assignment.
LEMMA TrajectoryStep ==
  ASSUME ShapeOK, DraftOK, AdmitsOnce, FuturesOK, Trajectory, Next PROVE Trajectory'
<1> SUFFICES ASSUME NEW c \in Contract
             PROVE  a2a'[c] \in {<<>>, <<"assignment">>, <<"assignment", "result">>}
  BY DEF Trajectory
<1>1. CASE SettleResult(c) \/ (Drain /\ c \in late)
  <2>1. a2a[c] = <<"assignment">> /\ a2a'[c] \in {a2a[c], Append(a2a[c], "result")}
    BY <1>1, RecordingStep, RecordedWasAssigned DEF Assigned
  <2> QED BY <2>1, EventsAppend
<1>2. CASE Admit(c)
  <2>1. a2a[c] = <<>>
    BY <1>2, AdmitFrame DEF AdmitsOnce, Fresh
  <2>2. a2a'[c] \in {a2a[c], Append(a2a[c], "assignment")}
    BY <1>2, AdmitFrame DEF Granted, Journal, ShapeOK
  <2> QED BY <2>1, <2>2, EventsAppend
<1>3. CASE a2a'[c] = a2a[c]
  BY <1>3 DEF Trajectory
<1> QED BY <1>1, <1>2, <1>3, RecordsStep

-----------------------------------------------------------------------------
(* Stops. *)

\* The tokens stay set, a remembered request is honoured by the thread that
\* starts, and a thread that starts with its token set runs no further.
Honoured(c) ==
    /\ c \in token => c \in token'
    /\ stage[c] \in {"none", "queued"} /\ c \in requested => c \in requested'
    /\ stage[c] = "queued" =>
         \/ stage'[c] = "queued" \/ stage'[c] \in Over
         \/ stage'[c] = "started" /\ (c \in requested => c \in token')
    /\ stage[c] = "started" /\ c \in token => stage'[c] = "started" \/ stage'[c] \in Over

\* A call of stop() sets the token, or remembers the request.
LEMMA CallHonours ==
  ASSUME NEW w, NEW d \in Contract, StopCall(w, d), UNCHANGED stage, NEW c \in Contract PROVE Honoured(c)
BY DEF StopCall, Honoured

\* A request that was honoured once is not forgotten.
LEMMA HonouredStep ==
  ASSUME ShapeOK, DraftOK, FuturesOK, BoundOK, AdmitsOnce, Next, NEW c \in Contract PROVE Honoured(c)
<1>1. ASSUME NEW w \in Contract, WorkerStep(w) \/ Hang(w), w # c PROVE Honoured(c)
  <2>1. stage'[c] = stage[c]
    <3>1. PICK to : Moves(w, to)
      BY <1>1, WorkerFrame
    <3> QED BY <1>1, <3>1 DEF Moves, ShapeOK, TypeOK
  <2>2. token \subseteq token' /\ requested \ {w} \subseteq requested'
    BY <1>1 DEF WorkerStep, Hang, Start, MakeRunner, Launch, Abort, Close, Build, PiEnds, Observe, Leave
  <2> QED BY <1>1, <2>1, <2>2 DEF Honoured
<1>2. CASE Start(c)
  <2>1. stage[c] = "queued" /\ stage'[c] = "started" /\ (c \in requested => c \in token') /\ requested' = requested
    BY <1>2 DEF Start, Worker, ShapeOK, TypeOK
  <2>2. token \subseteq token'
    BY <1>2 DEF Start
  <2> QED BY <2>1, <2>2 DEF Honoured
<1>3. ASSUME stage[c] \notin {"none", "queued", "started"}, token' = token PROVE Honoured(c)
  BY <1>3 DEF Honoured
<1>4. CASE MakeRunner(c) \/ Launch(c) \/ Hang(c) \/ Close(c) \/ Build(c)
  BY <1>3, <1>4 DEF MakeRunner, Launch, Hang, Close, Build, Worker, Leave, Honoured
<1>5. ASSUME NEW raw, PiEnds(c, raw) PROVE Honoured(c)
  BY <1>3, <1>5 DEF PiEnds, Worker
<1>6. ASSUME NEW k, Observe(c, k) PROVE Honoured(c)
  BY <1>3, <1>6 DEF Observe, Worker
<1>7. CASE Abort(c)
  <2>1. stage[c] \in {"started", "launching"} /\ stage'[c] = "raised" /\ token' = token
    BY <1>7 DEF Abort, Leave, ShapeOK, TypeOK
  <2> QED BY <2>1 DEF Honoured, Over
<1>8. ASSUME NEW d \in Contract, AtlasStop(d) \/ MainStop(d) PROVE Honoured(c)
  BY <1>8, CallHonours DEF AtlasStop, MainStop
<1>9. CASE Others /\ ~\E d \in Contract : AtlasStop(d)
  <2>1. UNCHANGED <<token, requested, stage>>
    <3>1. ASSUME NEW S, AtlasCancel(S) PROVE UNCHANGED <<token, requested, stage>>
      BY <3>1 DEF AtlasCancel, workerVars
    <3>2. CASE AtlasAcknowledge \/ \E d \in Contract : TimeUp(d)
      BY <3>2 DEF AtlasAcknowledge, TimeUp, workerVars
    <3>3. CASE \E who \in {"main", "atlas"}, ok \in BOOLEAN : StopReturns(who, ok)
      BY <3>3 DEF StopReturns, workerVars
    <3> QED BY <1>9, <3>1, <3>2, <3>3 DEF Others, AtlasCancelWorker, AtlasCancelTeam
  <2> QED BY <2>1 DEF Honoured
<1>10. CASE Orchestrate /\ ~\E d \in Contract : MainStop(d)
  <2>1. UNCHANGED <<token, requested>>
    <3>1. CASE BindPhase \/ Submit \/ Poll \/ Reap \/ LoopStopped \/ Settled \/ Report \/ MainAcknowledge \/ Drain
               \/ ClosePhase
      BY <3>1, BindFrame, SubmitFrame, PollFrame, ReapFrame, TurnFrame, AcknowledgeFrame, DrainFrame, ClosePhaseFrame
    <3>2. ASSUME NEW d \in Contract, Admit(d) \/ SettleResult(d) PROVE UNCHANGED <<token, requested>>
      BY <3>2, AdmitFrame, SettleFrame
    <3>3. ASSUME NEW d \in Contract, SettleException(d) \/ \E b \in BOOLEAN : SettleUsage(d, b)
          PROVE  UNCHANGED <<token, requested>>
      BY <3>3, ExceptionFrame, UsageFrame
    <3>4. ASSUME NEW a, Gate(a) PROVE UNCHANGED <<token, requested>>
      BY <3>4, GateFrame
    <3> QED BY <1>10, <3>1, <3>2, <3>3, <3>4, OrchestrateSplits
  <2>2. CASE UNCHANGED stage
    BY <2>1, <2>2 DEF Honoured
  <2>3. CASE stage' = ShutDown
    BY <2>1, <2>3 DEF Honoured, ShutDown, Over
  <2>4. CASE Submit
    <3>1. \A d \in Phases[phase] : stage[d] = "none"
      BY <2>4, SubmitFrame DEF AdmitsOnce
    <3> QED BY <2>1, <2>4, <3>1, SubmitFrame DEF Honoured
  <2> QED BY <1>10, <2>2, <2>3, <2>4, StageFrame
<1>11. ASSUME NEW w \in Contract, WorkerStep(w) \/ Hang(w) PROVE Honoured(c)
  BY <1>1, <1>2, <1>4, <1>5, <1>6, <1>7, <1>11 DEF WorkerStep
<1> QED BY <1>8, <1>9, <1>10, <1>11, NextSplits

\* A silent worker stays silent.
LEMMA SilentStep ==
  ASSUME ShapeOK, DraftOK, FuturesOK, BoundOK, AdmitsOnce, Next, NEW c \in Contract, Silent(c) PROVE Silent(c)'
<1>1. Honoured(c)
  BY HonouredStep
<1>2. CASE stage[c] \in Over
  BY <1>2, StageStep DEF Silent
<1>3. CASE stage[c] = "none" /\ c \in requested
  BY <1>1, <1>3, StageStep DEF Silent, Honoured
<1>4. CASE stage[c] = "queued" /\ c \in requested
  BY <1>1, <1>4 DEF Silent, Honoured
<1>5. CASE stage[c] = "started" /\ c \in token
  BY <1>1, <1>5 DEF Silent, Honoured
<1> QED BY <1>2, <1>3, <1>4, <1>5 DEF Silent

\* A call of stop() that answered True has a silent worker, and one that
\* waits has a worker that is under way or over.
Fair(w) ==
    stops[w] # None =>
        /\ stops[w].answer = "quiet" => Silent(stops[w].lease)
        /\ stops[w].answer = "waiting" => stage[stops[w].lease] \in Running \cup Over

\* What a call of stop() that begins says of the worker.
LEMMA CallBegins ==
  ASSUME ShapeOK, NEW w \in {"main", "atlas"}, NEW c \in Contract, StopCall(w, c), UNCHANGED stage
  PROVE  Fair(w)' /\ \A v \in {"main", "atlas"} : v # w => stops'[v] = stops[v]
<1> DEFINE st == [lease |-> c, answer |-> IF c \in Busy THEN "waiting" ELSE "quiet"]
<1>1. stops' = [stops EXCEPT ![w] = st] /\ c \in requested'
  BY DEF StopCall
<1>2. stops'[w] = st /\ \A v \in {"main", "atlas"} : v # w => stops'[v] = stops[v]
  BY <1>1 DEF ShapeOK
<1>3. st.lease = c /\ st.answer = IF c \in Busy THEN "waiting" ELSE "quiet"
  OBVIOUS
<1> HIDE DEF st
<1>4. CASE c \in Busy
  BY <1>2, <1>3, <1>4 DEF Fair, Busy
<1>5. CASE c \notin Busy
  <2>1. Silent(c)'
    BY <1>1, <1>5 DEF Busy, Silent, ShapeOK, TypeOK
  <2> QED BY <1>2, <1>3, <1>5, <2>1 DEF Fair
<1> QED BY <1>2, <1>4, <1>5

\* What a call of stop() that returns says of the worker.
LEMMA CallReturns ==
  ASSUME ShapeOK, NEW w \in {"main", "atlas"}, NEW ok \in BOOLEAN, StopReturns(w, ok), Fair(w)
  PROVE  Fair(w)' /\ \A v \in {"main", "atlas"} : v # w => stops'[v] = stops[v]
<1> DEFINE ans == IF ok THEN "quiet" ELSE "unquiet"
<1>1. /\ stops[w] \in StopState /\ stops[w].answer = "waiting" /\ stops[w] # None
      /\ stops' = [stops EXCEPT ![w] = [stops[w] EXCEPT !.answer = ans]] /\ stage' = stage
      /\ ok => stops[w].lease \notin Busy
  BY DEF StopReturns, StopAnswer, ShapeOK, workerVars
<1>2. ans \in {"quiet", "unquiet"} /\ (ans = "quiet" => ok)
  OBVIOUS
<1> HIDE DEF ans
<1>3. /\ stops'[w] = [stops[w] EXCEPT !.answer = ans] /\ \A v \in {"main", "atlas"} : v # w => stops'[v] = stops[v]
  BY <1>1 DEF ShapeOK
<1>4. stops'[w].lease = stops[w].lease /\ stops'[w].answer = ans /\ stops[w].lease \in Contract
  BY <1>1, <1>3 DEF StopState
<1>5. stage[stops[w].lease] \in Running \cup Over
  BY <1>1 DEF Fair
<1>6. ok => Silent(stops[w].lease)'
  BY <1>1, <1>4, <1>5 DEF Busy, Silent
<1>7. Fair(w)'
  BY <1>2, <1>4, <1>6 DEF Fair, Silent
<1> QED BY <1>3, <1>7

\* A call that is not begun, answered or ended by this step is as it was.
LEMMA CallsMove ==
  ASSUME ShapeOK, DraftOK, FuturesOK, BoundOK, Next, NEW w \in {"main", "atlas"}
  PROVE  \/ stops'[w] = stops[w] \/ stops'[w] = None
         \/ \E c \in Contract : StopCall(w, c) /\ UNCHANGED stage
         \/ \E ok \in BOOLEAN : StopReturns(w, ok)
<1>1. ASSUME NEW d \in Contract, WorkerStep(d) \/ Hang(d) PROVE stops' = stops
  BY <1>1, WorkerFrame
<1>2. CASE AtlasAcknowledge \/ MainAcknowledge
  BY <1>2 DEF AtlasAcknowledge, MainAcknowledge, ShapeOK
<1>3. ASSUME NEW v \in {"main", "atlas"}, NEW d \in Contract, StopCall(v, d), UNCHANGED stage
      PROVE  stops'[w] = stops[w] \/ (StopCall(w, d) /\ UNCHANGED stage)
  BY <1>3, CallBegins
<1>4. ASSUME NEW d \in Contract, AtlasStop(d) \/ MainStop(d)
      PROVE  stops'[w] = stops[w] \/ \E c \in Contract : StopCall(w, c) /\ UNCHANGED stage
  BY <1>3, <1>4 DEF AtlasStop, MainStop
<1>5. ASSUME NEW v \in {"main", "atlas"}, NEW ok \in BOOLEAN, StopReturns(v, ok)
      PROVE  stops'[w] = stops[w] \/ StopReturns(w, ok)
  <2>1. \E x : stops' = [stops EXCEPT ![v] = x]
    BY <1>5 DEF StopReturns, ShapeOK
  <2> QED BY <1>5, <2>1 DEF ShapeOK
<1>6. CASE AtlasCancelTeam \/ \E d \in Contract : TimeUp(d) \/ AtlasCancelWorker(d)
  BY <1>6 DEF AtlasCancelTeam, AtlasCancelWorker, AtlasCancel, TimeUp
<1>7. CASE BindPhase \/ Submit \/ Poll \/ Reap \/ LoopStopped \/ Settled \/ Report \/ Drain \/ ClosePhase
  BY <1>7, BindFrame, SubmitFrame, PollFrame, ReapFrame, TurnFrame, DrainFrame, ClosePhaseFrame
<1>8. ASSUME NEW d \in Contract, Admit(d) \/ SettleResult(d) PROVE stops' = stops
  BY <1>8, AdmitFrame, SettleFrame
<1>9. ASSUME NEW d \in Contract, SettleException(d) \/ \E b \in BOOLEAN : SettleUsage(d, b) PROVE stops' = stops
  BY <1>9, ExceptionFrame, UsageFrame
<1>10. ASSUME NEW a, Gate(a) PROVE stops' = stops
  BY <1>10, GateFrame
<1> QED BY <1>1, <1>2, <1>4, <1>5, <1>6, <1>7, <1>8, <1>9, <1>10, NextSplits, OrchestrateSplits DEF Others

\* An acknowledged stop stays true.
LEMMA StopsStep ==
  ASSUME ShapeOK, DraftOK, FuturesOK, BoundOK, AdmitsOnce, StopsOK, Next PROVE StopsOK'
<1>1. \A w \in {"main", "atlas"} : Fair(w)
  BY DEF StopsOK, Fair
<1>2. ASSUME NEW w \in {"main", "atlas"} PROVE Fair(w)'
  <2>1. CASE stops'[w] = stops[w]
    <3>1. CASE stops[w] = None
      BY <2>1, <3>1 DEF Fair
    <3>2. CASE stops[w] # None
      <4>1. PICK c \in Contract : c = stops[w].lease
        BY <3>2 DEF ShapeOK, StopState
      <4>2. /\ stops[w].answer = "quiet" => Silent(c)
            /\ stops[w].answer = "waiting" => stage[c] \in Running \cup Over
        BY <1>1, <3>2, <4>1 DEF Fair
      <4>3. /\ stops[w].answer = "quiet" => Silent(c)'
            /\ stops[w].answer = "waiting" => stage'[c] \in Running \cup Over
        BY <4>2, SilentStep, StageStep
      <4> QED BY <2>1, <4>1, <4>3 DEF Fair
    <3> QED BY <3>1, <3>2
  <2>2. CASE stops'[w] = None
    BY <2>2 DEF Fair
  <2>3. ASSUME NEW c \in Contract, StopCall(w, c), UNCHANGED stage PROVE Fair(w)'
    BY <2>3, CallBegins
  <2>4. ASSUME NEW ok \in BOOLEAN, StopReturns(w, ok) PROVE Fair(w)'
    BY <1>1, <2>4, CallReturns
  <2> QED BY <2>1, <2>2, <2>3, <2>4, CallsMove
<1>3. ASSUME NEW c \in Contract, lease'[c] \in {"cancelled", "timed_out"}, c \notin owed' PROVE Silent(c)'
  <2>1. lease'[c] = lease[c]
    BY <1>3, LeaseStep DEF LeaseMove
  <2>2. CASE c \notin owed
    <3>1. Silent(c)
      BY <1>3, <2>1, <2>2 DEF StopsOK
    <3> QED BY <3>1, SilentStep
  <2>3. CASE c \in owed
    <3>1. Acknowledged(c)
      BY <1>3, <2>3, LeaseStep DEF OwedMove
    <3>2. Silent(c)
      BY <1>1, <3>1 DEF Acknowledged, Fair
    <3> QED BY <3>2, SilentStep
  <2> QED BY <2>2, <2>3
<1> QED BY <1>2, <1>3 DEF StopsOK, Fair

-----------------------------------------------------------------------------
(* The phases' receipts and the gate. *)

\* A phase that is bound has its predecessors' receipts.
LEMMA BoundStep ==
  ASSUME ShapeOK, DraftOK, FuturesOK, BoundOK, Next PROVE BoundOK'
<1> DEFINE In == {"admit", "poll", "reap", "stopping", "settle", "record", "drain", "check"}
<1>1. CASE BindPhase
  BY <1>1, BindFrame DEF BoundOK, Bindable
<1>2. CASE UNCHANGED <<receipts, phase>> /\ (pc' \in In => pc \in In)
  BY <1>2 DEF BoundOK
<1>3. CASE Still
  BY <1>2, <1>3 DEF Still
<1>4. CASE Submit \/ Poll \/ Reap \/ LoopStopped \/ Settled \/ Report \/ Drain
  BY <1>2, <1>4, SubmitFrame, PollFrame, ReapFrame, TurnFrame, DrainFrame DEF Turned
<1>5. CASE ClosePhase
  BY <1>5, ClosePhaseFrame DEF BoundOK
<1>6. ASSUME NEW c \in Contract, Admit(c) PROVE BoundOK'
  BY <1>2, <1>6, AdmitFrame
<1>7. ASSUME NEW c \in Contract, SettleResult(c) PROVE BoundOK'
  BY <1>2, <1>7, SettleFrame
<1>8. ASSUME NEW c \in Contract, SettleException(c) \/ \E b \in BOOLEAN : SettleUsage(c, b) PROVE BoundOK'
  BY <1>2, <1>8, ExceptionFrame, UsageFrame
<1>9. ASSUME NEW a, Gate(a) PROVE BoundOK'
  BY <1>9, GateFrame DEF BoundOK
<1> QED BY <1>1, <1>3, <1>4, <1>5, <1>6, <1>7, <1>8, <1>9, StepSplits

\* Contracts whose commits are one have the same.
LEMMA OneCommit ==
  ASSUME NEW rs, NEW S, S \subseteq Contract, Cardinality(Outputs(rs, S)) = 1
  PROVE  \A d \in S : \A k \in Outputs(rs, S) : rs[d].output = k
<1> DEFINE f == [d \in S |-> rs[d].output]
           T == Outputs(rs, S)
<1>1. f \in Surjection(S, T)
  BY DEF Outputs, Surjection
<1>2. IsFiniteSet(S)
  BY GateAssumption, FS_Subset
<1>3. IsFiniteSet(T)
  BY <1>1, <1>2, FS_Surjection
<1>4. PICK x : T = {x}
  BY <1>3, FS_Singleton
<1>5. \A d \in S : rs[d].output \in T
  BY DEF Outputs
<1> QED BY <1>4, <1>5

\* What the gate looked at: every contract has a completed result ...
LEMMA NoWorkerReasons ==
  ASSUME WorkerReasons(results) = {}, NEW c \in Contract
  PROVE  /\ results[c] # None /\ results[c].disp = "completed"
         /\ Role[c] = "scout" => results[c].assess = "actionable"
<1>1. \A d \in Contract : results[d] # None
  BY DEF WorkerReasons
<1> DEFINE Why(d) == (IF results[d].disp # "completed" THEN {"not_completed"} ELSE {})
                     \cup (IF ~results[d].evidence THEN {"evidence"} ELSE {})
                     \cup (IF Role[d] = "scout" /\ results[d].assess # "actionable" THEN {"not_actionable"} ELSE {})
<1>2. UNION {Why(d) : d \in {e \in Contract : results[e] # None}} = {}
  BY DEF WorkerReasons
<1>3. Why(c) = {}
  BY <1>1, <1>2
<1> QED BY <1>1, <1>3

\* ... and a receipt in the chain of commits.
LEMMA NoLineageReasons ==
  ASSUME \A d \in Contract : results[d] # None, LineageReasons(results, receipts) = {}, NEW c \in Contract
  PROVE  receipts[c] # None /\ ChainReasons(receipts, c) = {}
<1> DEFINE both == {d \in Contract : results[d] # None /\ receipts[d] # None}
<1>1. \A d \in Contract : receipts[d] # None
  BY DEF LineageReasons
<1>2. c \in both
  BY <1>1
<1>3. ASSUME NEW x \in ChainReasons(receipts, c) PROVE FALSE
  <2> DEFINE U == UNION {ChainReasons(receipts, d) : d \in both}
  <2>1. x \in U
    BY <1>2, <1>3
  <2>2. U \subseteq LineageReasons(results, receipts)
    BY DEF LineageReasons
  <2> QED BY <2>1, <2>2
<1> QED BY <1>1, <1>3

\* A chain without reasons goes from the base commit, builder by builder.
LEMMA ChainHolds ==
  ASSUME \A d \in Contract : receipts[d] # None, NEW c \in Contract, ChainReasons(receipts, c) = {}
  PROVE  /\ receipts[c].input = IF Pred(c) = {} THEN Base ELSE receipts[CHOOSE d \in Pred(c) : TRUE].output
         /\ (receipts[c].output # receipts[c].input) <=> Role[c] = "builder"
<1>1. Pred(c) \subseteq Contract
  BY PlanFacts DEF Pred
<1> DEFINE commits == Outputs(receipts, Pred(c))
<1>2. {d \in Pred(c) : receipts[d] # None} = Pred(c)
  BY <1>1
<1>3. /\ Pred(c) = {} => receipts[c].input = Base
      /\ Pred(c) # {} => Cardinality(commits) = 1 /\ receipts[c].input \in commits
      /\ Role[c] \in {"scout", "tester"} => receipts[c].output = receipts[c].input
      /\ Role[c] = "builder" => receipts[c].output # receipts[c].input
  BY <1>2 DEF ChainReasons
<1>4. Role[c] \in {"scout", "builder", "tester"}
  BY GateAssumption
<1>5. ASSUME Pred(c) # {} PROVE receipts[c].input = receipts[CHOOSE d \in Pred(c) : TRUE].output
  <2>1. (CHOOSE d \in Pred(c) : TRUE) \in Pred(c)
    BY <1>5
  <2> QED BY <1>1, <1>3, <1>5, <2>1, OneCommit
<1> QED BY <1>3, <1>4, <1>5

Complete ==
    /\ \A c \in Contract :
          /\ lease[c] = "finished"
          /\ results[c].disp = "completed"
          /\ results[c].assess \in {None, "actionable"}
          /\ receipts[c].input = IF Pred(c) = {} THEN Base ELSE receipts[CHOOSE d \in Pred(c) : TRUE].output
          /\ (receipts[c].output # receipts[c].input) <=> Role[c] = "builder"
    /\ owed = {}

\* ... and signed for by a verifier that saw exactly this work.
Attested(a) ==
    /\ a # None /\ a.signed /\ a.verdict = "approved" /\ a.by \in Trusted \ Contract
    /\ a.subjects = results /\ a.lineage = receipts
    /\ \A p \in Terminal : \A c \in Phases[p] : receipts[c].output = a.final
    /\ \A k \in Criteria :
          /\ a.criteria[k] # None /\ a.criteria[k].passed
          /\ a.criteria[k].source = "verifier" /\ a.criteria[k].test # "worker_authored"

\* An attestation the gate has no reason against: it is of this work.
LEMMA NoAttestationReasons ==
  ASSUME NEW a, Authorizes(results, receipts, a) PROVE Attested(a)
<1>1. /\ WorkerReasons(results) = {} /\ LineageReasons(results, receipts) = {}
      /\ AttestationReasons(results, receipts, a) = {}
  BY DEF Authorizes
<1>2. a # None
  BY <1>1 DEF AttestationReasons
<1>3. \A c \in Contract : results[c] # None
  BY <1>1, NoWorkerReasons
<1>4. /\ a.lineage = receipts /\ a.final = FinalCommit(receipts) /\ FinalCommit(receipts) # None
      /\ a.subjects = results /\ a.by \in Trusted /\ a.signed /\ a.verdict = "approved"
      /\ a.by \notin {c \in Contract : results[c] # None}
      /\ UNION {CriterionReasons(a, k) : k \in Criteria} = {}
  BY <1>1, <1>2 DEF AttestationReasons
<1>5. a.by \in Trusted \ Contract
  BY <1>3, <1>4
<1>6. ASSUME NEW k \in Criteria
      PROVE  /\ a.criteria[k] # None /\ a.criteria[k].passed
             /\ a.criteria[k].source = "verifier" /\ a.criteria[k].test # "worker_authored"
  <2>1. CriterionReasons(a, k) = {}
    BY <1>4
  <2> QED BY <2>1 DEF CriterionReasons
<1>7. \A c \in Contract : receipts[c] # None
  BY <1>1, <1>3, NoLineageReasons
<1>8. ASSUME NEW p \in Terminal, NEW c \in Phases[p] PROVE receipts[c].output = a.final
  <2>1. PICK last : last = UNION {Phases[q] : q \in Terminal}
    OBVIOUS
  <2>2. last \subseteq Contract /\ c \in last
    BY <2>1, PlanFacts DEF Terminal
  <2>3. {d \in last : receipts[d] # None} = last
    BY <1>7, <2>2
  <2>4. PICK outs : outs = Outputs(receipts, last)
    OBVIOUS
  <2>5. FinalCommit(receipts) = IF Cardinality(outs) = 1 THEN CHOOSE k \in outs : TRUE ELSE None
    <3>1. LastOutputs(receipts) = outs
      BY <2>1, <2>3, <2>4 DEF LastOutputs
    <3> QED BY <3>1 DEF FinalCommit
  <2>6. Cardinality(outs) = 1
    BY <1>4, <2>5
  <2>7. receipts[c].output \in outs
    BY <2>2, <2>4 DEF Outputs
  <2>8. a.final \in outs
    BY <1>4, <2>5, <2>6, <2>7
  <2> QED BY <2>2, <2>4, <2>6, <2>8, OneCommit
<1> QED BY <1>2, <1>4, <1>5, <1>6, <1>8 DEF Attested

\* So whatever the attestation said, the gate authorizes complete work only.
LEMMA AuthorizedIsComplete ==
  ASSUME ShapeOK, FinalityOfLease, LeasesOK, SettledReturned, NEW a, Authorized(a) PROVE Complete
<1>1. WorkerReasons(results) = {} /\ LineageReasons(results, receipts) = {}
  BY DEF Authorized, Authorizes
<1>2. \A c \in Contract : /\ results[c] # None /\ results[c].disp = "completed"
                          /\ Role[c] = "scout" => results[c].assess = "actionable"
  BY <1>1, NoWorkerReasons
<1>3. \A c \in Contract : receipts[c] # None /\ ChainReasons(receipts, c) = {}
  BY <1>1, <1>2, NoLineageReasons
<1>4. \A c \in Contract : lease[c] = "finished"
  BY <1>2 DEF FinalityOfLease
<1>5. \A c \in Contract : results[c].assess \in {None, "actionable"}
  BY <1>2 DEF SettledReturned
<1>6. owed = {}
  BY <1>4 DEF LeasesOK, ShapeOK, TypeOK
<1>7. \A c \in Contract :
         /\ receipts[c].input = IF Pred(c) = {} THEN Base ELSE receipts[CHOOSE d \in Pred(c) : TRUE].output
         /\ (receipts[c].output # receipts[c].input) <=> Role[c] = "builder"
  BY <1>3, ChainHolds
<1> QED BY <1>2, <1>4, <1>5, <1>6, <1>7 DEF Complete

\* Only the gate decides; once it reported, the loop stands still.
LEMMA DecisionStep ==
  ASSUME ShapeOK, DraftOK, FuturesOK, BoundOK, Next
  PROVE  /\ decision' = decision \/ \E a : Gate(a)
         /\ pc = "reported" => Still /\ \A c \in Contract : ~Admit(c)
<1>1. CASE BindPhase \/ Submit \/ Poll \/ Reap \/ LoopStopped \/ Settled \/ Report \/ Drain \/ ClosePhase
  <2>1. decision' = decision
    BY <1>1, BindFrame, SubmitFrame, PollFrame, ReapFrame, TurnFrame, DrainFrame, ClosePhaseFrame
  <2>2. pc # "reported"
    BY <1>1, BindFrame, SubmitFrame, PollFrame, ReapFrame, TurnFrame, DrainFrame, ClosePhaseFrame DEF Turned
  <2> QED BY <2>1, <2>2
<1>2. ASSUME NEW c \in Contract, Admit(c) \/ SettleResult(c) PROVE decision' = decision /\ pc # "reported"
  BY <1>2, AdmitFrame, SettleFrame
<1>3. ASSUME NEW c \in Contract, SettleException(c) \/ \E b \in BOOLEAN : SettleUsage(c, b)
      PROVE  decision' = decision /\ pc # "reported"
  BY <1>3, ExceptionFrame, UsageFrame
<1>4. ASSUME NEW a, Gate(a) PROVE pc # "reported"
  BY <1>4, GateFrame
<1>5. Still => decision' = decision
  BY DEF Still
<1>6. decision' = decision \/ \E a : Gate(a)
  BY <1>1, <1>2, <1>3, <1>5, StepSplits
<1>7. pc = "reported" => Still
  BY <1>1, <1>2, <1>3, <1>4, StepSplits
<1>8. pc = "reported" => \A c \in Contract : ~Admit(c)
  BY <1>2
<1> QED BY <1>6, <1>7, <1>8

\* Leases of a team that nobody is admitted to any more.
LEMMA EndedStays ==
  ASSUME ShapeOK, DraftOK, AdmitsOnce, FuturesOK, BoundOK, Next, Active(lease) = {}, closed \/ pc = "reported"
  PROVE  lease' = lease /\ owed' \subseteq owed
<1>1. ShapeOK'
  BY ShapeStep
<1>2. ASSUME NEW c \in Contract PROVE lease'[c] = lease[c] /\ (c \in owed' => c \in owed)
  <2>1. lease[c] # "active" /\ ~(Admit(c) /\ ~closed)
    BY DecisionStep DEF Active
  <2> QED BY <2>1, LeaseStep DEF LeaseMove, OwedMove
<1> QED BY <1>1, <1>2 DEF ShapeOK, TypeOK

\* Authority stays with complete work.
LEMMA AuthorityStep ==
  ASSUME ShapeOK, DraftOK, AdmitsOnce, FuturesOK, BoundOK, FinalityOfLease, LeasesOK, SettledReturned, AuthorityOK, Next
  PROVE  AuthorityOK'
<1> SUFFICES ASSUME Accredited'
             PROVE  Complete' /\ Attested(decision.attestation)' /\ pc' = "reported"
  BY DEF AuthorityOK, AuthorizedMeansComplete, Complete, Attested, Accredited
<1>1. ASSUME NEW a, Gate(a)
      PROVE  Complete' /\ Attested(decision.attestation)' /\ pc' = "reported"
  <2>1. /\ Authorized(a) /\ pc' = "reported" /\ UNCHANGED <<lease, owed, results, receipts>>
        /\ decision'.attestation = Attest(a)
    BY <1>1, GateFrame DEF Accredited
  <2>2. Complete
    BY <2>1, AuthorizedIsComplete
  <2>3. Attested(Attest(a))
    BY <2>1, NoAttestationReasons DEF Authorized
  <2>4. Attested(decision.attestation)'
    BY <2>1, <2>3 DEF Attested
  <2> QED BY <2>1, <2>2, <2>4 DEF Complete
<1>2. CASE decision' = decision
  <2>1. Complete /\ Attested(decision.attestation) /\ pc = "reported"
    BY <1>2 DEF AuthorityOK, AuthorizedMeansComplete, Complete, Attested, Accredited
  <2>2. UNCHANGED <<results, receipts>> /\ pc' = "reported"
    BY <2>1, DecisionStep DEF Still
  <2>3. Active(lease) = {}
    BY <2>1 DEF Complete, Active
  <2>4. lease' = lease /\ owed' = owed
    BY <2>1, <2>3, EndedStays DEF Complete
  <2>5. Attested(decision.attestation)'
    BY <1>2, <2>1, <2>2 DEF Attested
  <2> QED BY <2>1, <2>2, <2>4, <2>5 DEF Complete
<1> QED BY <1>1, <1>2, DecisionStep

\* The sweep stops what is owed, or says that it did not.
Sweeping == "not_quiescent" \notin failures => owed \subseteq toStop

\* What the sweep stops, it owes no more.
LEMMA SweepingStep ==
  ASSUME ShapeOK, DraftOK, AdmitsOnce, FuturesOK, BoundOK, LeasesOK, closed, Sweeping, Next, pc = "sweep", pc' = "sweep"
  PROVE  Sweeping'
<1>1. owed' \subseteq owed
  BY EndedStays DEF LeasesOK
<1>2. ASSUME toStop' = toStop, failures \subseteq failures' PROVE Sweeping'
  BY <1>1, <1>2 DEF Sweeping
<1>3. ASSUME NEW w \in Contract, WorkerStep(w) \/ Hang(w) PROVE Sweeping'
  BY <1>2, <1>3, WorkerFrame
<1>4. CASE Others
  BY <1>2, <1>4, OthersFrame
<1>5. CASE MainAcknowledge
  BY <1>5, AcknowledgeFrame DEF Sweeping
<1>6. ASSUME NEW c \in Contract, MainStop(c) PROVE Sweeping'
  BY <1>2, <1>6, MainStopFrame
<1>7. CASE BindPhase \/ Submit \/ Poll \/ Reap \/ LoopStopped \/ Settled \/ Report \/ Drain \/ ClosePhase
  BY <1>7, BindFrame, SubmitFrame, PollFrame, ReapFrame, TurnFrame, DrainFrame, ClosePhaseFrame DEF Turned
<1>8. ASSUME NEW c \in Contract, Admit(c) \/ SettleResult(c) PROVE FALSE
  BY <1>8, AdmitFrame, SettleFrame
<1>9. ASSUME NEW c \in Contract, SettleException(c) \/ \E b \in BOOLEAN : SettleUsage(c, b) PROVE FALSE
  BY <1>9, ExceptionFrame, UsageFrame
<1>10. ASSUME NEW a, Gate(a) PROVE FALSE
  BY <1>10, GateFrame
<1> QED BY <1>3, <1>4, <1>5, <1>6, <1>7, <1>8, <1>9, <1>10, NextSplits, OrchestrateSplits

\* The sweep owes what it has still to stop.
LEMMA SweepStep ==
  ASSUME ShapeOK, DraftOK, AdmitsOnce, FuturesOK, BoundOK, FinalityOfLease, LeasesOK, SettledReturned, SweepOK, Next
  PROVE  SweepOK'
<1>1. ASSUME NEW a, Gate(a) PROVE SweepOK'
  <2>1. CASE Authorized(a) /\ pc' = "reported" /\ UNCHANGED <<lease, owed>>
    <3>1. Complete
      BY <2>1, AuthorizedIsComplete
    <3>2. Active(lease) = {} /\ owed = {}
      BY <3>1 DEF Complete, Active
    <3> QED BY <2>1, <3>2 DEF SweepOK, Active
  <2>2. CASE pc' = "sweep" /\ closed' = TRUE /\ toStop' = owed'
    BY <2>2 DEF SweepOK
  <2> QED BY <1>1, <2>1, <2>2, GateFrame
<1>2. CASE Still /\ pc = "sweep"
  <2>1. closed /\ Sweeping /\ pc' = "sweep"
    BY <1>2 DEF SweepOK, Sweeping, Still
  <2>2. Sweeping' /\ closed'
    BY <1>2, <2>1, SweepingStep, ClosedStep
  <2> QED BY <2>1, <2>2 DEF SweepOK, Sweeping
<1>3. CASE Still /\ pc = "reported"
  <2>1. Active(lease) = {} /\ ("not_quiescent" \notin failures => owed = {}) /\ pc' = "reported"
        /\ failures \subseteq failures'
    BY <1>3 DEF SweepOK, Still
  <2>2. lease' = lease /\ owed' \subseteq owed
    BY <1>3, <2>1, EndedStays
  <2> QED BY <2>1, <2>2 DEF SweepOK, Active
<1>4. CASE Still /\ pc \notin {"sweep", "reported"}
  BY <1>4 DEF Still, SweepOK
<1>5. CASE LoopStopped \/ Settled \/ Report
  <2>1. Turned /\ UNCHANGED <<lease, owed, failures, toStop>>
    BY <1>5, TurnFrame
  <2>2. pc = "sweep" => Active(lease) = {}
    BY DEF SweepOK, LeasesOK
  <2> QED BY <2>1, <2>2 DEF Turned, SweepOK, Active
<1>6. CASE BindPhase \/ Submit \/ Poll \/ Reap \/ Drain \/ ClosePhase
  <2>1. pc' \notin {"sweep", "reported"}
    BY <1>6, BindFrame, SubmitFrame, PollFrame, ReapFrame, DrainFrame, ClosePhaseFrame
  <2> QED BY <2>1 DEF SweepOK
<1>7. ASSUME NEW c \in Contract, Admit(c) PROVE pc' \notin {"sweep", "reported"}
  BY <1>7, AdmitFrame DEF Granted, Journal
<1>8. ASSUME NEW c \in Contract, SettleResult(c) PROVE pc' \notin {"sweep", "reported"}
  BY <1>8, SettleFrame, RecordFrame
<1>9. ASSUME NEW c \in Contract, SettleException(c) \/ \E b \in BOOLEAN : SettleUsage(c, b)
      PROVE  pc' \notin {"sweep", "reported"}
  BY <1>9, ExceptionFrame, UsageFrame
<1>10. pc' \notin {"sweep", "reported"} => SweepOK'
  BY DEF SweepOK
<1> QED BY <1>1, <1>2, <1>3, <1>4, <1>5, <1>6, <1>7, <1>8, <1>9, <1>10, StepSplits

-----------------------------------------------------------------------------
(* The invariant, and what it gives. *)

\* The invariant holds at the start, ...
LEMMA RunInit == Init => RunInv
<1> SUFFICES ASSUME Init PROVE RunInv
  OBVIOUS
<1>1. ShapeOK
  BY ShapeInit
<1>2. \A c \in Contract : Fresh(c)
  BY DEF Init, Fresh
<1>3. FreshAhead
  BY <1>2, PlanFacts DEF FreshAhead
<1>4. AdmitsOnce /\ FuturesOK /\ SweepOK /\ BoundOK
  BY DEF Init, AdmitsOnce, FuturesOK, SweepOK, BoundOK
<1>5. DraftOK /\ NoStray /\ SettledReturned
  BY <1>2 DEF Fresh, DraftOK, NoStray, Running, SettledReturned
<1>6. FinalityOfLease /\ ScoutNeverInferred /\ Trajectory
  BY <1>2 DEF Fresh, FinalityOfLease, ScoutNeverInferred, Trajectory
<1>7. LeasesOK /\ StopsOK
  BY DEF Init, LeasesOK, StopsOK
<1>8. ~Accredited
  BY DEF Init, Accredited
<1>9. AuthorityOK
  BY <1>8 DEF AuthorityOK, AuthorizedMeansComplete, Accredited
<1> QED BY <1>1, <1>3, <1>4, <1>5, <1>6, <1>7, <1>9 DEF RunInv

\* A step of somebody else changes nothing.
LEMMA RunStays ==
  ASSUME RunInv, UNCHANGED vars PROVE RunInv'
<1>1. UNCHANGED <<pc, phase, queue, pending, done, late, toStop, results, receipts, failures, decision, lease, owed,
                  due, closed, over, stage, draft, token, requested, stops, atlas, cancels, a2a>>
  BY DEF vars, runVars, leaseVars, workerVars, atlasVars
<1>2. ShapeOK' /\ DraftOK'
  BY <1>1 DEF RunInv, ShapeOK, TypeOK, DraftOK
<1>3. FreshAhead' /\ AdmitsOnce'
  BY <1>1 DEF RunInv, FreshAhead, AdmitsOnce, Fresh, Assigned
<1>4. FuturesOK' /\ NoStray' /\ SettledReturned'
  BY <1>1 DEF RunInv, FuturesOK, Assigned, NoStray, SettledReturned
<1>5. LeasesOK' /\ StopsOK' /\ SweepOK' /\ BoundOK'
  BY <1>1 DEF RunInv, LeasesOK, StopsOK, Silent, SweepOK, BoundOK, Active
<1>6. AuthorityOK'
  BY <1>1 DEF RunInv, AuthorityOK, AuthorizedMeansComplete, Accredited
<1>7. FinalityOfLease' /\ ScoutNeverInferred' /\ Trajectory'
  BY <1>1 DEF RunInv, FinalityOfLease, ScoutNeverInferred, Trajectory
<1> QED BY <1>2, <1>3, <1>4, <1>5, <1>6, <1>7 DEF RunInv

\* ... every step keeps it, ...
LEMMA RunStep == RunInv /\ [Next]_vars => RunInv'
<1> SUFFICES ASSUME RunInv, [Next]_vars PROVE RunInv'
  OBVIOUS
<1>1. CASE Next
  <2>1. ShapeOK' /\ DraftOK' /\ FreshAhead' /\ AdmitsOnce' /\ FuturesOK' /\ NoStray' /\ SettledReturned'
    BY <1>1, ShapeStep, DraftStep, FreshAheadStep, AdmitsOnceStep, FuturesStep, NoStrayStep, SettledStep DEF RunInv
  <2>2. LeasesOK' /\ StopsOK' /\ SweepOK' /\ BoundOK' /\ AuthorityOK'
    BY <1>1, LeasesStep, StopsStep, SweepStep, BoundStep, AuthorityStep DEF RunInv
  <2>3. FinalityOfLease' /\ ScoutNeverInferred' /\ Trajectory'
    BY <1>1, FinalityStep, ScoutStep, TrajectoryStep DEF RunInv
  <2> QED BY <2>1, <2>2, <2>3 DEF RunInv
<1>2. CASE UNCHANGED vars
  BY <1>2, RunStays
<1> QED BY <1>1, <1>2

\* ... and so it always holds.
LEMMA RunAlways == Spec => []RunInv
  BY RunInit, RunStep, PTL DEF Spec

\* For every plan, every raw outcome of Pi, every attestation and every order
\* in which workers, Atlas, the clock and the orchestrator act: an authorized
\* run has every planned worker finished and completed, every scout actionable,
\* the builders' commits chained from the base commit, and no stop owed; and a
\* trusted verifier that is no worker signed for exactly these results, these
\* receipts and the commit the chain ends at (SwarmCompletionGate.evaluate,
\* TrustedSwarmOrchestrator.run).
THEOREM AuthorityNeedsCompletion == Spec => []AuthorizedMeansComplete
<1>1. RunInv => AuthorizedMeansComplete
  BY DEF RunInv, AuthorityOK
<1> QED BY <1>1, RunAlways, PTL

\* ... an acknowledged stop is a worker that runs Pi no more, a recorded result
\* agrees with the end of its lease, a scout's with its terminal block, a child
\* has at most one result in the A2A journal, and a report without a
\* quiescence failure leaves no stop owed and nothing running
\* (PiSwarmWorkerRuntime.stop and execute, _drain_late_futures,
\* _stop_and_acknowledge).
THEOREM StopsAndResultsStayTrue == Spec => []StopsAndResultsAreTrue
<1>1. RunInv => StopsAndResultsAreTrue
  <2> SUFFICES ASSUME RunInv PROVE StopsAndResultsAreTrue
    OBVIOUS
  <2>1. AcknowledgedIsQuiet
    BY DEF RunInv, StopsOK, Silent, AcknowledgedIsQuiet, Over
  <2>2. ASSUME pc = "reported", failures \cap {"not_quiescent", "grace_exceeded"} = {}
        PROVE  owed = {} /\ Busy = {} /\ Active(lease) = {}
    <3>1. owed = {} /\ Active(lease) = {}
      BY <2>2 DEF RunInv, SweepOK
    <3>2. pending \cup late = {}
      BY <2>2 DEF RunInv, FuturesOK
    <3>3. \A c \in Contract : stage[c] \notin Running
      BY <2>2, <3>2 DEF RunInv, NoStray
    <3> QED BY <3>1, <3>3 DEF Busy
  <2> QED BY <2>1, <2>2 DEF RunInv, ShapeOK, StopsAndResultsAreTrue, ReportIsQuiet
<1> QED BY <1>1, RunAlways, PTL

=============================================================================
