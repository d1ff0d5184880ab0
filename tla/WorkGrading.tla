------------------------------ MODULE WorkGrading ------------------------------
(***************************************************************************)
(* The grade of the WORK a card asks for, from the assess call that         *)
(* proposes it to the models that build and examine the card                *)
(* (autocode/adapters/base.py, orchestrator.py phase 0, grading.py,         *)
(* sensitivity.py, sovereignty.py, buckets.py, grader_pin.py).  Passes over *)
(* one card follow each other; people edit the card at any time, a pass     *)
(* goes on with the card it read.  Which pattern of the rules a text        *)
(* matches is abstracted to "hot" or "plain".                               *)
(***************************************************************************)
EXTENDS Integers, Sequences

CONSTANTS
    Axes,            \* the [size, risk] pairs a reply may carry; ranks
    Pinned,          \* GRADER_CAPABILITY_CLASS, a rank
    BaseAttempts, MaxAttempts,   \* _RUN_ATTEMPTS, _RUN_ATTEMPTS_MAX
    Window,          \* how many run events the health rate looks back on
    MaxPasses,       \* bound on passes over the card
    MaxEdits,        \* bound on edits by people
    NoGrade, HalfGrade, NoModel, Refused, NoMark

ASSUME GradingAssumption ==
    /\ MaxAttempts \in Nat /\ BaseAttempts \in 1..MaxAttempts /\ Window \in Nat \ {0}

VARIABLES
    card,            \* [text, override, grade]; override may be malformed
    health,          \* the run events of the health log, newest last
    overrides,       \* supports_model_override() of the adapter
    extended,        \* the operator listed a third party as our backend
    judging,         \* the pass under way
    passes, edits,
    route            \* [default, floor, tag, kind]: settings, a card's tag, its executor

gradingVars == <<card, health, overrides, extended, judging, passes, edits>>

Zone == {"public", "internal", "secret"}
Verdict == {"valid", "stale", "obsolete", "needs_decision", "decompose"}

(* What a pass has in hand: the card it read, the tries of the call under   *)
(* way, the first reply, every verdict it heard, its verdict and item.      *)
NewPass(step, c, n) ==
    [pc |-> step, seen |-> c, left |-> n, tried |-> 0, axes |-> NoGrade, heard |-> <<>>,
     verdict |-> NoGrade, fresh |-> NoGrade, item |-> NoGrade, build |-> NoModel, exam |-> NoModel]

Judging(pc) == judging.pc = pc

-----------------------------------------------------------------------------
(* health.py and _run_attempts() *)

Logged(event) == LET h == Append(health, event)
                 IN  IF Len(h) > Window THEN Tail(h) ELSE h

Declined == Len(SelectSeq(health, LAMBDA e : e = "inconclusive"))

RunAttempts ==
    CASE health # <<>> /\ 2 * Declined >= Len(health) -> MaxAttempts
      [] health # <<>> /\ 2 * Declined < Len(health) /\ 4 * Declined >= Len(health) ->
           IF BaseAttempts + 2 < MaxAttempts THEN BaseAttempts + 2 ELSE MaxAttempts
      [] OTHER -> BaseAttempts

-----------------------------------------------------------------------------
(* sensitivity.py, grading.py, sovereignty.py, buckets.py, grader_pin.py *)

Malformed(c) == c.override = "malformed"

Rules(c) == CASE c.override # NoMark -> c.override
              [] c.override = NoMark /\ c.text = "hot" -> "secret"
              [] OTHER -> "internal"

ModelClassFor(axes) == IF axes.size >= axes.risk THEN axes.size ELSE axes.risk

(* work_grade_for(): the zone is the rules' for the card that was read.     *)
(* (Mutant: the reply's advice.)                                            *)
WorkGradeFor_Advised(c, axes) ==
    IF axes = NoGrade \/ Malformed(c) THEN NoGrade
    ELSE [class |-> ModelClassFor(axes), zone |-> axes.advice, of |-> [c EXCEPT !.grade = NoGrade], by |-> NoMark]

WorkGradeFor(c, axes) ==
    IF axes = NoGrade \/ Malformed(c) THEN NoGrade
    ELSE [class |-> ModelClassFor(axes), zone |-> Rules(c), of |-> [c EXCEPT !.grade = NoGrade], by |-> NoMark]

(* stored_work_grade(): half a grade is none. *)
StoredWorkGrade(c) == IF c.grade = HalfGrade THEN NoGrade ELSE c.grade

OwnBackend(b) == b = "ours" \/ (extended /\ b = "third party")

(* classify(): the list of third parties comes first. *)
Sovereign(s) ==
    /\ s.backend # "third party" /\ OwnBackend(s.backend)
    /\ s.basis = "local" \/ (s.basis = "gpu" /\ s.node)

BucketFor(grade) == IF grade = NoGrade THEN NoModel ELSE [class |-> grade.class, zone |-> grade.zone]

GraderBucket(b) == IF b = NoModel THEN NoModel ELSE [b EXCEPT !.class = Pinned]

(* _run_raw(): an adapter that cannot address a model refuses the call.     *)
Launched(model) == IF overrides \/ model = NoModel THEN model ELSE Refused

-----------------------------------------------------------------------------
(* phase0_assess() with assess() and _run() *)

BeginPass ==
    /\ Judging("idle") /\ passes < MaxPasses /\ passes' = passes + 1
    /\ judging' = NewPass("assess", card, RunAttempts)
    /\ UNCHANGED <<card, health, overrides, extended, edits>>

(* A try that brings an error or prose: the next one, or the call is over. *)
Silence(next) ==
    /\ judging' = IF judging.left > 1
                  THEN [judging EXCEPT !.left = @ - 1, !.tried = @ + 1]
                  ELSE [next EXCEPT !.left = 0, !.tried = 0]
    /\ health' = IF judging.left > 1 THEN health ELSE Logged("inconclusive")

(* assess(): no answer proceeds to the gate. *)
AssessSilent ==
    /\ Judging("assess")
    /\ Silence([judging EXCEPT !.pc = "ground", !.verdict = "valid"])
    /\ UNCHANGED <<card, overrides, extended, passes, edits>>

(* A verdict outside the list counts as none; the axes count all the same.  *)
AssessAnswers(said, axes) ==
    /\ Judging("assess") /\ health' = Logged("ok")
    /\ judging' = [judging EXCEPT
         !.axes = axes, !.heard = <<said>>, !.tried = 0, !.left = 0,
         !.pc = IF said = "needs_decision" THEN "budget" ELSE "ground",
         !.verdict = IF said \in Verdict THEN said ELSE "valid"]
    /\ UNCHANGED <<card, overrides, extended, passes, edits>>

ConfirmBegins ==
    /\ Judging("budget")
    /\ judging' = [judging EXCEPT !.pc = "confirm", !.left = RunAttempts]
    /\ UNCHANGED <<card, health, overrides, extended, passes, edits>>

(* Only a second opinion that says so too makes it a decision. *)
Confirmed(second) == second = "needs_decision"

Opinion(second) == [judging EXCEPT !.pc = "ground", !.heard = Append(@, second),
                                   !.verdict = IF Confirmed(second) THEN "needs_decision" ELSE "valid"]

ConfirmSilent ==
    /\ Judging("confirm") /\ Silence(Opinion(NoMark))
    /\ UNCHANGED <<card, overrides, extended, passes, edits>>

ConfirmAnswers(verdict) ==
    /\ Judging("confirm") /\ health' = Logged("ok")
    /\ judging' = [Opinion(verdict) EXCEPT !.tried = 0, !.left = 0]
    /\ UNCHANGED <<card, overrides, extended, passes, edits>>

(* The concreteness gate: a new verdict, without axes.  Then the grade.     *)
Ground(vague) ==
    /\ Judging("ground") /\ (vague => judging.verdict = "valid")
    /\ LET axes == IF vague THEN NoGrade ELSE judging.axes
           v    == IF vague THEN "decompose" ELSE judging.verdict
       IN  judging' = [judging EXCEPT !.verdict = v, !.axes = NoGrade,
                         !.pc = IF WorkGradeFor(judging.seen, axes) # NoGrade
                                   /\ v \in {"valid", "stale", "needs_decision"}
                                THEN "write" ELSE "plan",
                         !.fresh = WorkGradeFor(judging.seen, axes)]
    /\ UNCHANGED <<card, health, overrides, extended, passes, edits>>

(* _write_grade(): refused unless our hardware was seen to serve; a failed  *)
(* write is only recorded.                                                  *)
WriteGrade(served, saved) ==
    /\ Judging("write")
    /\ card' = IF Sovereign(served) /\ saved
               THEN [card EXCEPT !.grade = [judging.fresh EXCEPT !.by = served.backend]]
               ELSE card
    /\ judging' = [judging EXCEPT !.pc = "plan"]
    /\ UNCHANGED <<health, overrides, extended, passes, edits>>

(* The card is queued with the fresh grade or the one it was read with, or  *)
(* it is closed, split or handed to a person.  A stale card is rewritten.   *)
Plan(text) ==
    /\ Judging("plan") /\ (text # card.text => judging.verdict = "stale")
    /\ card' = [card EXCEPT !.text = text]
    /\ judging' = IF judging.verdict \in {"valid", "stale"}
                  THEN [judging EXCEPT !.pc = "build",
                          !.item = IF judging.fresh # NoGrade THEN judging.fresh
                                   ELSE StoredWorkGrade(judging.seen)]
                  ELSE [judging EXCEPT !.pc = "done"]
    /\ UNCHANGED <<health, overrides, extended, passes, edits>>

(* run_task() and grade(): each launch names its own bucket. *)
BuildLaunch ==
    /\ Judging("build")
    /\ LET model == Launched(BucketFor(judging.item))
       IN  judging' = [judging EXCEPT !.build = model, !.left = RunAttempts,
                                      !.pc = IF model = Refused THEN "done" ELSE "exam"]
    /\ UNCHANGED <<card, health, overrides, extended, passes, edits>>

ExamLaunch(answers) ==
    /\ Judging("exam")
    /\ LET over == [judging EXCEPT !.pc = "done", !.exam = Launched(GraderBucket(BucketFor(judging.item)))]
       IN  IF answers THEN health' = Logged("ok") /\ judging' = [over EXCEPT !.tried = 0, !.left = 0]
           ELSE Silence(over)
    /\ UNCHANGED <<card, overrides, extended, passes, edits>>

EndPass ==
    /\ Judging("done") /\ judging' = NewPass("idle", NoGrade, 0)
    /\ UNCHANGED <<card, health, overrides, extended, passes, edits>>

(* A person rewrites the card, or marks it, perhaps wrongly. *)
Edit(text, mark) ==
    /\ edits < MaxEdits /\ edits' = edits + 1
    /\ card' = [card EXCEPT !.text = text, !.override = mark] /\ card' # card
    /\ UNCHANGED <<health, overrides, extended, judging, passes>>

-----------------------------------------------------------------------------
(* resolve_quality(), classify_kind(): which executor a repo card goes to.  *)
(* A tag or setting that is no quality mode is coerced to gated.            *)

Rank == [none |-> 0, direct |-> 1, gated |-> 2]

Coerced(q) == IF q \in DOMAIN Rank THEN q ELSE "gated"

OperatorQualityBaseline(default, floor) ==
    LET q == Coerced(default)
    IN  IF floor # NoMark /\ Rank[Coerced(floor)] > Rank[q] THEN Coerced(floor) ELSE q

ResolveQuality(default, floor, tag) ==
    LET q == OperatorQualityBaseline(default, floor)
    IN  IF tag # NoMark /\ Rank[Coerced(tag)] > Rank[q] THEN Coerced(tag) ELSE q

ClassifyKind(default, floor, tag) ==
    IF ResolveQuality(default, floor, tag) = "direct" THEN "engineering-direct" ELSE "engineering"

Classify ==
    /\ route.kind = NoMark
    /\ route' = [route EXCEPT !.kind = ClassifyKind(route.default, route.floor, route.tag)]

-----------------------------------------------------------------------------
Opinions == {"valid", "needs_decision"}
Mark == {NoMark, "public", "malformed"}
Text == {"plain", "hot"}
Setting == {NoMark, "none", "direct", "gated", "typo"}
Served == [backend : {"ours", "third party", "unknown"}, basis : {"gpu", "local", "cloud"}, node : BOOLEAN]

GradingInit ==
    /\ card \in [text : Text, override : {NoMark}, grade : {NoGrade, HalfGrade}]
    /\ overrides \in BOOLEAN /\ extended \in BOOLEAN
    /\ health = <<>> /\ passes = 0 /\ edits = 0
    /\ route \in [default : Setting, floor : Setting, tag : Setting, kind : {NoMark}]
    /\ judging = NewPass("idle", NoGrade, 0)

GradingNext ==
    \/ BeginPass \/ AssessSilent \/ ConfirmBegins \/ ConfirmSilent \/ BuildLaunch \/ EndPass
    \/ \E v \in Verdict \cup {"odd"}, a \in Axes \cup {NoGrade} : AssessAnswers(v, a)
    \/ \E v \in Opinions : ConfirmAnswers(v)
    \/ \E b \in BOOLEAN : Ground(b) \/ ExamLaunch(b) \/ \E s \in Served : WriteGrade(s, b)
    \/ \E t \in Text : Plan(t) \/ \E mk \in Mark : Edit(t, mk)

GradingSpec ==
    /\ GradingInit
    /\ [][(GradingNext /\ UNCHANGED route) \/ (Classify /\ UNCHANGED gradingVars)]_<<gradingVars, route>>

Bucket == [class : {ModelClassFor(a) : a \in Axes} \cup {Pinned}, zone : Zone]

(* What stands for nothing is no answer, no executor and no bucket. *)
ASSUME NothingAssumption ==
    /\ NoGrade \notin Verdict
    /\ NoMark \notin {"engineering", "engineering-direct"}
    /\ NoModel \notin Bucket /\ NoModel # Refused

-----------------------------------------------------------------------------
(* Properties. *)

(* The retry budget keeps to its ceiling, a grade to its axes. *)
GradingTypeOK ==
    /\ judging.tried + judging.left \in 0..MaxAttempts
    /\ Len(health) <= Window
    /\ card.grade \in {NoGrade, HalfGrade} \/ card.grade.zone \in Zone

(* No model's word decides where a card's content may go: a bucket's zone   *)
(* is what the rules say of the card the pass read, or, where the pass got  *)
(* no grade of its own and fell back on the stored one, of the card that    *)
(* grade was given to, which may have been edited since; and no grade stays *)
(* on a card whose zone the rules did not give.                             *)
ZoneIsRuled ==
    /\ judging.build \notin {NoModel, Refused} =>
         \/ judging.build.zone = Rules(judging.seen)
         \/ judging.fresh = NoGrade /\ judging.build.zone = Rules(judging.item.of)
    /\ card.grade \notin {NoGrade, HalfGrade} => card.grade.zone = Rules(card.grade.of)

(* A card never picks its examiner: whatever grade it has by now, the       *)
(* examination runs in the zone of the build and in the pinned class.       *)
ExaminerIsPinned ==
    judging.exam # NoModel => judging.exam = [class |-> Pinned, zone |-> judging.build.zone]

(* A graded card never runs on the adapter's static model, for the build or *)
(* for the examination.                                                     *)
GradedStaysRouted ==
    Judging("done") /\ judging.item # NoGrade => judging.build # NoModel

(* Silence and a single hedge never close, split or hand over a card: such  *)
(* an end was the answer, the same twice for a decision, or the repository  *)
(* resolved nothing the card names.                                         *)
VerdictIsEarned ==
    LET end == judging.verdict
    IN  end \in {"stale", "obsolete", "needs_decision"} /\ judging.pc \notin {"budget", "confirm"} =>
            judging.heard = IF end = "needs_decision" THEN <<end, end>> ELSE <<end>>

(* No configuration makes a third party's grade ours. *)
CertificateIsEarned ==
    card.grade \notin {NoGrade, HalfGrade} => card.grade.by = "ours"

(* No card talks its way past a gate the operator chose: the executor       *)
(* without a gate is reached by the operator's own "direct", or by a tag    *)
(* over an operator's "none"; a "gated" or misspelt setting keeps every     *)
(* card out, and an operator's "direct" is heeded where no tag raises it.   *)
GateNotLowered ==
    LET baseline == OperatorQualityBaseline(route.default, route.floor)
    IN  /\ route.kind = "engineering-direct" =>
             baseline = "direct" \/ (baseline = "none" /\ route.tag = "direct")
        /\ route.kind = "engineering" /\ route.tag = NoMark => baseline # "direct"

(* Where a card may go and who examines it, while people edit the card and  *)
(* calls fail: the zone is the rules' for the text that was graded, the     *)
(* examiner the operator's, the verdict an answer that was heard, and no    *)
(* tag passes a gate that the operator set.                                 *)
GradingIsRuled ==
    /\ GradingTypeOK /\ ZoneIsRuled /\ ExaminerIsPinned /\ GradedStaysRouted
    /\ VerdictIsEarned /\ CertificateIsEarned /\ GateNotLowered
=============================================================================
