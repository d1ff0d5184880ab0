------------------------------- MODULE ArenaVerdict -------------------------------
(***************************************************************************)
(* IndependentVerifier.verify() (arena/verifier.py) with the metric rules   *)
(* and the Pareto frontier of arena/metrics.py.  verify() asks a privileged *)
(* backend for three controls and then for repeated trials; any of those    *)
(* calls may raise.  A trial is reduced to whether it breaks one of the     *)
(* rules against gaming and to the value of its one metric.                 *)
(***************************************************************************)
EXTENDS Naturals, Sequences, SequencesExt, FiniteSets, FiniteSetsExt

CONSTANTS
    Repetitions,     \* policy.repetitions
    Floor,           \* what the objective's hard constraint demands of the mean
    Value,           \* values of a metric
    RequireControls, \* policy.require_controls
    Candidate,       \* candidates of the frontier
    Objective,
    Tolerance,       \* [Objective -> Nat]: all objectives are maximized
    Missing          \* the value of a metric the trial does not report

ASSUME VerdictAssumption ==
    /\ Repetitions \in Nat \ {0, 1} /\ RequireControls \in BOOLEAN
    /\ Value \subseteq Nat /\ Tolerance \in [Objective -> Nat]
    /\ IsFiniteSet(Candidate)

(* No objective has a tolerance (the default of MetricObjective).  With     *)
(* tolerances dominance is not transitive, and may have cycles.             *)
Exact == \A o \in Objective : Tolerance[o] = 0

VARIABLES
    claim,           \* the submission: does it name the policy's challenge and model
    controls,        \* outcomes of the controls asked so far
    trials,          \* outcomes of the trials asked so far
    verdict,         \* "none" until there is one
    metrics,         \* [Candidate -> [Objective -> Value]]
    frontier         \* the frontier computed from them

verifyVars == <<claim, verdict, controls, trials>>
verdictVars == <<verifyVars, metrics, frontier>>

Control == <<"gold", "no_op", "adversarial">>
Trial == [ran : {TRUE}, clean : BOOLEAN, value : Value \cup {Missing}]
         \cup [ran : {FALSE}, clean : {FALSE}, value : {Missing}]

(* What the controls say. *)
ControlsHold(cs) == cs[1] = "passed" /\ cs[2] = "failed" /\ cs[3] = "failed"

(* The submission names another challenge or model: no call is made. *)
Mismatched ==
    /\ verdict = "none" /\ ~claim
    /\ verdict' = "invalid"
    /\ UNCHANGED <<claim, controls, trials, metrics, frontier>>

(* A control that raises ends the verification. *)
RunControl(outcome) ==
    /\ verdict = "none" /\ claim /\ RequireControls /\ Len(controls) < Len(Control)
    /\ controls' = Append(controls, outcome)
    /\ verdict' = IF \/ outcome = "error"
                     \/ Len(controls') = Len(Control) /\ ~ControlsHold(controls')
                    THEN "inconclusive" ELSE "none"
    /\ UNCHANGED <<claim, trials, metrics, frontier>>

(* The mean satisfies the constraint. *)
Total(ts) == FoldLeft(LAMBDA s, t : s + t.value, 0, ts)
Accepts(ts) == Total(ts) >= Floor * Len(ts)

(* After the last trial: rules against gaming in every trial, then metrics  *)
(* in every trial, then the constraint on the mean.  (Mutant: the rules are *)
(* looked at in the last trial only.)                                       *)
Concluded_LastTrial(ts) ==
    IF ~Last(ts).clean THEN "invalid"
    ELSE IF \E i \in DOMAIN ts : ts[i].value = Missing THEN "invalid"
    ELSE IF Accepts(ts) THEN "valid" ELSE "invalid"

Concluded(ts) ==
    IF \E i \in DOMAIN ts : ~ts[i].clean THEN "invalid"
    ELSE IF \E i \in DOMAIN ts : ts[i].value = Missing THEN "invalid"
    ELSE IF Accepts(ts) THEN "valid" ELSE "invalid"

RunTrial(t) ==
    /\ verdict = "none" /\ claim
    /\ RequireControls => Len(controls) = Len(Control)
    /\ trials' = Append(trials, t)
    /\ verdict' = IF ~t.ran THEN "inconclusive"
                  ELSE IF Len(trials') = Repetitions THEN Concluded(trials') ELSE "none"
    /\ UNCHANGED <<claim, controls, metrics, frontier>>

-----------------------------------------------------------------------------
(* _dominates() and pareto_frontier(). *)
Dominates(m, a, b) ==
    /\ \A o \in Objective : m[a][o] + Tolerance[o] >= m[b][o]
    /\ \E o \in Objective : m[a][o] > m[b][o] + Tolerance[o]

Admissible(m) == {c \in Candidate : \A o \in Objective : m[c][o] >= Floor}

Frontier(m) == {c \in Admissible(m) : ~\E d \in Admissible(m) \ {c} : Dominates(m, d, c)}

ComputeFrontier ==
    /\ frontier = {"none"}
    /\ frontier' = Frontier(metrics)
    /\ UNCHANGED <<verifyVars, metrics>>

-----------------------------------------------------------------------------
VerifyInit ==
    /\ claim \in BOOLEAN /\ controls = <<>> /\ trials = <<>> /\ verdict = "none"

VerifyNext ==
    \/ Mismatched
    \/ \E o \in {"passed", "failed", "error"} : RunControl(o)
    \/ \E t \in Trial : RunTrial(t)

VerdictInit ==
    VerifyInit /\ metrics \in [Candidate -> [Objective -> Value]] /\ frontier = {"none"}

VerdictSpec == VerdictInit /\ [][VerifyNext \/ ComputeFrontier]_verdictVars

-----------------------------------------------------------------------------
(* Properties. *)

VerdictTypeOK ==
    /\ verdict \in {"none", "valid", "invalid", "inconclusive"}
    /\ Len(controls) <= Len(Control) /\ Len(trials) <= Repetitions
    /\ frontier = {"none"} \/ frontier \subseteq Candidate

(* A submission is valid only when the controls told good from bad, every   *)
(* one of the repetitions ran and none of them broke a rule: one bad trial  *)
(* among good ones is enough to refuse it.                                  *)
ValidIsEarned ==
    verdict = "valid" =>
        /\ claim /\ (RequireControls => controls = <<"passed", "failed", "failed">>)
        /\ Len(trials) = Repetitions
        /\ \A i \in DOMAIN trials : trials[i].ran /\ trials[i].clean

(* A failure of the backend decides nothing: the verdict is inconclusive,   *)
(* neither for nor against the submission.                                  *)
FailureIsInconclusive ==
    ("error" \in Range(controls) \/ \E i \in DOMAIN trials : ~trials[i].ran) => verdict = "inconclusive"

(* A candidate that meets every constraint and is not on the frontier is    *)
(* dominated by one that is; so the frontier is empty only when nothing is  *)
(* admissible.                                                              *)
FrontierCovers ==
    frontier # {"none"} =>
        /\ frontier \subseteq Admissible(metrics)
        /\ \A c \in Admissible(metrics) \ frontier :
              \E d \in frontier : Dominates(metrics, d, c)

(* What the verifier and the frontier conclude, with a backend that may     *)
(* raise in any call: valid is earned by all controls and trials, a failure *)
(* decides nothing, and the frontier covers every admissible candidate.     *)
VerdictIsFair ==
    VerdictTypeOK /\ ValidIsEarned /\ FailureIsInconclusive /\ FrontierCovers
=============================================================================
