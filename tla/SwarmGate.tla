------------------------------- MODULE SwarmGate -------------------------------
(***************************************************************************)
(* What a swarm worker's result is worth: how the Pi runtime turns a raw    *)
(* Pi outcome into a structured result (arena/swarm_pi.py), the receipt the *)
(* controller writes for it (arena/swarm.py), and the fail-closed           *)
(* completion gate over results, receipts and the verifier's attestation    *)
(* (arena/swarm_verifier.py).  Hashes are the objects they identify.        *)
(***************************************************************************)
EXTENDS Naturals, Sequences, FiniteSets

CONSTANTS
    Contract,        \* the planned child contracts
    Role,            \* [Contract -> {"scout", "builder", "tester"}]
    Phases,          \* the plan: a sequence of non-empty sets of contracts
    After,           \* [DOMAIN Phases -> SUBSET Nat]: predecessor phases, all earlier
    Commit, Base,    \* commits, and the plan's base_commit
    Criteria,        \* required_criteria
    Trusted,         \* trusted_verifier_ids; a worker is identified by its contract
    None

ASSUME GateAssumption ==
    /\ IsFiniteSet(Contract) /\ Phases \in Seq(SUBSET Contract) /\ Phases # <<>>
    /\ Role \in [Contract -> {"scout", "builder", "tester"}]
    /\ UNION {Phases[p] : p \in DOMAIN Phases} = Contract
    /\ \A p, q \in DOMAIN Phases : p # q => Phases[p] \cap Phases[q] = {}
    /\ \A p \in DOMAIN Phases : After[p] \subseteq 1 .. (p - 1)
    /\ Base \in Commit
    /\ None \notin Commit \cup Contract /\ None \notin BOOLEAN
    /\ None \notin {"actionable", "no_action", "blocked", "needs_input"}
    /\ Criteria # {} /\ Trusted # {}

PhaseOf(c) == CHOOSE p \in DOMAIN Phases : c \in Phases[p]
Preds(p) == UNION {Phases[q] : q \in After[p]}
Pred(c) == Preds(PhaseOf(c))
Terminal == {p \in DOMAIN Phases : \A q \in DOMAIN Phases : p \notin After[q]}

-----------------------------------------------------------------------------
(* From a raw outcome to a result. *)

Disposition == {"completed", "failed", "blocked", "needs_input"}
Assessment == {"actionable", "no_action", "blocked", "needs_input"}

(* A RunOutcome, or an Admission (kind "denied") of the Pi runner. *)
Raw == [kind : {"run", "denied"}, status : {"blocked", "needs_input", "none"},
        ok : BOOLEAN, assess : Assessment \cup {None},
        findings : {"typed", "malformed", "absent"}]

Result == [disp : Disposition, commit : Commit \cup {None},
           assess : Assessment \cup {None}, evidence : BOOLEAN]

(* _disposition(), and FAILED for a worker that was not admitted. *)
RawDisposition(raw) ==
    CASE raw.kind = "denied" -> "failed"
      [] raw.kind = "run" /\ raw.status # "none" -> raw.status
      [] raw.kind = "run" /\ raw.status = "none" ->
            IF raw.ok THEN "completed" ELSE "failed"

(* A scout's malformed findings block it. *)
CheckedDisposition(c, raw) ==
    IF Role[c] = "scout" /\ raw.kind = "run" /\ raw.findings = "malformed"
      THEN "blocked" ELSE RawDisposition(raw)

Normalized == [a \in Assessment |->
    IF a \in {"actionable", "no_action"} THEN "completed" ELSE a]

(* _trusted_scout_assessment(): never infer a positive assessment. *)
TrustedAssessment(raw, disp) ==
    IF raw.kind = "denied" THEN None
    ELSE IF raw.assess = None
      THEN IF disp \in {"blocked", "needs_input"} THEN disp ELSE None
    ELSE IF Normalized[raw.assess] = "completed" /\ disp # "completed" THEN None
    ELSE raw.assess

(* The result a worker is about to construct, before cancellation and       *)
(* commit observation are looked at.                                        *)
Verdict(c, raw) ==
    LET disp == CheckedDisposition(c, raw)
        assess == TrustedAssessment(raw, disp)
    IN  IF Role[c] # "scout"
          THEN [disp |-> disp, commit |-> None, assess |-> None, evidence |-> raw.kind = "run"]
        ELSE IF assess = None
          THEN [disp |-> "blocked", commit |-> None, assess |-> "blocked", evidence |-> raw.kind = "run"]
        ELSE [disp |-> Normalized[assess], commit |-> None, assess |-> assess, evidence |-> TRUE]

(* validate_result(): positive assessments carry typed findings.            *)
Constructible(c, raw, r) ==
    /\ r.disp = "completed" => r.evidence
    /\ Role[c] = "scout" /\ r.assess \in {"actionable", "no_action"} => raw.findings = "typed"

(* A FAILED result in the controller's name (cancelled, late, over budget). *)
Controlled(c, r) ==
    [disp |-> "failed", commit |-> None, evidence |-> r.evidence,
     assess |-> IF Role[c] = "scout" THEN "blocked" ELSE None]

-----------------------------------------------------------------------------
(* Receipts.  receipts is [Contract -> Receipt \cup {None}]. *)

Receipt == [result : Result, input : Commit, output : Commit, preds : SUBSET Contract]

Outputs(receipts, S) == {receipts[d].output : d \in S}

(* PhaseReceipt.from_result() *)
ReceiptOf(receipts, c, r) ==
    LET input == IF Pred(c) = {} THEN Base
                 ELSE CHOOSE k \in Outputs(receipts, Pred(c)) : TRUE
    IN  [result |-> r, input |-> input, preds |-> Pred(c),
         output |-> IF r.commit # None THEN r.commit ELSE input]

(* bind_phase_inputs() and PhaseAuthorization.issue() for a phase. *)
Bindable(receipts, p) ==
    /\ \A d \in Preds(p) :
          /\ receipts[d] # None
          /\ receipts[d].result.disp = "completed"
          /\ Role[d] = "scout" => receipts[d].result.assess = "actionable"
    /\ Preds(p) # {} => Cardinality(Outputs(receipts, Preds(p))) = 1

-----------------------------------------------------------------------------
(* The completion gate. *)

Evidence == [passed : BOOLEAN, source : {"verifier", "worker"},
             test : {"preexisting", "worker_authored"}]

(* A verifier attestation over a lineage (the receipts it was computed      *)
(* from), a final commit and the results.                                   *)
Attestation == [by : Trusted \cup Contract \cup {"stranger"}, signed : BOOLEAN,
                verdict : {"approved", "rejected", "inconclusive"},
                lineage : [Contract -> Receipt \cup {None}], final : Commit \cup {None},
                subjects : [Contract -> Result \cup {None}],
                criteria : [Criteria -> Evidence \cup {None}]]

(* evaluate(): the worker results... *)
WorkerReasons(results) ==
    (IF \E c \in Contract : results[c] = None THEN {"result_set"} ELSE {})
    \cup UNION {LET r == results[c]
                IN  (IF r.disp # "completed" THEN {"not_completed"} ELSE {})
                    \cup (IF ~r.evidence THEN {"evidence"} ELSE {})
                    \cup (IF Role[c] = "scout" /\ r.assess # "actionable"
                            THEN {"not_actionable"} ELSE {})
                : c \in {d \in Contract : results[d] # None}}

(* ... the receipts against them (_check_receipt_binding)... *)
BindingReasons(c, r, receipt) ==
    (IF receipt.result # r THEN {"receipt_mismatch"} ELSE {})
    \cup (IF receipt.output # (IF r.commit # None THEN r.commit ELSE receipt.input)
            THEN {"output_commit"} ELSE {})

(* ... the chain of commits (_check_commit_chain)...                        *)
ChainReasons(receipts, c) ==
    LET receipt == receipts[c]
        commits == Outputs(receipts, {d \in Pred(c) : receipts[d] # None})
    IN  (IF Pred(c) = {} THEN IF receipt.input # Base THEN {"root_commit"} ELSE {}
         ELSE IF Cardinality(commits) # 1 THEN {"commit_conflict"}
         ELSE IF receipt.input \notin commits THEN {"input_commit"} ELSE {})
        \cup (IF Role[c] \in {"scout", "tester"} /\ receipt.output # receipt.input
                THEN {"read_only_changed"} ELSE {})
        \cup (IF Role[c] = "builder" /\ receipt.output = receipt.input
                THEN {"stale_commit"} ELSE {})

LineageReasons(results, receipts) ==
    LET both == {c \in Contract : results[c] # None /\ receipts[c] # None}
        incomplete == {c \in both : \E d \in Pred(c) : receipts[d] = None}
        last == UNION {Phases[p] : p \in Terminal}
        ended == {c \in last : receipts[c] # None}
    IN  (IF \E c \in Contract : receipts[c] = None THEN {"receipt_set"} ELSE {})
        \cup (UNION {BindingReasons(c, results[c], receipts[c]) : c \in both})
        \cup (IF incomplete # {} THEN {"predecessor_missing"} ELSE {})
        \cup (IF \E c \in both \ incomplete : receipts[c].preds # Pred(c)
                THEN {"lineage_mismatch"} ELSE {})
        \cup (UNION {ChainReasons(receipts, c) : c \in both})
        \cup (IF ended # last THEN {"terminal_missing"} ELSE {})
        \cup (IF Cardinality(Outputs(receipts, ended)) # 1 THEN {"terminal_conflict"} ELSE {})

LastOutputs(receipts) ==
    Outputs(receipts, {c \in UNION {Phases[p] : p \in Terminal} : receipts[c] # None})

FinalCommit(receipts) ==
    IF Cardinality(LastOutputs(receipts)) = 1 THEN CHOOSE k \in LastOutputs(receipts) : TRUE ELSE None

(* ... and the attestation. *)
CriterionReasons(a, k) ==
    LET e == a.criteria[k]
    IN  IF e = None THEN {"criterion_missing"}
        ELSE (IF ~e.passed THEN {"criterion_failed"} ELSE {})
             \cup (IF e.source # "verifier" THEN {"not_verifier_observed"} ELSE {})
             \cup (IF e.test = "worker_authored" THEN {"worker_authored"} ELSE {})

(* (Mutant: the attestation of an older lineage counts.) *)
AttestationReasons_AnyLineage(results, receipts, a) ==
    IF a = None THEN {"attestation_missing"}
    ELSE (IF FinalCommit(receipts) = None \/ a.final # FinalCommit(receipts)
                 THEN {"final_commit"} ELSE {})
         \cup (IF a.subjects # results \/ \E c \in Contract : results[c] = None
                 THEN {"subjects"} ELSE {})
         \cup (IF a.by \notin Trusted THEN {"untrusted"} ELSE {})
         \cup (IF a.by \in {c \in Contract : results[c] # None} THEN {"not_independent"} ELSE {})
         \cup (IF ~a.signed THEN {"signature"} ELSE {})
         \cup (IF a.verdict # "approved" THEN {a.verdict} ELSE {})
         \cup UNION {CriterionReasons(a, k) : k \in Criteria}

AttestationReasons(results, receipts, a) ==
    IF a = None THEN {"attestation_missing"}
    ELSE (IF a.lineage # receipts \/ \E c \in Contract : receipts[c] = None
            THEN {"lineage"} ELSE {})
         \cup (IF FinalCommit(receipts) = None \/ a.final # FinalCommit(receipts)
                 THEN {"final_commit"} ELSE {})
         \cup (IF a.subjects # results \/ \E c \in Contract : results[c] = None
                 THEN {"subjects"} ELSE {})
         \cup (IF a.by \notin Trusted THEN {"untrusted"} ELSE {})
         \cup (IF a.by \in {c \in Contract : results[c] # None} THEN {"not_independent"} ELSE {})
         \cup (IF ~a.signed THEN {"signature"} ELSE {})
         \cup (IF a.verdict # "approved" THEN {a.verdict} ELSE {})
         \cup UNION {CriterionReasons(a, k) : k \in Criteria}

(* evaluate().authorized *)
Authorizes(results, receipts, a) ==
    WorkerReasons(results) \cup LineageReasons(results, receipts)
        \cup AttestationReasons(results, receipts, a) = {}
=============================================================================
