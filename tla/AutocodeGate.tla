----------------------------- MODULE AutocodeGate -----------------------------
(***************************************************************************)
(* The decisions between an autocode build and a merge, as operators over   *)
(* what the executor observes: the external CI verdict, the diff coverage,  *)
(* the twin gate, the salvage rule, the verdict over GitHub's checks and    *)
(* the merge method (ci.py, engineering.py, merge_method.py).               *)
(***************************************************************************)
EXTENDS Naturals

CONSTANTS
    FloorNum, FloorDen      \* RepoSpec.min_diff_coverage as a fraction

ASSUME FloorAssumption == FloorNum \in Nat /\ FloorDen \in Nat \ {0}

(***************************************************************************)
(* What a round meets.  "ci" is the repository's CI configuration and "run" *)
(* what became of the CI run or command over the built tree.                *)
(***************************************************************************)
CiKinds == {"none", "github-actions", "local", "other"}
CiRuns == {"success", "failure", "unfinished", "absent"}

\* A coverage measurement: is a command configured, could the old report be
\* removed, did the command exit 0 in time, is there a fresh readable report,
\* how many changed lines it covers and misses, and does the diff change
\* source that is not a test.
Measurements ==
    [cmd: BOOLEAN, removable: BOOLEAN, exited: BOOLEAN, report: BOOLEAN,
     covered: 0..1, missed: 0..1, source: BOOLEAN]

Scores == {"five", "low", "none"}       \* "none": no parseable grade

Worlds == [ci: CiKinds, run: CiRuns, m: Measurements, score: Scores, promise: BOOLEAN]

\* Only a completed successful run is green: an unknown conclusion, a run that
\* never completed and a hung command are red, a run that never appeared is
\* pending.
CiVerdict(w) ==
    CASE w.ci = "none" -> "none"
      [] w.ci = "other" -> "red"
      [] w.ci \notin {"none", "other"} /\ w.run = "success" -> "green"
      [] w.ci = "github-actions" /\ w.run = "absent" -> "pending"
      [] OTHER -> "red"

NoMeasurement(m) ==
    \/ ~m.cmd
    \/ ~m.removable
    \/ ~m.exited
    \/ ~m.report
    \/ m.covered + m.missed = 0 /\ m.source

\* A diff without a measurable source line counts as fully covered.
DiffCoverage(m) ==
    IF NoMeasurement(m) THEN "unknown"
    ELSE IF m.covered + m.missed = 0 \/ m.covered * FloorDen >= FloorNum * (m.covered + m.missed)
         THEN "met" ELSE "low"

TwinGatePassed_NoCoverageArm(w) ==
    w.score = "five" /\ w.promise /\ CiVerdict(w) = "green"

TwinGatePassed(w) ==
    /\ w.score = "five"
    /\ w.promise
    /\ CiVerdict(w) = "green"
    /\ DiffCoverage(w.m) = "met"

\* The grader did not answer but the deterministic signals hold.
Salvage(w) ==
    /\ ~TwinGatePassed(w)
    /\ w.score = "none"
    /\ CiVerdict(w) = "green"
    /\ DiffCoverage(w.m) # "low"

(***************************************************************************)
(* GitHub's checks on a pull request: the buckets of the core quality       *)
(* checks and of the security checks; the poll ends at a deadline.  A       *)
(* skipped or cancelled check neither fails nor is pending.                 *)
(***************************************************************************)
Buckets == {"pass", "fail", "pending", "skipping", "cancel"}

ChecksVerdict(core, sec) ==
    CASE "fail" \in sec -> "blocked"
      [] "fail" \in core /\ "fail" \notin sec -> "red"
      [] core # {} /\ {"fail", "pending"} \cap (core \cup sec) = {} -> "green"
      [] OTHER -> "timeout"

(***************************************************************************)
(* The merge method both the repository and the protected branch allow, in  *)
(* the order squash, rebase, merge; "none" when a policy was not readable.  *)
(***************************************************************************)
Methods == <<"squash", "rebase", "merge">>
MethodNames == {"squash", "rebase", "merge"}

\* rules: the method sets the branch's pull request rules declare.
BranchAllowed(rules) == {x \in MethodNames : \A r \in rules : x \in r}

MergeMethod(repository, rules) ==
    LET both == repository \cap BranchAllowed(rules)
    IN  IF both = {} THEN "none"
        ELSE Methods[CHOOSE i \in 1..3 : Methods[i] \in both /\ \A j \in 1..(i - 1) : Methods[j] \notin both]
=============================================================================
