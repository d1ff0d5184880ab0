------------------------------ MODULE ChangeDeploy ------------------------------
(***************************************************************************)
(* deploy_dispatch() (autocode/change_deploy_bridge.py): one scheduled      *)
(* change and its pull request, dispatched several times.  The change       *)
(* record (skcoord), capauth, the arm files and GitHub are external: they   *)
(* change between any two steps of a dispatch.  The claim lease lets one    *)
(* dispatch run at a time, until its process dies.                          *)
(***************************************************************************)
EXTENDS Naturals, FiniteSets

CONSTANTS
    Deploy,          \* dispatches of the change
    Runner,          \* [Deploy -> Person]: who the dispatch's runner is
    Person,
    MaxHead,         \* bound on the pull request's heads
    MaxTurns,        \* bound on revocations, withdrawn arms and reschedules
    MaxFaults,       \* bound on deaths and lost events
    Nothing

ASSUME DeployAssumption ==
    /\ Runner \in [Deploy -> Person]
    /\ MaxHead \in Nat \ {0}
    /\ Nothing \notin Nat

VARIABLES
    change,          \* [status, by, validated, mode, open]: the folded record
    pr,              \* [head, merged]: merged is a head or Nothing
    arms,            \* who armed the change
    trusted,         \* who capauth allows change.deploy
    deploy,          \* [Deploy -> [step, by, head, armed]]: what a dispatch has seen
    moved,           \* dispatches after whose freshness check the head moved
    turns, faults

deployVars == <<change, pr, arms, trusted, deploy, moved, turns, faults>>

At(d, step) == deploy[d].step = step

Running(d) == deploy[d].step \notin {"idle", "refused", "done", "dead"}

StepTo(d, step) == deploy' = [deploy EXCEPT ![d].step = step]

Status(s) == change' = [change EXCEPT !.status = s]

-----------------------------------------------------------------------------
(* deploy_dispatch() *)

(* Only a scheduled change is deployed. *)
Due(status) == status = "scheduled"

(* Steps 1 and 2: the folded record, the window, the runner. *)
Admitted(d) ==
    /\ Due(change.status) /\ change.open /\ change.validated # Nothing
    /\ Runner[d] \in trusted /\ Runner[d] # change.by
    /\ change.mode = "confirm"

Begin(d) ==
    /\ At(d, "idle") /\ \A e \in Deploy : ~Running(e)
    /\ deploy' = [deploy EXCEPT ![d] = [@ EXCEPT !.step = IF Admitted(d) THEN "arm" ELSE "refused",
                                                 !.by = change.by, !.head = change.validated]]
    /\ UNCHANGED <<change, pr, arms, trusted, moved, turns, faults>>

(* _check_arm(): an arm counts that capauth allows and the drafter did not  *)
(* write.                                                                   *)
Arming(d) == (arms \cap trusted) \ {deploy[d].by}

CheckArm(d) ==
    /\ At(d, "arm")
    /\ deploy' = [deploy EXCEPT ![d] = [@ EXCEPT !.step = IF Arming(d) # {} THEN "fresh" ELSE "refused",
                                                 !.armed = Arming(d)]]
    /\ UNCHANGED <<change, pr, arms, trusted, moved, turns, faults>>

(* Step 4.  (Mutant: any head will do.) *)
Fresh_Any(d) == pr.head # Nothing

Fresh(d) == pr.head = deploy[d].head

(* gh pr view answers, or it does not. *)
CheckFresh(d, answers) ==
    /\ At(d, "fresh")
    /\ StepTo(d, IF answers /\ Fresh(d) THEN "mark" ELSE "refused")
    /\ UNCHANGED <<change, pr, arms, trusted, moved, turns, faults>>

MarkImplementing(d, written) ==
    /\ At(d, "mark")
    /\ IF written THEN Status("implementing") /\ StepTo(d, "ready")
       ELSE StepTo(d, "refused") /\ UNCHANGED change
    /\ UNCHANGED <<pr, arms, trusted, moved, turns, faults>>

(* _fail(): the terminal event; an event that cannot be appended is lost.   *)
Fail(d, written) ==
    /\ StepTo(d, "done")
    /\ IF written THEN Status("failed") /\ UNCHANGED faults
       ELSE faults < MaxFaults /\ faults' = faults + 1 /\ UNCHANGED change

(* gh pr ready, gh pr merge and the deploy command each have a timeout.     *)
Ready(d, works, written) ==
    /\ At(d, "ready")
    /\ IF works THEN StepTo(d, "merge") /\ UNCHANGED <<change, faults>> ELSE Fail(d, written)
    /\ UNCHANGED <<pr, arms, trusted, moved, turns>>

(* gh pr merge --squash merges the head the pull request has by now; a      *)
(* merged one is not merged again.  A call that timed out or reported an    *)
(* error may have merged all the same.                                      *)
MergedNow == pr.merged = Nothing /\ pr' = [pr EXCEPT !.merged = pr.head]

Merge(d, works, written) ==
    /\ At(d, "merge")
    /\ IF works /\ pr.merged = Nothing
         THEN MergedNow /\ StepTo(d, "command") /\ UNCHANGED <<change, faults>>
         ELSE Fail(d, written) /\ (MergedNow \/ UNCHANGED pr)
    /\ UNCHANGED <<arms, trusted, moved, turns>>

Command(d, works, written) ==
    /\ At(d, "command")
    /\ IF works THEN StepTo(d, "tell") /\ UNCHANGED <<change, faults>> ELSE Fail(d, written)
    /\ UNCHANGED <<pr, arms, trusted, moved, turns>>

(* An event that cannot be appended here ends in _fail() too. *)
MarkDeployed(d, works, written) ==
    /\ At(d, "tell")
    /\ IF works THEN Status("deployed") /\ StepTo(d, "done") /\ UNCHANGED faults ELSE Fail(d, written)
    /\ UNCHANGED <<pr, arms, trusted, moved, turns>>

DeployNext(d) ==
    \/ Begin(d) \/ CheckArm(d)
    \/ \E works \in BOOLEAN : CheckFresh(d, works) \/ MarkImplementing(d, works)
    \/ \E works, written \in BOOLEAN :
         Ready(d, works, written) \/ Merge(d, works, written)
         \/ Command(d, works, written) \/ MarkDeployed(d, works, written)

Dies(d) ==
    /\ Running(d) /\ faults < MaxFaults /\ faults' = faults + 1 /\ StepTo(d, "dead")
    /\ UNCHANGED <<change, pr, arms, trusted, moved, turns>>

-----------------------------------------------------------------------------
(* What others do meanwhile. *)

Others(a) == UNCHANGED <<deploy, faults>> /\ a

(* The drafter pushes, or another one takes the change over. *)
Push(p) ==
    /\ pr.merged = Nothing /\ pr.head < MaxHead
    /\ pr' = [pr EXCEPT !.head = @ + 1]
    /\ change' = IF p = change.by THEN change
                 ELSE [change EXCEPT !.by = p, !.validated = Nothing]
    /\ moved' = moved \cup {d \in Deploy : deploy[d].step \in {"mark", "ready", "merge"}}
    /\ UNCHANGED <<arms, trusted, turns>>

Validate ==
    /\ change.validated # pr.head /\ change' = [change EXCEPT !.validated = pr.head]
    /\ UNCHANGED <<pr, arms, trusted, moved, turns>>

Arm(p) ==
    /\ p \notin arms /\ arms' = arms \cup {p}
    /\ UNCHANGED <<change, pr, trusted, moved, turns>>

(* An arm is withdrawn, a capability revoked, a failed change rescheduled   *)
(* or the window over.                                                      *)
Turn ==
    /\ turns < MaxTurns /\ turns' = turns + 1
    /\ \/ \E p \in Person : arms' = arms \ {p} /\ UNCHANGED <<change, trusted>>
       \/ \E p \in Person : trusted' = trusted \ {p} /\ UNCHANGED <<change, arms>>
       \/ /\ \/ change.status = "failed" /\ Status("scheduled")
             \/ change' = [change EXCEPT !.open = FALSE]
          /\ UNCHANGED <<arms, trusted>>
    /\ UNCHANGED <<pr, moved>>

-----------------------------------------------------------------------------
DeployInit ==
    /\ \E p \in Person, mode \in {"confirm", "auto"} :
         change = [status |-> "scheduled", by |-> p, validated |-> Nothing, mode |-> mode, open |-> TRUE]
    /\ pr = [head |-> 1, merged |-> Nothing]
    /\ arms = {} /\ trusted = Person /\ moved = {} /\ turns = 0 /\ faults = 0
    /\ deploy = [d \in Deploy |-> [step |-> "idle", by |-> Nothing, head |-> Nothing, armed |-> {}]]

ChangeNext ==
    \/ \E d \in Deploy : DeployNext(d) \/ Dies(d)
    \/ Others(Validate \/ Turn \/ \E p \in Person : Push(p) \/ Arm(p))

DeploySpec == DeployInit /\ [][ChangeNext]_deployVars

-----------------------------------------------------------------------------
(* Properties. *)

Merging(d) == pr.merged = Nothing /\ pr'.merged # Nothing /\ At(d, "merge")

(* A stale verdict does not deploy: what a dispatch merges is the head the  *)
(* validation passed, whoever pushed, took over or revalidated since the    *)
(* record was folded, unless the head moved after the last look at it.      *)
MergesWhatWasValidated ==
    [][\A d \in Deploy \ moved : Merging(d) => pr.head = deploy[d].head]_deployVars

(* No self-approval: nobody's own draft is merged by them or on their arm   *)
(* alone.  A takeover needs a push, so the drafter of the merged head is    *)
(* the one the dispatch saw.                                                *)
FourEyes ==
    [][\A d \in Deploy \ moved : Merging(d) =>
         /\ Runner[d] # change.by
         /\ deploy[d].armed \ {change.by} # {}]_deployVars

(* "never a change left mid-flight without a terminal event": once no       *)
(* dispatch runs, the record is terminal or untouched, and a merge is told, *)
(* unless a dispatch died or its event was lost.                            *)
OutcomeIsTold ==
    (\A d \in Deploy : ~Running(d)) /\ faults = 0 =>
        /\ change.status # "implementing"
        /\ pr.merged # Nothing => \E d \in Deploy : At(d, "done")
        /\ change.status = "deployed" => pr.merged # Nothing

(* A deployed change stays deployed: no later dispatch of it, and none that *)
(* was late, turns the record.                                              *)
DeployedStays ==
    [][change.status = "deployed" => change'.status = "deployed"]_deployVars

(* A record that says implementing comes to say how that ended, unless a    *)
(* dispatch died or its event was lost: then it stays there, and later      *)
(* dispatches refuse it.                                                    *)
DeploysEnd == change.status = "implementing" ~> change.status # "implementing" \/ faults > 0

(* A dispatched change, whoever pushes, takes over, withdraws or dies       *)
(* between its steps: what is merged was validated and seen by a second     *)
(* person, the outcome is told, and a deployed change stays deployed.       *)
DeployIsChecked ==
    /\ MergesWhatWasValidated /\ FourEyes /\ DeployedStays
    /\ [][OutcomeIsTold']_deployVars
=============================================================================
