------------------------------ MODULE AutocodeRun ------------------------------
(***************************************************************************)
(* One node's autopilot: run_once (assess, triage, swarm, report, clean up) *)
(* with one worker thread per card in flight, the engineering and direct    *)
(* executors, the run journal file, the coordination board, the wallet and  *)
(* the pull requests.  The process may die at any step and be started again *)
(* with the same run id (resume) or a new one; a peer node competes for the *)
(* claims.  One invocation runs at a time on a node.  Calls of git, gh, the *)
(* board, the wallet's journal and the decision store may fail: some of the *)
(* failures are swallowed, the others raise.                                *)
(***************************************************************************)
EXTENDS AutocodeGate, FiniteSets, Sequences, Functions

CONSTANTS
    Card,
    DirectCards,        \* cards of kind "engineering-direct" (one ungated round)
    AutoMerge,          \* cards whose repository merges automatically
    WorkerPicks,        \* for each invocation, the worker counts the autoscaler may pick
    MaxRounds,          \* _MAX_ROUNDS
    Ceiling,            \* the run's token ceiling; a round costs one
    RoundWorlds,        \* what a round may meet, a subset of Worlds
    Checks,             \* what gh may show of a request's checks: core and security buckets
    Policies,           \* what may be read of the repository's and the branch's merge methods
    Assessments,        \* the verdicts an assessment may return, as functions of the card
    Placements,         \* the sets of cards the fleet may place on other nodes
    Origin,             \* the repository has a remote that accepts pushes
    Toggles,            \* the operator may use the kill switch
    MaxCrashes,
    MaxFaults,          \* bound: calls that fail in a behaviour
    None

ASSUME RunAssumption ==
    /\ MaxCrashes \in Nat /\ MaxFaults \in Nat
    /\ IsFiniteSet(Card) /\ DirectCards \subseteq Card /\ AutoMerge \subseteq Card
    /\ WorkerPicks \in Seq(SUBSET (Nat \ {0})) /\ MaxRounds \in Nat \ {0} /\ Ceiling \in Nat
    /\ RoundWorlds \subseteq Worlds /\ {Origin, Toggles} \subseteq BOOLEAN
    /\ Assessments \subseteq [Card -> {"valid", "obsolete", "decide"}]
    /\ Placements \subseteq SUBSET Card
    /\ Checks \subseteq [core : SUBSET Buckets, sec : SUBSET Buckets]
    /\ Policies \subseteq [repository : SUBSET MethodNames, rules : SUBSET SUBSET MethodNames]

VARIABLES
    phase,      \* of the invocation: idle, assess, triage, swarm, report, cleanup
    workers,    \* the swarm's worker count in this invocation
    stopped,    \* the kill switch
    scope,      \* the cards this invocation has assessed valid, then selected
    step,       \* [Card -> step of the card's worker]
    build,      \* [Card -> round, empty rounds, a verdict was reached, result, cost, entry; what
                \*  finalize's swallowed failures lost, the checks a merge was decided on]
    mem,        \* the orchestrator's "state" dict
    file,       \* the run journal on disk: [Card -> state, worktree known]
    snap,       \* [Card -> the journal as the worker's RunHandle last read it]
    spent,      \* CapLedger
    pending,    \* decisions this run holds in memory
    asked,      \* decisions this invocation has put in the operator's store
    rows,       \* [Card -> outcome rows of this invocation]
    session,    \* [Card -> session registry state]
    board,      \* [Card -> holder, completed, obsolete, failed, succeeded]
    work,       \* [Card -> built tree on disk, committed on the local branch, that commit is
                \*  on the remote, it touches guardrail files; what the remote branch holds]
    pr,         \* [Card -> pull request: its status and the merged head]
    minted,     \* [Card -> joule settlements the wallet holds]
    settled,    \* the settlement journal
    ghost,      \* observations: gate passed, settlements whose journal row was lost or not
                \*  read, single worker so far, cards this run settled, failed calls
    runs, crashes

invocation == <<phase, workers, scope, runs>>
journal == <<mem, file, snap>>
money == <<spent, minted, settled>>
talk == <<pending, asked>>
world == <<board, work, pr>>
vars == <<phase, workers, stopped, scope, step, build, mem, file, snap, spent, pending, asked,
          rows, session, board, work, pr, minted, settled, ghost, runs, crashes>>

Self == "self"
Peer == "peer"

ItemStates == {"none", "claimed", "finalized", "finalize-failed", "escalated", "claim-raced", "off-node"}
RowStates == (ItemStates \ {"none", "claimed"}) \cup {"kill-switch", "budget-hit"}
Done == {"finalized", "escalated"}
Steps == {"none", "queued", "claim", "recordClaim", "worktree", "setWorktree", "round", "salvage", "verdict",
          "account", "finalize", "success", "clear", "archive", "push", "settle", "recordSettlement",
          "openPr", "merge", "ghMerge", "complete", "escalate", "entry", "row", "ended", "died"}
Busy == Steps \ {"none", "queued", "ended", "died"}
Building == Busy \ {"claim", "row"}
Results == {"none", "pass", "salvage", "ci_red", "no_op", "direct_fail"}

NoItem == [state |-> "none", wt |-> FALSE]
NoJournal == [c \in Card |-> NoItem]
NoChecks == [core |-> {}, sec |-> {}]
NoBuild == [round |-> 0, empty |-> 0, graded |-> FALSE, result |-> "none", cost |-> 0, entry |-> "none",
            lost |-> {}, checks |-> NoChecks]
NoWork == [tree |-> FALSE, commit |-> FALSE, pushed |-> FALSE, guarded |-> FALSE, remote |-> "none"]
NoPr == [status |-> "none", head |-> "none"]

Init ==
    /\ phase = "idle" /\ workers = 1 /\ stopped = FALSE /\ scope = {}
    /\ step = [c \in Card |-> "none"]
    /\ build = [c \in Card |-> NoBuild]
    /\ mem = NoJournal /\ file = NoJournal
    /\ snap = [c \in Card |-> NoJournal]
    /\ spent = 0 /\ pending = {} /\ asked = {}
    /\ rows = [c \in Card |-> <<>>]
    /\ session = [c \in Card |-> "none"]
    /\ board = [c \in Card |-> [holder |-> None, completed |-> FALSE, obsolete |-> FALSE,
                                failed |-> FALSE, succeeded |-> FALSE]]
    /\ work = [c \in Card |-> NoWork]
    /\ pr = [c \in Card |-> NoPr]
    /\ minted = [c \in Card |-> 0] /\ settled = {}
    /\ ghost = [gated |-> {}, cut |-> [c \in Card |-> 0], solo |-> TRUE, done |-> {}, faults |-> 0]
    /\ runs = 0 /\ crashes = 0

----------------------------------------------------------------------------
(* The invocation. *)

\* run_once: read the journal of the run id (a new id has none).  The kill
\* switch writes a checkpoint and returns.
RunOnce(resume) ==
    /\ phase = "idle" /\ runs < Len(WorkerPicks)
    /\ runs' = runs + 1
    /\ mem' = IF resume THEN file ELSE NoJournal
    /\ file' = mem'
    /\ phase' = IF stopped THEN "idle" ELSE "assess"
    /\ ghost' = [ghost EXCEPT !.done = IF resume THEN @ ELSE {}]
    /\ step' = [c \in Card |-> "none"]
    /\ build' = [c \in Card |-> NoBuild]
    /\ rows' = [c \in Card |-> <<>>]
    /\ session' = [c \in Card |-> IF resume THEN session[c] ELSE "none"]
    /\ scope' = {} /\ pending' = {} /\ asked' = {} /\ spent' = 0
    /\ UNCHANGED <<workers, stopped, snap, world, minted, settled, crashes>>

Unsettled_Escalated(c) == mem[c].state # "finalized"

\* A card the journal of this run has not settled.
Unsettled(c) == mem[c].state \notin Done

Open(c) == ~board[c].completed /\ ~board[c].obsolete

\* phase0_assess: release this node's stale claims, then apply the verdict on
\* every open card.  A stale card is rewritten and goes on as a candidate that
\* no executor selects; a decompose verdict of an unscoped run is a decision.
Assess(stale, verdict) ==
    /\ phase = "assess"
    /\ board' = [c \in Card |->
                    [board[c] EXCEPT
                        !.holder = IF @ = Self /\ c \in stale THEN None ELSE @,
                        !.obsolete = @ \/ (Open(c) /\ verdict[c] = "obsolete")]]
    /\ scope' = {c \in Card : Open(c) /\ verdict[c] = "valid"}
    /\ pending' = {<<"decide", c>> : c \in {d \in Card : Open(d) /\ verdict[d] = "decide"}}
    /\ phase' = "triage"
    /\ UNCHANGED <<workers, stopped, runs, step, build, journal, money, asked, rows, session, work,
                   pr, ghost, crashes>>

\* The checkpoints before triage and before the swarm write the state read at
\* the start back.
Checkpoint ==
    /\ phase = "triage" /\ stopped
    /\ file' = mem
    /\ phase' = "idle"
    /\ UNCHANGED <<workers, stopped, scope, runs, step, build, mem, snap, money, talk, rows, session,
                   world, ghost, crashes>>

Local(sel, off) == sel \ off

\* phase1_triage, the resume filter, partition_local and record_off_node_rows.
\* The off-node states reach the journal with the next write.
Triage(off, n) ==
    /\ phase = "triage" /\ ~stopped /\ n \in WorkerPicks[runs]
    /\ LET sel == {c \in scope : Unsettled(c)}
           away == sel \ Local(sel, off)
       IN  /\ scope' = sel
           /\ mem' = [c \in Card |-> IF c \in away THEN [NoItem EXCEPT !.state = "off-node"] ELSE mem[c]]
           /\ rows' = [c \in Card |-> IF c \in away THEN <<"off-node">> ELSE rows[c]]
           /\ step' = [c \in Card |-> IF c \in away THEN "ended"
                                      ELSE IF c \in sel THEN "queued" ELSE step[c]]
    /\ workers' = n
    /\ ghost' = [ghost EXCEPT !.solo = @ /\ n = 1]
    /\ phase' = "swarm"
    /\ UNCHANGED <<stopped, runs, build, file, snap, money, talk, session, world, crashes>>

Settled == \A c \in scope : step[c] \in {"ended", "died"}
Died == \E c \in scope : step[c] = "died"

\* An exception of a worker ends the run before its report, and its decisions
\* are gone with it: at once in the sequential loop, which leaves the cards it
\* has not come to alone, and with more workers when every future is done.
Abort ==
    /\ phase = "swarm" /\ Died
    /\ workers = 1 \/ Settled
    /\ phase' = "idle" /\ pending' = {}
    /\ step' = [c \in Card |-> IF step[c] = "queued" THEN "none" ELSE step[c]]
    /\ UNCHANGED <<workers, stopped, scope, runs, build, journal, money, asked, rows, session,
                   world, ghost, crashes>>

\* phase3_report, then the last write of the journal.
Report ==
    /\ phase = "swarm" /\ Settled /\ ~Died
    /\ asked' = asked \cup pending
    /\ file' = mem
    /\ phase' = "cleanup"
    /\ UNCHANGED <<workers, stopped, scope, runs, step, build, mem, snap, money, pending, rows,
                   session, world, ghost, crashes>>

Reclaimed(w) == [w EXCEPT !.tree = FALSE, !.commit = FALSE, !.guarded = FALSE]

\* cleanup.reclaim: the worktrees and local branches of this run's cards.
Cleanup ==
    /\ phase = "cleanup"
    /\ work' = [c \in Card |->
                    IF c \in scope /\ step[c] = "ended" /\ rows[c] # <<"off-node">>
                    THEN Reclaimed(work[c]) ELSE work[c]]
    /\ phase' = "idle"
    /\ UNCHANGED <<workers, stopped, scope, runs, step, build, journal, money, talk, rows, session,
                   board, pr, ghost, crashes>>

----------------------------------------------------------------------------
(* A card's worker: phase2_swarm's _process around the executor. *)

Go(c, s) == step' = [step EXCEPT ![c] = s]
AddRow(c, s) == rows' = [rows EXCEPT ![c] = Append(@, s)]
RegisterSession(c) == session' = [session EXCEPT ![c] = "running"]
EndSession(c) == session' = [session EXCEPT ![c] = "ended"]
Read(c) == snap' = [snap EXCEPT ![c] = file]
Drop(c) == snap' = [snap EXCEPT ![c] = NoJournal]
\* RunHandle._mutate: the whole file as it was read, with the card's patch.
Mutate(c, item) == /\ file' = [snap[c] EXCEPT ![c] = item]
                   /\ Drop(c)
\* journal.write_run under the swarm's lock: the whole file from memory.
WriteRun(c, s) == /\ mem' = [mem EXCEPT ![c] = [NoItem EXCEPT !.state = s]]
                  /\ file' = mem'

\* A worker is free; the sequential loop goes no further than an exception.
Slot == /\ Cardinality({c \in Card : step[c] \in Busy}) < workers
        /\ workers = 1 => ~Died

\* A call may fail while the bound on failures lasts.
MayFail(ok) == ok \/ ghost.faults < MaxFaults
Noted(ok) == [ghost EXCEPT !.faults = IF ok THEN @ ELSE @ + 1]
Lost(b, ok, what) == [b EXCEPT !.lost = IF ok THEN @ ELSE @ \cup {what}]

Exceeded == spent > Ceiling

StopItem(c) ==
    /\ phase = "swarm" /\ step[c] = "queued" /\ Slot
    /\ \/ stopped /\ AddRow(c, "kill-switch") /\ UNCHANGED pending
       \/ /\ ~stopped /\ Exceeded
          /\ AddRow(c, "budget-hit")
          /\ pending' = pending \cup {<<"budget", None>>}
    /\ Go(c, "ended")
    /\ UNCHANGED <<invocation, stopped, build, journal, money, asked, session, world, ghost, crashes>>

StartItem(c) ==
    /\ phase = "swarm" /\ step[c] = "queued" /\ Slot
    /\ ~stopped /\ ~Exceeded
    /\ RegisterSession(c)
    /\ Go(c, "claim")
    /\ UNCHANGED <<invocation, stopped, build, journal, money, talk, rows, world, ghost, crashes>>

\* Board.claim_task of another package: the same agent may claim again.
MayClaim(c) == board[c].holder \in {None, Self} /\ ~board[c].completed

Claim(c) ==
    /\ step[c] = "claim" /\ MayClaim(c)
    /\ board' = [board EXCEPT ![c].holder = Self]
    /\ Read(c)
    /\ Go(c, "recordClaim")
    /\ UNCHANGED <<invocation, stopped, build, mem, file, money, talk, rows, session, work, pr, ghost,
                   crashes>>

ClaimRaced(c) ==
    /\ step[c] = "claim" /\ ~MayClaim(c)
    /\ WriteRun(c, "claim-raced")
    /\ build' = [build EXCEPT ![c].entry = "claim-raced"]
    /\ Go(c, "row")
    /\ UNCHANGED <<invocation, stopped, snap, money, talk, rows, session, world, ghost, crashes>>

RecordClaim(c) ==
    /\ step[c] = "recordClaim"
    /\ Mutate(c, [snap[c][c] EXCEPT !.state = "claimed"])
    /\ Go(c, "worktree")
    /\ UNCHANGED <<invocation, stopped, build, mem, money, talk, rows, session, world, ghost,
                   crashes>>

\* The card's failure and success memory on the board.
Failed(b) == [b EXCEPT !.failed = TRUE]
Succeeded(b) == [b EXCEPT !.succeeded = TRUE]

\* The usage of one harness run is charged to the build.
Used(b) == [b EXCEPT !.round = @ + 1, !.cost = @ + 1]

\* make_worktree clears what an earlier attempt left and adds a fresh tree; git
\* may refuse, and that exception ends the worker without a record.
MakeWorktree(c) ==
    /\ step[c] = "worktree"
    /\ \/ /\ work' = [work EXCEPT ![c] = [NoWork EXCEPT !.tree = TRUE, !.remote = work[c].remote]]
          /\ Read(c)
          /\ Go(c, "setWorktree")
       \/ /\ work' = [work EXCEPT ![c] = [NoWork EXCEPT !.remote = work[c].remote]]
          /\ Go(c, "died")
          /\ UNCHANGED snap
    /\ UNCHANGED <<invocation, stopped, build, mem, file, money, talk, rows, session, board, pr, ghost,
                   crashes>>

SetWorktree(c) ==
    /\ step[c] = "setWorktree"
    /\ Mutate(c, [snap[c][c] EXCEPT !.wt = TRUE])
    /\ Go(c, "round")
    /\ UNCHANGED <<invocation, stopped, build, mem, money, talk, rows, session, world, ghost,
                   crashes>>

\* A round that leaves no diff; the second in a row ends the build.
EmptyRound(c) ==
    /\ step[c] = "round" /\ c \notin DirectCards /\ build[c].round < MaxRounds
    /\ LET b == [Used(build[c]) EXCEPT !.empty = @ + 1]
           noop == b.empty >= 2
       IN  /\ build' = [build EXCEPT ![c] = [b EXCEPT !.result = IF noop THEN "no_op" ELSE @]]
           /\ board' = [board EXCEPT ![c] = IF noop THEN Failed(@) ELSE @]
           /\ IF noop THEN Go(c, "account") ELSE UNCHANGED step
    /\ UNCHANGED <<invocation, stopped, journal, money, talk, rows, session, work, pr, ghost, crashes>>

\* A graded round: pass and salvage end the build (a salvaged tree is pushed
\* for human review), everything else asks for the next round.
GradedRound(c, w) ==
    /\ step[c] = "round" /\ c \notin DirectCards /\ build[c].round < MaxRounds
    /\ LET result == IF TwinGatePassed(w) THEN "pass" ELSE IF Salvage(w) THEN "salvage" ELSE "none"
       IN  /\ build' = [build EXCEPT ![c] = [Used(@) EXCEPT !.empty = 0, !.graded = TRUE,
                                                            !.result = result]]
           /\ ghost' = [ghost EXCEPT !.gated =
                            IF w.score = "five" /\ w.promise /\ CiVerdict(w) = "green"
                               /\ DiffCoverage(w.m) = "met"
                            THEN @ \cup {c} ELSE @ \ {c}]
           /\ CASE result = "none" -> UNCHANGED <<step, snap>>
                [] result = "salvage" -> Go(c, "salvage") /\ UNCHANGED snap
                [] OTHER -> Go(c, "verdict") /\ Read(c)
    /\ UNCHANGED <<invocation, stopped, mem, file, money, talk, rows, session, world, crashes>>

\* _commit_and_push: commit the tree on the fresh local branch and push it without
\* force; both calls' results are ignored ("sent" is how far they came).  The branch
\* starts at the base branch, so a remote branch that an earlier attempt left does
\* not accept it.
Sends == {"pushed", "committed", "nothing"}
Pushed(c, kind, sent) ==
    LET accepted == Origin /\ work[c].tree /\ work[c].remote = "none" /\ sent = "pushed"
    IN  [work[c] EXCEPT !.commit = work[c].tree /\ sent # "nothing", !.pushed = accepted,
                        !.remote = IF accepted THEN kind ELSE @]

\* gh pr create fails without a remote branch, when the request is open, or by
\* itself; the failure is printed.
Opened(c, remote, created) ==
    IF created /\ pr[c].status # "open" /\ remote # "none"
    THEN [NoPr EXCEPT !.status = "open"] ELSE pr[c]

\* The work goes to a pull request for human review; the run is escalated.
SalvageToReview(c, sent, created) ==
    /\ step[c] = "salvage" /\ MayFail(sent = "pushed" /\ created)
    /\ work' = [work EXCEPT ![c] = Pushed(c, "salvaged", sent)]
    /\ pr' = [pr EXCEPT ![c] = Opened(c, work'[c].remote, created)]
    /\ ghost' = Noted(sent = "pushed" /\ created)
    /\ Go(c, "verdict") /\ Read(c)
    /\ UNCHANGED <<invocation, stopped, build, mem, file, money, talk, rows, session, board, crashes>>

\* The rounds are spent; a run record is written only when a verdict exists.
RoundsSpent(c) ==
    /\ step[c] = "round" /\ c \notin DirectCards /\ build[c].round = MaxRounds
    /\ build' = [build EXCEPT ![c].result = "ci_red"]
    /\ board' = [board EXCEPT ![c] = Failed(@)]
    /\ IF build[c].graded THEN Go(c, "verdict") /\ Read(c) ELSE Go(c, "account") /\ UNCHANGED snap
    /\ UNCHANGED <<invocation, stopped, mem, file, money, talk, rows, session, work, pr, ghost, crashes>>

\* DirectExecutor.run: one harness run, no grade.
DirectRound(c, ok) ==
    /\ step[c] = "round" /\ c \in DirectCards
    /\ build' = [build EXCEPT ![c] = [Used(@) EXCEPT !.result = IF ok THEN "pass" ELSE "direct_fail"]]
    /\ board' = [board EXCEPT ![c] = IF ok THEN @ ELSE Failed(@)]
    /\ Go(c, "account")
    /\ UNCHANGED <<invocation, stopped, journal, money, talk, rows, session, work, pr, ghost, crashes>>

\* add_run_record: read, append, write; the read was the step before.
WriteRunRecord(c) ==
    /\ step[c] = "verdict"
    /\ Mutate(c, snap[c][c])
    /\ Go(c, "account")
    /\ UNCHANGED <<invocation, stopped, build, mem, money, talk, rows, session, world, ghost,
                   crashes>>

\* Any other exception of the executor's run ends the worker without a record.
RunRaises(c) ==
    /\ step[c] \in {"recordClaim", "setWorktree", "round", "salvage", "verdict"} /\ MayFail(FALSE)
    /\ ghost' = Noted(FALSE)
    /\ Drop(c)
    /\ Go(c, "died")
    /\ UNCHANGED <<invocation, stopped, build, mem, file, money, talk, rows, session, world, crashes>>

\* The ledger learns the cost when the build is over.
Account(c) ==
    /\ step[c] = "account"
    /\ spent' = spent + build[c].cost
    /\ Go(c, IF build[c].result = "pass" THEN "finalize" ELSE "escalate")
    /\ UNCHANGED <<invocation, stopped, build, journal, minted, settled, talk, rows, session, world,
                   ghost, crashes>>

Escalate(c) ==
    /\ step[c] = "escalate"
    /\ pending' = pending \cup {<<"escalated", c>>}
    /\ build' = [build EXCEPT ![c].entry = "escalated"]
    /\ Go(c, "entry")
    /\ UNCHANGED <<invocation, stopped, journal, money, asked, rows, session, world, ghost, crashes>>

FinalizeFailed(c) ==
    /\ pending' = pending \cup {<<"finalize-failed", c>>}
    /\ build' = [build EXCEPT ![c].entry = "finalize-failed"]
    /\ Go(c, "entry")

HasTree(c) == file[c].wt /\ (work[c].tree \/ c \in DirectCards)

\* finalize: without the tree there is nothing to commit.
Finalize(c) ==
    /\ step[c] = "finalize" /\ HasTree(c)
    /\ Go(c, IF c \in DirectCards THEN "push" ELSE "success")
    /\ UNCHANGED <<invocation, stopped, build, journal, money, talk, rows, session, world, ghost,
                   crashes>>

FinalizeMissing(c) ==
    /\ step[c] = "finalize" /\ ~HasTree(c)
    /\ FinalizeFailed(c)
    /\ UNCHANGED <<invocation, stopped, journal, money, asked, rows, session, world, ghost, crashes>>

\* A call of finalize raises between two of its steps: git or gh is not there, the
\* board or the decision store cannot be written.  What was done so far stays.
FinalizeRaises(c) ==
    /\ step[c] \in {"push", "settle", "openPr", "merge", "ghMerge", "complete"} /\ MayFail(FALSE)
    /\ pending' = pending \cup {<<"finalize-failed", c>>}
    /\ build' = [build EXCEPT ![c] = [Lost(@, step[c] # "push", "push") EXCEPT !.entry = "finalize-failed"]]
    /\ ghost' = Noted(FALSE)
    /\ Go(c, "entry")
    /\ UNCHANGED <<invocation, stopped, journal, money, asked, rows, session, world, crashes>>

\* _record_success swallows a failed write; it comes before the failure memory is
\* cleared, and in the direct executor after the settlement.
RecordSuccess(c, ok) ==
    /\ step[c] = "success" /\ MayFail(ok)
    /\ board' = [board EXCEPT ![c] = IF ok THEN Succeeded(@) ELSE @]
    /\ build' = [build EXCEPT ![c] = Lost(@, ok, "success")]
    /\ ghost' = Noted(ok)
    /\ Go(c, IF c \in DirectCards THEN "openPr" ELSE "clear")
    /\ UNCHANGED <<invocation, stopped, journal, money, talk, rows, session, work, pr, crashes>>

\* _archive_attempts: the board forgets the failures, then the journal keeps them;
\* a failure of either is swallowed.
ClearAttempts(c, ok) ==
    /\ step[c] = "clear" /\ MayFail(ok)
    /\ IF board[c].failed /\ ok
       THEN board' = [board EXCEPT ![c].failed = FALSE] /\ Read(c) /\ Go(c, "archive")
       ELSE Go(c, "push") /\ UNCHANGED <<board, snap>>
    /\ ghost' = Noted(ok)
    /\ UNCHANGED <<invocation, stopped, build, mem, file, money, talk, rows, session, work, pr, crashes>>

ArchiveAttempts(c, ok) ==
    /\ step[c] = "archive" /\ MayFail(ok)
    /\ IF ok THEN Mutate(c, snap[c][c]) ELSE Drop(c) /\ UNCHANGED file
    /\ ghost' = Noted(ok)
    /\ Go(c, "push")
    /\ UNCHANGED <<invocation, stopped, build, mem, money, talk, rows, session, world, crashes>>

CommitAndPush_NoPush(c, sent, guarded) ==
    /\ step[c] = "push"
    /\ work' = [work EXCEPT ![c].commit = work[c].tree]
    /\ Go(c, "settle")
    /\ UNCHANGED <<invocation, stopped, build, journal, money, talk, rows, session, board, pr, ghost,
                   crashes>>

\* guarded: the built tree touches files of the operator's guardrails (asked for
\* gated work only).
CommitAndPush(c, sent, guarded) ==
    /\ step[c] = "push" /\ MayFail(sent = "pushed") /\ (guarded => c \notin DirectCards)
    /\ work' = [work EXCEPT ![c] = [Pushed(c, IF c \in DirectCards THEN "direct" ELSE "passed", sent)
                                        EXCEPT !.guarded = guarded]]
    /\ build' = [build EXCEPT ![c] = Lost(@, sent = "pushed", "push")]
    /\ ghost' = Noted(sent = "pushed")
    /\ Go(c, "settle")
    /\ UNCHANGED <<invocation, stopped, journal, money, talk, rows, session, board, pr, crashes>>

AfterSettlement(c) == IF c \in DirectCards THEN "success" ELSE "openPr"

\* _settle_economics: one settlement per card, the wallet first, then the journal
\* that guards it.  A journal that cannot be read shows no settlement (sees), and
\* a settlement that the wallet did not record is not journalled either.
Settle(c, sees, recorded) ==
    LET mints == ~sees /\ recorded
    IN  /\ step[c] = "settle"
        /\ sees => c \in settled
        /\ MayFail((c \in settled => sees) /\ recorded)
        /\ minted' = [minted EXCEPT ![c] = IF mints THEN @ + 1 ELSE @]
        /\ ghost' = [Noted((c \in settled => sees) /\ recorded) EXCEPT
                        !.cut[c] = IF mints /\ c \in settled THEN @ + 1 ELSE @]
        /\ Go(c, IF mints THEN "recordSettlement" ELSE AfterSettlement(c))
        /\ UNCHANGED <<invocation, stopped, build, journal, spent, settled, talk, rows, session, world,
                       crashes>>

\* record_settlement swallows a failed write.
RecordSettlement(c, ok) ==
    /\ step[c] = "recordSettlement" /\ MayFail(ok)
    /\ settled' = IF ok THEN settled \cup {c} ELSE settled
    /\ ghost' = [Noted(ok) EXCEPT !.cut[c] = IF ok THEN @ ELSE @ + 1]
    /\ Go(c, AfterSettlement(c))
    /\ UNCHANGED <<invocation, stopped, build, journal, spent, minted, talk, rows, session, world, crashes>>

OpenPr(c, ok) ==
    /\ step[c] = "openPr" /\ MayFail(ok)
    /\ pr' = [pr EXCEPT ![c] = Opened(c, work[c].remote, ok)]
    /\ ghost' = Noted(ok)
    /\ Go(c, "merge")
    /\ UNCHANGED <<invocation, stopped, build, journal, money, talk, rows, session, board, work, crashes>>

\* The carve-out looks at the files the local branch changes (_changed_paths); a git
\* that fails (~read) names none.
CarveOut(c, read) == read /\ work[c].commit /\ work[c].guarded

\* k: the request's checks when the poll ended.
Mergeable(c, read, k) ==
    /\ c \in AutoMerge /\ c \notin DirectCards
    /\ ~CarveOut(c, read)
    /\ pr[c].status # "none"
    /\ ChecksVerdict(k.core, k.sec) = "green"

Finalized(c) ==
    /\ build' = [build EXCEPT ![c] = [@ EXCEPT !.entry = "finalized", !.checks = NoChecks]]
    /\ Go(c, "entry")

\* The decision every path but a completed merge leaves with the operator.
HoldForReview(c, read, k) ==
    /\ step[c] = "merge" /\ MayFail(read) /\ ~Mergeable(c, read, k)
    /\ asked' = asked \cup {<<"merge", c>>}
    /\ Finalized(c)
    /\ ghost' = Noted(read)
    /\ UNCHANGED <<invocation, stopped, journal, money, pending, rows, session, world, crashes>>

\* The worktree is pruned before the merge.
PruneForMerge(c, read, k) ==
    /\ step[c] = "merge" /\ MayFail(read) /\ Mergeable(c, read, k)
    /\ work' = [work EXCEPT ![c].tree = FALSE]
    /\ build' = [build EXCEPT ![c] = [Lost(@, read, "diff") EXCEPT !.checks = k]]
    /\ ghost' = Noted(read)
    /\ Go(c, "ghMerge")
    /\ UNCHANGED <<invocation, stopped, journal, money, talk, rows, session, board, pr, crashes>>

\* gh merges the request's head with a method that both policies q allow and deletes
\* the branch; it may refuse, and it may report failure for a merge that took place.
GhMerge(c, q, landed, reported) ==
    LET allowed == MergeMethod(q.repository, q.rules) # "none"
    IN  /\ step[c] = "ghMerge"
        /\ landed => allowed
        /\ reported => landed
        /\ MayFail(allowed => reported)
        /\ ghost' = Noted(allowed => reported)
        /\ pr' = [pr EXCEPT ![c] = IF landed /\ @.status = "open"
                                   THEN [status |-> "merged", head |-> work[c].remote] ELSE @]
        /\ work' = [work EXCEPT ![c].remote = IF landed THEN "none" ELSE @]
        /\ IF reported
           THEN Go(c, "complete") /\ UNCHANGED <<asked, build>>
           ELSE asked' = asked \cup {<<"merge", c>>} /\ Finalized(c)
        /\ UNCHANGED <<invocation, stopped, journal, money, pending, rows, session, board, crashes>>

\* The merge is recorded on the board and the card is completed.
Complete(c) ==
    /\ step[c] = "complete"
    /\ board' = [board EXCEPT ![c].completed = TRUE]
    /\ Finalized(c)
    /\ UNCHANGED <<invocation, stopped, journal, money, talk, rows, session, work, pr, ghost, crashes>>

WriteEntry(c) ==
    /\ step[c] = "entry"
    /\ WriteRun(c, build[c].entry)
    /\ ghost' = [ghost EXCEPT !.done = IF build[c].entry \in Done THEN @ \cup {c} ELSE @]
    /\ Go(c, "row")
    /\ UNCHANGED <<invocation, stopped, build, snap, money, talk, rows, session, world, crashes>>

OutcomeRow(c) ==
    /\ step[c] = "row"
    /\ AddRow(c, build[c].entry)
    /\ EndSession(c)
    /\ Go(c, "ended")
    /\ UNCHANGED <<invocation, stopped, build, journal, money, talk, world, ghost, crashes>>

----------------------------------------------------------------------------
(* The environment: the peer node, the operator's switch, the process.      *)

\* The peer's claim matters to this node until it claims the card itself; later
\* changes commute with its steps.
PeerStep(c) ==
    /\ phase = "swarm" /\ step[c] \in {"queued", "claim"}
    /\ board[c].holder \in {None, Peer}
    /\ ~board[c].completed
    /\ board' = [board EXCEPT ![c].holder = IF @ = None THEN Peer ELSE None]
    /\ UNCHANGED <<invocation, stopped, step, build, journal, money, talk, rows, session, work, pr,
                   ghost, crashes>>

KillSwitch ==
    /\ Toggles /\ phase \in {"triage", "swarm"} /\ ~stopped
    /\ phase = "triage" \/ \E c \in Card : step[c] = "queued"
    /\ stopped' = TRUE
    /\ UNCHANGED <<invocation, step, build, journal, money, talk, rows, session, world, ghost, crashes>>

Crash ==
    /\ phase # "idle" /\ crashes < MaxCrashes /\ runs < Len(WorkerPicks)
    /\ crashes' = crashes + 1
    /\ phase' = "idle"
    /\ pending' = {} /\ mem' = NoJournal /\ scope' = {}
    /\ ghost' = [ghost EXCEPT !.cut = [c \in Card |-> IF step[c] = "recordSettlement" THEN @[c] + 1
                                                      ELSE @[c]]]
    /\ step' = [c \in Card |-> "none"]
    /\ build' = [c \in Card |-> NoBuild]
    /\ UNCHANGED <<workers, runs, stopped, file, snap, money, asked, rows, session, world>>

Worker(c) ==
    \/ StopItem(c) \/ StartItem(c) \/ Claim(c) \/ ClaimRaced(c) \/ RecordClaim(c)
    \/ MakeWorktree(c) \/ SetWorktree(c) \/ EmptyRound(c) \/ RoundsSpent(c) \/ RunRaises(c)
    \/ \E w \in RoundWorlds : GradedRound(c, w)
    \/ \E sent \in Sends, created \in BOOLEAN : SalvageToReview(c, sent, created)
    \/ \E ok \in BOOLEAN : DirectRound(c, ok)
    \/ WriteRunRecord(c) \/ Account(c) \/ Escalate(c)
    \/ Finalize(c) \/ FinalizeMissing(c) \/ FinalizeRaises(c)
    \/ \E ok \in BOOLEAN : \/ RecordSuccess(c, ok) \/ ClearAttempts(c, ok) \/ ArchiveAttempts(c, ok)
                          \/ RecordSettlement(c, ok) \/ OpenPr(c, ok)
    \/ \E sent \in Sends, guarded \in BOOLEAN : CommitAndPush(c, sent, guarded)
    \/ \E sees, recorded \in BOOLEAN : Settle(c, sees, recorded)
    \/ \E read \in BOOLEAN, k \in Checks : HoldForReview(c, read, k) \/ PruneForMerge(c, read, k)
    \/ \E q \in Policies, landed, reported \in BOOLEAN : GhMerge(c, q, landed, reported)
    \/ Complete(c) \/ WriteEntry(c) \/ OutcomeRow(c)

Invocation ==
    \/ \E stale \in {{}, Card}, v \in Assessments : Assess(stale, v)
    \/ Checkpoint
    \/ \E off \in Placements, n \in UNION Range(WorkerPicks) : Triage(off, n)
    \/ Abort \/ Report \/ Cleanup

Next ==
    \/ \E resume \in BOOLEAN : RunOnce(resume)
    \/ Invocation
    \/ \E c \in Card : Worker(c) \/ PeerStep(c)
    \/ KillSwitch \/ Crash

Spec == Init /\ [][Next]_vars

----------------------------------------------------------------------------
(* Properties. *)

TypeOK ==
    /\ phase \in {"idle", "assess", "triage", "swarm", "cleanup"}
    /\ workers \in Nat \ {0} /\ stopped \in BOOLEAN /\ scope \subseteq Card
    /\ step \in [Card -> Steps]
    /\ \A c \in Card :
        /\ build[c].round \in 0..MaxRounds /\ build[c].cost \in 0..MaxRounds
        /\ build[c].result \in Results /\ build[c].entry \in ItemStates
        /\ mem[c].state \in ItemStates /\ file[c].state \in ItemStates
        /\ rows[c] \in Seq(RowStates)
        /\ board[c].holder \in {None, Self, Peer}
        /\ pr[c].status \in {"none", "open", "merged"}
        /\ minted[c] \in Nat
    /\ settled \subseteq Card /\ spent \in Nat

\* engineering.py claim / types.ClaimRaced: no card is built by this node while
\* another runtime holds it, from the claim to the outcome row, whatever is
\* released and reclaimed in between.
BuildsUnderClaim ==
    \A c \in Card : step[c] \in Building => board[c].holder = Self

\* engineering.py finalize: what was merged without a human was decided
\* after the twin gate certified the last graded round and comes from a repository
\* that merges automatically; at least one core check was seen, none of the checks
\* had failed or was pending when the poll ended, and the local branch touched no
\* guardrail file that git could name.
MergedOnlyThroughGates ==
    [][\A c \in Card : pr[c].status # "merged" /\ pr'[c].status = "merged" =>
        /\ c \in ghost.gated /\ c \in AutoMerge \ DirectCards
        /\ build[c].checks.core # {}
        /\ {"fail", "pending"} \cap (build[c].checks.core \cup build[c].checks.sec) = {}
        /\ work[c].commit /\ work[c].guarded => "diff" \in build[c].lost]_vars

\* engineering.py _settle_economics: however often a card is built, finalized and
\* resumed, the wallet is credited once, and once more for every settlement whose
\* journal row was lost (to a crash or a failed write) or could not be read.
MintedOnce ==
    \A c \in Card : minted[c] <= 1 + ghost.cut[c]

\* orchestrator.py record_outcome_row: when the swarm of an invocation is over
\* every card it selected has exactly one row of this invocation, a row that
\* reports a build agrees with the state kept for resume, and no session of a
\* recorded card is left running.
OneRowPerItem ==
    phase = "cleanup" =>
        \A c \in scope :
            /\ Len(rows[c]) = 1
            /\ rows[c][1] \in ItemStates => mem[c].state = rows[c][1] /\ file[c].state = rows[c][1]
            /\ rows[c][1] \in Done \cup {"finalize-failed", "claim-raced"} => session[c] = "ended"

\* orchestrator.py CapLedger: the ceiling is checked before a build and charged
\* after it, so that it is exceeded by at most what the workers in flight cost.
OvershootBounded == spent <= Ceiling + workers * MaxRounds

\* orchestrator.py phase3_report: an invocation that reports has told the
\* operator of every card it escalated, could not finalize or finalized without
\* completing the card.
ReportedToOperator ==
    phase = "cleanup" =>
        \A c \in scope :
            /\ rows[c] \in {<<"escalated">>, <<"finalize-failed">>} => <<rows[c][1], c>> \in asked
            /\ rows[c] = <<"finalized">> => board[c].completed \/ <<"merge", c>> \in asked

\* engineering.py finalize: a card forgets why it failed only after a build that
\* passed and whose tree is still there to be committed, and not before that success
\* was written to its memory, unless the board refused the write.
FailureMemoryKept ==
    [][\A c \in Card : board[c].failed /\ ~board'[c].failed
            => /\ build[c].result = "pass" /\ work[c].tree
               /\ board[c].succeeded \/ "success" \in build[c].lost]_vars

\* orchestrator.py run_once: the same, as long as the run has had one worker at a
\* time.
ResumeSkipsSettled ==
    [][\A c \in Card : step[c] = "claim" /\ step'[c] = "recordClaim" /\ ghost.solo
            => c \notin ghost.done]_vars

\* Work that passed is still somewhere: the tree or a commit on this host, or a
\* branch of the card on the remote, or merged.
Kept(c) == work[c].tree \/ work[c].commit \/ work[c].pushed \/ work[c].remote # "none" \/ pr[c].status = "merged"

\* engineering.py _commit_and_push, cleanup.py reclaim: with one worker and a
\* remote, a tree that passed is deleted only after it was pushed, when the remote
\* branch of an earlier attempt refused it, or when git failed to commit or to push it.
PassedWorkKept ==
    ghost.solo /\ Origin =>
        \A c \in Card :
            build[c].result = "pass" /\ step[c] \in {"entry", "row", "ended"}
                => Kept(c) \/ "push" \in build[c].lost

\* engineering.py make_worktree: "a pushed origin branch is left for finalize's
\* push to reconcile": the head a merge takes is the tree that passed the gate,
\* never what _salvage_to_review pushed without a grade.
MergesCertifiedHead ==
    \A c \in Card : pr[c].status = "merged" => pr[c].head = "passed"

\* An autopilot run with crashes, a competing node and an operator who stops it:
\* cards are built under their claim only, paid once, recorded once and reported;
\* the ceiling bounds the spending, and passed work stays.
AutopilotIsSound ==
    /\ TypeOK /\ BuildsUnderClaim /\ MintedOnce /\ OneRowPerItem /\ OvershootBounded
    /\ ReportedToOperator /\ PassedWorkKept

\* What a card's past attempts are remembered for is never dropped: why it failed
\* (engineering.py finalize), and that it is settled (orchestrator.py run_once).
NothingForgotten == FailureMemoryKept /\ ResumeSkipsSettled
=============================================================================
