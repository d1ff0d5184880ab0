--------------------------- MODULE AutocodeRun_proofs ---------------------------
(***************************************************************************)
(* What an autopilot node keeps to, for every number of cards, workers,     *)
(* rounds, invocations, crashes and failing calls, every outcome of a round *)
(* and everything gh may show of a request.                                 *)
(***************************************************************************)
EXTENDS AutocodeRun, AutocodeEpics, FiniteSetTheorems, TLAPS

-----------------------------------------------------------------------------
(* The inductive invariant, in parts. *)

Item == [state : ItemStates, wt : BOOLEAN]
Journal == [Card -> Item]
BuildRec == [round : 0..MaxRounds, empty : Nat, graded : BOOLEAN, result : Results, cost : 0..MaxRounds,
             entry : ItemStates, lost : SUBSET {"push", "success", "diff"},
             checks : [core : SUBSET Buckets, sec : SUBSET Buckets]]
BoardRec == [holder : {None, Self, Peer}, completed : BOOLEAN, obsolete : BOOLEAN, failed : BOOLEAN,
             succeeded : BOOLEAN]
Heads == {"none", "salvaged", "passed", "direct"}
WorkRec == [tree : BOOLEAN, commit : BOOLEAN, pushed : BOOLEAN, guarded : BOOLEAN, remote : Heads]
PrRec == [status : {"none", "open", "merged"}, head : Heads]
GhostRec == [gated : SUBSET Card, cut : [Card -> Nat], solo : BOOLEAN, done : SUBSET Card, faults : Nat]

InvocationTypes ==
    /\ phase \in {"idle", "assess", "triage", "swarm", "cleanup"}
    /\ workers \in Nat \ {0} /\ stopped \in BOOLEAN /\ scope \subseteq Card
    /\ step \in [Card -> Steps]
    /\ runs \in Nat /\ crashes \in 0..MaxCrashes /\ ghost \in GhostRec
    /\ spent \in Nat /\ settled \subseteq Card /\ minted \in [Card -> Nat]

JournalTypes == mem \in Journal /\ file \in Journal /\ snap \in [Card -> Journal]

RecordTypes ==
    /\ build \in [Card -> BuildRec]
    /\ JournalTypes
    /\ rows \in [Card -> Seq(RowStates)]
    /\ DOMAIN session = Card

WorldTypes == board \in [Card -> BoardRec] /\ work \in [Card -> WorkRec] /\ pr \in [Card -> PrRec]

\* The steps of a worker before it has built anything, while its tree stands, when
\* it goes on with a build that passed, and when it holds a copy of the journal.
Early == {"none", "queued", "claim", "recordClaim", "worktree", "setWorktree"}
WithTree == {"setWorktree", "round", "salvage", "verdict", "account", "finalize", "success", "clear", "archive",
             "push", "settle", "recordSettlement", "openPr", "merge"}
Passing == {"finalize", "success", "clear", "archive", "push", "settle", "recordSettlement", "openPr", "merge",
            "ghMerge", "complete"}
Sent == {"settle", "recordSettlement", "openPr", "merge", "ghMerge", "complete"}
Recorded == {"entry", "row", "ended"}
Reading == {"recordClaim", "setWorktree", "verdict", "archive"}
Unpaid == {"claim", "recordClaim", "worktree", "setWorktree", "round", "salvage", "verdict", "account"}
Outcomes == {"finalized", "finalize-failed", "escalated", "claim-raced"}

\* Workers exist in the swarm phase only, and for selected cards.
PhaseOK(c) ==
    /\ phase # "swarm" => step[c] \in {"none", "ended", "died"}
    /\ phase \in {"assess", "triage"} => step[c] = "none" /\ rows[c] = <<>>
    /\ phase \in {"swarm", "cleanup"} /\ c \in scope => step[c] # "none"
    /\ step[c] # "none" => c \in scope
    /\ phase = "cleanup" /\ c \in scope => step[c] = "ended"

\* What a build has come to at each step; only the gate lets one pass.
BuildOK(c) ==
    /\ build[c].cost = build[c].round
    /\ step[c] \in Early => build[c] = NoBuild
    /\ step[c] = "round" => build[c].result = "none" /\ (c \in DirectCards => build[c] = NoBuild)
    /\ step[c] \in Passing => build[c].result = "pass"
    /\ step[c] = "escalate" => build[c].result # "pass"
    /\ build[c].result = "pass" /\ c \notin DirectCards => c \in ghost.gated
    /\ step[c] \in {"entry", "row"} => build[c].entry \in Outcomes

\* The claim is held and the tree stands as long as they are needed.
HeldOK(c) ==
    /\ step[c] \in Building => board[c].holder = Self
    /\ step[c] \in WithTree => work[c].tree

\* A passed tree was pushed, or the remote branch refused it, or git failed.
Safe(c) == work[c].pushed \/ work[c].remote # "none" \/ pr[c].status = "merged" \/ "push" \in build[c].lost

KeptOK(c) ==
    Origin /\ build[c].result = "pass" =>
        /\ step[c] \in Sent => Safe(c)
        /\ step[c] = "success" /\ c \in DirectCards => Safe(c)
        /\ step[c] \in Recorded /\ ghost.solo => Safe(c)

\* A second credit needs a settlement whose journal row was lost or not read.
MintOK(c) ==
    minted[c] + (IF step[c] = "recordSettlement" \/ c \in settled THEN 0 ELSE 1) <= 1 + ghost.cut[c]

\* What the merge and the clearing of the failure memory were decided on.
GateOK(c) ==
    /\ step[c] = "clear" => board[c].succeeded \/ "success" \in build[c].lost
    /\ step[c] = "ghMerge" =>
        /\ c \in AutoMerge /\ c \notin DirectCards
        /\ pr[c].status # "none"
        /\ ChecksVerdict(build[c].checks.core, build[c].checks.sec) = "green"
        /\ work[c].commit /\ work[c].guarded => "diff" \in build[c].lost

\* The operator will be told of the outcome, or was.
Told(c) ==
    /\ build[c].entry \in {"escalated", "finalize-failed"} => <<build[c].entry, c>> \in pending
    /\ build[c].entry = "finalized" => board[c].completed \/ <<"merge", c>> \in asked

\* The one row of a card, and what agrees with it.
RowOK(c) ==
    phase \in {"swarm", "cleanup"} /\ c \in scope =>
        /\ step[c] # "ended" => rows[c] = <<>>
        /\ step[c] \in {"entry", "row"} => Told(c)
        /\ step[c] = "row" => mem[c].state = build[c].entry
        /\ step[c] = "ended" =>
            \/ rows[c] = <<"off-node">> /\ mem[c].state = "off-node"
            \/ rows[c] \in {<<"kill-switch">>, <<"budget-hit">>}
            \/ /\ build[c].entry \in Outcomes /\ rows[c] = <<build[c].entry>>
               /\ mem[c].state = build[c].entry /\ session[c] = "ended" /\ Told(c)

CardOK(c) == PhaseOK(c) /\ BuildOK(c) /\ HeldOK(c) /\ KeptOK(c) /\ MintOK(c) /\ GateOK(c) /\ RowOK(c)

\* What has not been charged yet still fits.
At(S) == {c \in Card : step[c] \in S}

SpendOK ==
    /\ phase \in {"assess", "triage"} => spent = 0
    /\ Cardinality(At(Busy)) <= workers
    /\ spent + MaxRounds * Cardinality(At(Unpaid)) <= Ceiling + workers * MaxRounds

\* The report told the operator everything and wrote the journal.
ReportOK == phase = "cleanup" => file = mem /\ pending \subseteq asked

\* One worker works on one card at a time, and on none after an exception.
AloneOK ==
    workers = 1 =>
        /\ \A c, d \in Card : step[c] \in Busy /\ step[d] \in Busy => c = d
        /\ phase = "swarm" /\ Died => \A c \in Card : step[c] \notin Busy

\* With one worker at a time the journal file is never overwritten with an old
\* copy, so that it knows the tree of a build and the settled cards.
SoloOK ==
    ghost.solo =>
        /\ workers = 1
        /\ \A c \in Card :
            /\ step[c] \in Reading => snap[c] = file
            /\ step[c] \in {"round", "salvage", "verdict", "account", "finalize"} => file[c].wt
            /\ c \in ghost.done => /\ file[c].state \in Done
                                   /\ step[c] \in {"none", "row", "ended"}
                                   /\ phase # "idle" => mem[c].state \in Done

AutopilotInv ==
    /\ InvocationTypes /\ RecordTypes /\ WorldTypes
    /\ \A c \in Card : CardOK(c)
    /\ SpendOK /\ ReportOK /\ AloneOK /\ SoloOK

\* What a step of the worker of c leaves alone.
OthersKept(c) ==
    /\ UNCHANGED <<phase, workers, scope, runs, stopped, crashes>>
    /\ ghost'.solo = ghost.solo
    /\ pending \subseteq pending' /\ asked \subseteq asked'
    /\ \A d \in Card \ {c} :
        /\ step'[d] = step[d] /\ build'[d] = build[d] /\ rows'[d] = rows[d] /\ session'[d] = session[d]
        /\ board'[d] = board[d] /\ work'[d] = work[d] /\ pr'[d] = pr[d] /\ minted'[d] = minted[d]
        /\ mem'[d] = mem[d] /\ snap'[d] = snap[d]
        /\ d \in settled' <=> d \in settled
        /\ ghost'.cut[d] = ghost.cut[d]
        /\ d \in ghost'.gated <=> d \in ghost.gated
        /\ d \in ghost'.done <=> d \in ghost.done

LEMMA WorkerFrame ==
  ASSUME InvocationTypes, RecordTypes, WorldTypes, NEW c \in Card, Worker(c)
  PROVE  OthersKept(c)
<1> USE DEF OthersKept, InvocationTypes, RecordTypes, WorldTypes, JournalTypes, Journal, GhostRec
<1>1. CASE StopItem(c)
  BY <1>1 DEF StopItem, Go, AddRow, invocation, journal, money, talk, world
<1>2. CASE StartItem(c)
  BY <1>2 DEF StartItem, Go, RegisterSession, invocation, journal, money, talk, world
<1>3. CASE Claim(c)
  BY <1>3 DEF Claim, Go, Read, invocation, journal, money, talk, world
<1>4. CASE ClaimRaced(c)
  BY <1>4 DEF ClaimRaced, Go, WriteRun, NoItem, invocation, journal, money, talk, world
<1>5. CASE RecordClaim(c)
  BY <1>5 DEF RecordClaim, Go, Mutate, Drop, NoJournal, NoItem, invocation, journal, money, talk, world
<1>6. CASE MakeWorktree(c)
  BY <1>6 DEF MakeWorktree, Go, Read, invocation, journal, money, talk, world
<1>7. CASE SetWorktree(c)
  BY <1>7 DEF SetWorktree, Go, Mutate, Drop, NoJournal, NoItem, invocation, journal, money, talk, world
<1>8. CASE EmptyRound(c)
  BY <1>8 DEF EmptyRound, Go, Used, Failed, invocation, journal, money, talk, world
<1>9. CASE RoundsSpent(c)
  BY <1>9 DEF RoundsSpent, Go, Read, Failed, invocation, journal, money, talk, world
<1>10. CASE RunRaises(c)
  BY <1>10 DEF RunRaises, Go, Drop, NoJournal, NoItem, Noted, invocation, journal, money, talk, world
<1>11. ASSUME NEW w \in RoundWorlds, GradedRound(c, w) PROVE OthersKept(c)
  BY <1>11 DEF GradedRound, Go, Read, Used, invocation, journal, money, talk, world
<1>12. ASSUME NEW sent \in Sends, NEW created \in BOOLEAN, SalvageToReview(c, sent, created) PROVE OthersKept(c)
  BY <1>12 DEF SalvageToReview, Go, Read, Pushed, Opened, NoPr, Noted, invocation, journal, money, talk, world
<1>13. ASSUME NEW ok \in BOOLEAN, DirectRound(c, ok) PROVE OthersKept(c)
  BY <1>13 DEF DirectRound, Go, Used, Failed, invocation, journal, money, talk, world
<1>14. CASE WriteRunRecord(c)
  BY <1>14 DEF WriteRunRecord, Go, Mutate, Drop, NoJournal, NoItem, invocation, journal, money, talk, world
<1>15. CASE Account(c)
  BY <1>15 DEF Account, Go, invocation, journal, money, talk, world
<1>16. CASE Escalate(c)
  BY <1>16 DEF Escalate, Go, invocation, journal, money, talk, world
<1>17. CASE Finalize(c)
  BY <1>17 DEF Finalize, Go, invocation, journal, money, talk, world
<1>18. CASE FinalizeMissing(c)
  BY <1>18 DEF FinalizeMissing, Go, FinalizeFailed, invocation, journal, money, talk, world
<1>19. CASE FinalizeRaises(c)
  BY <1>19 DEF FinalizeRaises, Go, Lost, Noted, invocation, journal, money, talk, world
<1>20. ASSUME NEW ok \in BOOLEAN, RecordSuccess(c, ok) PROVE OthersKept(c)
  BY <1>20 DEF RecordSuccess, Go, Succeeded, Lost, Noted, invocation, journal, money, talk, world
<1>21. ASSUME NEW ok \in BOOLEAN, ClearAttempts(c, ok) PROVE OthersKept(c)
  BY <1>21 DEF ClearAttempts, Go, Read, Noted, invocation, journal, money, talk, world
<1>22. ASSUME NEW ok \in BOOLEAN, ArchiveAttempts(c, ok) PROVE OthersKept(c)
  BY <1>22 DEF ArchiveAttempts, Go, Mutate, Drop, NoJournal, NoItem, Noted, invocation, journal, money, talk, world
<1>23. ASSUME NEW sent \in Sends, NEW guarded \in BOOLEAN, CommitAndPush(c, sent, guarded) PROVE OthersKept(c)
  BY <1>23 DEF CommitAndPush, Go, Pushed, Lost, Noted, invocation, journal, money, talk, world
<1>24. ASSUME NEW sees \in BOOLEAN, NEW recorded \in BOOLEAN, Settle(c, sees, recorded) PROVE OthersKept(c)
  BY <1>24 DEF Settle, AfterSettlement, Go, Noted, invocation, journal, money, talk, world
<1>25. ASSUME NEW ok \in BOOLEAN, RecordSettlement(c, ok) PROVE OthersKept(c)
  BY <1>25 DEF RecordSettlement, AfterSettlement, Go, Noted, invocation, journal, money, talk, world
<1>26. ASSUME NEW ok \in BOOLEAN, OpenPr(c, ok) PROVE OthersKept(c)
  BY <1>26 DEF OpenPr, Go, Opened, NoPr, Noted, invocation, journal, money, talk, world
<1>27. ASSUME NEW read \in BOOLEAN, NEW k \in Checks, HoldForReview(c, read, k) PROVE OthersKept(c)
  BY <1>27 DEF HoldForReview, Go, Finalized, NoChecks, Noted, invocation, journal, money, talk, world
<1>28. ASSUME NEW read \in BOOLEAN, NEW k \in Checks, PruneForMerge(c, read, k) PROVE OthersKept(c)
  BY <1>28 DEF PruneForMerge, Go, Lost, Noted, invocation, journal, money, talk, world
<1>29. ASSUME NEW q \in Policies, NEW landed \in BOOLEAN, NEW reported \in BOOLEAN, GhMerge(c, q, landed, reported) PROVE OthersKept(c)
  BY <1>29 DEF GhMerge, Go, Finalized, NoChecks, Noted, invocation, journal, money, talk, world
<1>30. CASE Complete(c)
  BY <1>30 DEF Complete, Go, Finalized, NoChecks, invocation, journal, money, talk, world
<1>31. CASE WriteEntry(c)
  BY <1>31 DEF WriteEntry, Go, WriteRun, NoItem, invocation, journal, money, talk, world
<1>32. CASE OutcomeRow(c)
  BY <1>32 DEF OutcomeRow, Go, AddRow, EndSession, invocation, journal, money, talk, world
<1> QED BY <1>1, <1>2, <1>3, <1>4, <1>5, <1>6, <1>7, <1>8, <1>9, <1>10, <1>11, <1>12, <1>13, <1>14, <1>15, <1>16, <1>17, <1>18, <1>19, <1>20, <1>21, <1>22, <1>23, <1>24, <1>25, <1>26, <1>27, <1>28, <1>29, <1>30, <1>31, <1>32 DEF Worker

\* Changing a record keeps its type.
LEMMA BuildUpdates ==
  ASSUME NEW b \in BuildRec
  PROVE  /\ \A e \in ItemStates : [b EXCEPT !.entry = e] \in BuildRec
         /\ \A r \in Results : [b EXCEPT !.result = r] \in BuildRec
         /\ \A n \in Nat : [b EXCEPT !.empty = n] \in BuildRec
         /\ \A g \in BOOLEAN : [b EXCEPT !.graded = g] \in BuildRec
         /\ \A x \in SUBSET {"push", "success", "diff"} : [b EXCEPT !.lost = x] \in BuildRec
         /\ \A k \in [core : SUBSET Buckets, sec : SUBSET Buckets] : [b EXCEPT !.checks = k] \in BuildRec
         /\ \A e \in ItemStates, k \in [core : SUBSET Buckets, sec : SUBSET Buckets] :
                [b EXCEPT !.entry = e, !.checks = k] \in BuildRec
         /\ b.round < MaxRounds /\ b.cost = b.round => Used(b) \in BuildRec
<1> USE DEF BuildRec
<1>1. \A e \in ItemStates : [b EXCEPT !.entry = e] \in BuildRec
  OBVIOUS
<1>2. \A r \in Results : [b EXCEPT !.result = r] \in BuildRec
  OBVIOUS
<1>3. \A n \in Nat : [b EXCEPT !.empty = n] \in BuildRec
  OBVIOUS
<1>4. \A g \in BOOLEAN : [b EXCEPT !.graded = g] \in BuildRec
  OBVIOUS
<1>5. ASSUME b.round < MaxRounds, b.cost = b.round PROVE Used(b) \in BuildRec
  <2>1. b.round + 1 \in 0..MaxRounds
    BY <1>5, RunAssumption
  <2>2. \A n \in 0..MaxRounds : [b EXCEPT !.round = n, !.cost = n] \in BuildRec
    OBVIOUS
  <2> QED BY <1>5, <2>1, <2>2 DEF Used
<1>6. \A x \in SUBSET {"push", "success", "diff"} : [b EXCEPT !.lost = x] \in BuildRec
  OBVIOUS
<1>7. \A k \in [core : SUBSET Buckets, sec : SUBSET Buckets] : [b EXCEPT !.checks = k] \in BuildRec
  OBVIOUS
<1>8. \A e \in ItemStates, k \in [core : SUBSET Buckets, sec : SUBSET Buckets] :
        [b EXCEPT !.entry = e, !.checks = k] \in BuildRec
  OBVIOUS
<1> QED BY <1>1, <1>2, <1>3, <1>4, <1>5, <1>6, <1>7, <1>8

LEMMA LostType ==
  ASSUME NEW b \in BuildRec, NEW ok \in BOOLEAN, NEW what \in {"push", "success", "diff"}
  PROVE  Lost(b, ok, what) \in BuildRec
<1>1. b.lost \in SUBSET {"push", "success", "diff"} /\ b.lost \cup {what} \in SUBSET {"push", "success", "diff"}
  BY DEF BuildRec
<1>2. \A x \in SUBSET {"push", "success", "diff"} : [b EXCEPT !.lost = x] \in BuildRec
  BY BuildUpdates
<1> QED BY <1>1, <1>2 DEF Lost

LEMMA WorkUpdates ==
  ASSUME NEW w \in WorkRec
  PROVE  /\ \A t \in BOOLEAN : [w EXCEPT !.tree = t] \in WorkRec
         /\ \A x \in Heads : [w EXCEPT !.remote = x] \in WorkRec
         /\ \A g \in BOOLEAN : [w EXCEPT !.guarded = g] \in WorkRec
         /\ \A m, p \in BOOLEAN, x \in Heads : [w EXCEPT !.commit = m, !.pushed = p, !.remote = x] \in WorkRec
         /\ Reclaimed(w) \in WorkRec
BY DEF WorkRec, Reclaimed

LEMMA PushedType ==
  ASSUME NEW c \in Card, work[c] \in WorkRec, NEW k \in {"salvaged", "passed", "direct"}, NEW sent \in Sends
  PROVE  Pushed(c, k, sent) \in WorkRec
<1> DEFINE accepted == Origin /\ work[c].tree /\ work[c].remote = "none" /\ sent = "pushed"
           made == work[c].tree /\ sent # "nothing"
           x == IF accepted THEN k ELSE work[c].remote
<1>1. accepted \in BOOLEAN /\ made \in BOOLEAN
  BY RunAssumption DEF WorkRec
<1>2. x \in Heads
  BY DEF WorkRec, Heads
<1>3. Pushed(c, k, sent) = [work[c] EXCEPT !.commit = made, !.pushed = accepted, !.remote = x]
  BY DEF Pushed
<1> HIDE DEF accepted, made, x
<1>4. [work[c] EXCEPT !.commit = made, !.pushed = accepted, !.remote = x] \in WorkRec
  BY <1>1, <1>2, WorkUpdates
<1> QED BY <1>3, <1>4

LEMMA MutateTypes ==
  ASSUME NEW c \in Card, JournalTypes, NEW item \in Item, Mutate(c, item), UNCHANGED mem
  PROVE  JournalTypes'
<1>1. snap[c] \in Journal
  BY DEF JournalTypes
<1>2. [snap[c] EXCEPT ![c] = item] \in Journal
  BY <1>1 DEF Journal
<1>3. NoJournal \in Journal
  BY DEF NoJournal, Journal, Item, NoItem, ItemStates
<1> QED BY <1>2, <1>3 DEF JournalTypes, Mutate, Drop

LEMMA WriteRunTypes ==
  ASSUME NEW c \in Card, JournalTypes, NEW s \in ItemStates, WriteRun(c, s), UNCHANGED snap
  PROVE  JournalTypes'
<1>1. [NoItem EXCEPT !.state = s] \in Item
  BY DEF NoItem, Item
<1> QED BY <1>1 DEF JournalTypes, WriteRun, Journal

LEMMA SnapItem ==
  ASSUME NEW c \in Card, JournalTypes
  PROVE  /\ snap[c][c] \in Item
         /\ [snap[c][c] EXCEPT !.state = "claimed"] \in Item
         /\ [snap[c][c] EXCEPT !.wt = TRUE] \in Item
<1>1. snap[c][c] \in Item
  BY DEF JournalTypes, Journal
<1> QED BY <1>1 DEF Item, ItemStates

LEMMA NotedType ==
  ASSUME ghost \in GhostRec, NEW ok \in BOOLEAN
  PROVE  Noted(ok) \in GhostRec
<1>1. (IF ok THEN ghost.faults ELSE ghost.faults + 1) \in Nat
  BY DEF GhostRec
<1>2. \A n \in Nat : [ghost EXCEPT !.faults = n] \in GhostRec
  BY DEF GhostRec
<1> QED BY <1>1, <1>2 DEF Noted

\* Counting a settlement whose journal row was lost.
LEMMA CutType ==
  ASSUME NEW g \in GhostRec, NEW c \in Card
  PROVE  /\ \A n \in Nat : [g EXCEPT !.cut[c] = n] \in GhostRec
         /\ g.cut[c] \in Nat /\ g.cut[c] + 1 \in Nat
BY DEF GhostRec

LEMMA WorkerInvocationTypes ==
  ASSUME NEW c \in Card, InvocationTypes, build \in [Card -> BuildRec], Worker(c)
  PROVE  InvocationTypes'
<1> USE DEF InvocationTypes, BuildRec, Steps
<1>1. CASE StopItem(c)
  BY <1>1 DEF StopItem, Go, AddRow, invocation, journal, money, talk, world
<1>2. CASE StartItem(c)
  BY <1>2 DEF StartItem, Go, RegisterSession, invocation, journal, money, talk, world
<1>3. CASE Claim(c)
  BY <1>3 DEF Claim, Go, Read, invocation, journal, money, talk, world
<1>4. CASE ClaimRaced(c)
  BY <1>4 DEF ClaimRaced, Go, WriteRun, NoItem, invocation, journal, money, talk, world
<1>5. CASE RecordClaim(c)
  BY <1>5 DEF RecordClaim, Go, Mutate, Drop, NoJournal, NoItem, invocation, journal, money, talk, world
<1>6. CASE MakeWorktree(c)
  BY <1>6 DEF MakeWorktree, Go, Read, invocation, journal, money, talk, world
<1>7. CASE SetWorktree(c)
  BY <1>7 DEF SetWorktree, Go, Mutate, Drop, NoJournal, NoItem, invocation, journal, money, talk, world
<1>8. CASE EmptyRound(c)
  BY <1>8 DEF EmptyRound, Go, Used, Failed, invocation, journal, money, talk, world
<1>9. CASE RoundsSpent(c)
  BY <1>9 DEF RoundsSpent, Go, Read, Failed, invocation, journal, money, talk, world
<1>10. CASE RunRaises(c)
  <2>1. ghost' = Noted(FALSE)
    BY <1>10 DEF RunRaises
  <2>2. (FALSE) \in BOOLEAN
    OBVIOUS
  <2>3. ghost' \in GhostRec
    BY <2>1, <2>2, NotedType
  <2> QED BY <1>10, <2>3 DEF RunRaises, Go, invocation, journal, money, talk, world
<1>11. ASSUME NEW w \in RoundWorlds, GradedRound(c, w) PROVE InvocationTypes'
  BY <1>11 DEF GhostRec, GradedRound, Go, Read, Used, invocation, journal, money, talk, world
<1>12. ASSUME NEW sent \in Sends, NEW created \in BOOLEAN, SalvageToReview(c, sent, created) PROVE InvocationTypes'
  <2>1. ghost' = Noted(sent = "pushed" /\ created)
    BY <1>12 DEF SalvageToReview
  <2>2. (sent = "pushed" /\ created) \in BOOLEAN
    OBVIOUS
  <2>3. ghost' \in GhostRec
    BY <2>1, <2>2, NotedType
  <2> QED BY <1>12, <2>3 DEF SalvageToReview, Go, Read, invocation, journal, money, talk, world
<1>13. ASSUME NEW ok \in BOOLEAN, DirectRound(c, ok) PROVE InvocationTypes'
  BY <1>13 DEF DirectRound, Go, Used, Failed, invocation, journal, money, talk, world
<1>14. CASE WriteRunRecord(c)
  BY <1>14 DEF WriteRunRecord, Go, Mutate, Drop, NoJournal, NoItem, invocation, journal, money, talk, world
<1>15. CASE Account(c)
  BY <1>15 DEF Account, Go, invocation, journal, money, talk, world
<1>16. CASE Escalate(c)
  BY <1>16 DEF Escalate, Go, invocation, journal, money, talk, world
<1>17. CASE Finalize(c)
  BY <1>17 DEF Finalize, Go, invocation, journal, money, talk, world
<1>18. CASE FinalizeMissing(c)
  BY <1>18 DEF FinalizeMissing, Go, FinalizeFailed, invocation, journal, money, talk, world
<1>19. CASE FinalizeRaises(c)
  <2>1. ghost' = Noted(FALSE)
    BY <1>19 DEF FinalizeRaises
  <2>2. (FALSE) \in BOOLEAN
    OBVIOUS
  <2>3. ghost' \in GhostRec
    BY <2>1, <2>2, NotedType
  <2> QED BY <1>19, <2>3 DEF FinalizeRaises, Go, invocation, journal, money, talk, world
<1>20. ASSUME NEW ok \in BOOLEAN, RecordSuccess(c, ok) PROVE InvocationTypes'
  <2>1. ghost' = Noted(ok)
    BY <1>20 DEF RecordSuccess
  <2>2. (ok) \in BOOLEAN
    OBVIOUS
  <2>3. ghost' \in GhostRec
    BY <2>1, <2>2, NotedType
  <2> QED BY <1>20, <2>3 DEF RecordSuccess, Go, invocation, journal, money, talk, world
<1>21. ASSUME NEW ok \in BOOLEAN, ClearAttempts(c, ok) PROVE InvocationTypes'
  <2>1. ghost' = Noted(ok)
    BY <1>21 DEF ClearAttempts
  <2>2. (ok) \in BOOLEAN
    OBVIOUS
  <2>3. ghost' \in GhostRec
    BY <2>1, <2>2, NotedType
  <2> QED BY <1>21, <2>3 DEF ClearAttempts, Go, invocation, journal, money, talk, world
<1>22. ASSUME NEW ok \in BOOLEAN, ArchiveAttempts(c, ok) PROVE InvocationTypes'
  <2>1. ghost' = Noted(ok)
    BY <1>22 DEF ArchiveAttempts
  <2>2. (ok) \in BOOLEAN
    OBVIOUS
  <2>3. ghost' \in GhostRec
    BY <2>1, <2>2, NotedType
  <2> QED BY <1>22, <2>3 DEF ArchiveAttempts, Go, invocation, journal, money, talk, world
<1>23. ASSUME NEW sent \in Sends, NEW guarded \in BOOLEAN, CommitAndPush(c, sent, guarded) PROVE InvocationTypes'
  <2>1. ghost' = Noted(sent = "pushed")
    BY <1>23 DEF CommitAndPush
  <2>2. (sent = "pushed") \in BOOLEAN
    OBVIOUS
  <2>3. ghost' \in GhostRec
    BY <2>1, <2>2, NotedType
  <2> QED BY <1>23, <2>3 DEF CommitAndPush, Go, invocation, journal, money, talk, world
<1>24. ASSUME NEW sees \in BOOLEAN, NEW recorded \in BOOLEAN, Settle(c, sees, recorded) PROVE InvocationTypes'
  <2> DEFINE ok == (c \in settled => sees) /\ recorded
             n == IF ~sees /\ recorded /\ c \in settled THEN Noted(ok).cut[c] + 1 ELSE Noted(ok).cut[c]
  <2>1. ghost' = [Noted(ok) EXCEPT !.cut[c] = n]
    BY <1>24 DEF Settle
  <2>2. ok \in BOOLEAN
    OBVIOUS
  <2> HIDE DEF ok
  <2>3. Noted(ok) \in GhostRec
    BY <2>2, NotedType
  <2>4. n \in Nat
    BY <2>3, CutType
  <2> HIDE DEF n
  <2>5. ghost' \in GhostRec
    BY <2>1, <2>3, <2>4, CutType
  <2>6. minted' \in [Card -> Nat] /\ step' \in [Card -> Steps]
    BY <1>24 DEF Settle, AfterSettlement, Go
  <2>7. UNCHANGED <<invocation, stopped, spent, settled, crashes>>
    BY <1>24 DEF Settle
  <2> QED BY <2>5, <2>6, <2>7 DEF invocation
<1>25. ASSUME NEW ok \in BOOLEAN, RecordSettlement(c, ok) PROVE InvocationTypes'
  <2> DEFINE n == IF ok THEN Noted(ok).cut[c] ELSE Noted(ok).cut[c] + 1
  <2>1. ghost' = [Noted(ok) EXCEPT !.cut[c] = n]
    BY <1>25 DEF RecordSettlement
  <2>2. Noted(ok) \in GhostRec
    BY NotedType
  <2>3. n \in Nat
    BY <2>2, CutType
  <2> HIDE DEF n
  <2>4. ghost' \in GhostRec
    BY <2>1, <2>2, <2>3, CutType
  <2>5. settled' \subseteq Card /\ step' \in [Card -> Steps]
    BY <1>25 DEF RecordSettlement, AfterSettlement, Go
  <2>6. UNCHANGED <<invocation, stopped, spent, minted, crashes>>
    BY <1>25 DEF RecordSettlement
  <2> QED BY <2>4, <2>5, <2>6 DEF invocation
<1>26. ASSUME NEW ok \in BOOLEAN, OpenPr(c, ok) PROVE InvocationTypes'
  <2>1. ghost' = Noted(ok)
    BY <1>26 DEF OpenPr
  <2>2. (ok) \in BOOLEAN
    OBVIOUS
  <2>3. ghost' \in GhostRec
    BY <2>1, <2>2, NotedType
  <2> QED BY <1>26, <2>3 DEF OpenPr, Go, invocation, journal, money, talk, world
<1>27. ASSUME NEW read \in BOOLEAN, NEW k \in Checks, HoldForReview(c, read, k) PROVE InvocationTypes'
  <2>1. ghost' = Noted(read)
    BY <1>27 DEF HoldForReview
  <2>2. (read) \in BOOLEAN
    OBVIOUS
  <2>3. ghost' \in GhostRec
    BY <2>1, <2>2, NotedType
  <2> QED BY <1>27, <2>3 DEF HoldForReview, Go, Finalized, invocation, journal, money, talk, world
<1>28. ASSUME NEW read \in BOOLEAN, NEW k \in Checks, PruneForMerge(c, read, k) PROVE InvocationTypes'
  <2>1. ghost' = Noted(read)
    BY <1>28 DEF PruneForMerge
  <2>2. (read) \in BOOLEAN
    OBVIOUS
  <2>3. ghost' \in GhostRec
    BY <2>1, <2>2, NotedType
  <2> QED BY <1>28, <2>3 DEF PruneForMerge, Go, invocation, journal, money, talk, world
<1>29. ASSUME NEW q \in Policies, NEW landed \in BOOLEAN, NEW reported \in BOOLEAN, GhMerge(c, q, landed, reported) PROVE InvocationTypes'
  <2> DEFINE ok == MergeMethod(q.repository, q.rules) # "none" => reported
  <2>1. ghost' = Noted(ok)
    BY <1>29 DEF GhMerge
  <2>2. ok \in BOOLEAN
    OBVIOUS
  <2> HIDE DEF ok
  <2>3. ghost' \in GhostRec
    BY <2>1, <2>2, NotedType
  <2>4. step' \in [Card -> Steps] /\ UNCHANGED <<invocation, stopped, money, crashes>>
    BY <1>29 DEF GhMerge, Go, Finalized
  <2> QED BY <2>3, <2>4 DEF invocation, money
<1>30. CASE Complete(c)
  BY <1>30 DEF Complete, Go, Finalized, NoChecks, invocation, journal, money, talk, world
<1>31. CASE WriteEntry(c)
  BY <1>31 DEF GhostRec, WriteEntry, Go, WriteRun, NoItem, invocation, journal, money, talk, world
<1>32. CASE OutcomeRow(c)
  BY <1>32 DEF OutcomeRow, Go, AddRow, EndSession, invocation, journal, money, talk, world
<1> QED BY <1>1, <1>2, <1>3, <1>4, <1>5, <1>6, <1>7, <1>8, <1>9, <1>10, <1>11, <1>12, <1>13, <1>14, <1>15, <1>16, <1>17, <1>18, <1>19, <1>20, <1>21, <1>22, <1>23, <1>24, <1>25, <1>26, <1>27, <1>28, <1>29, <1>30, <1>31, <1>32 DEF Worker

LEMMA WorkerBoardType ==
  ASSUME NEW c \in Card, board \in [Card -> BoardRec], Worker(c)
  PROVE  (board \in [Card -> BoardRec])'
<1> USE DEF BoardRec, Self
<1>1. CASE StopItem(c)
  BY <1>1 DEF StopItem, Go, AddRow, invocation, journal, money, talk, world
<1>2. CASE StartItem(c)
  BY <1>2 DEF StartItem, Go, RegisterSession, invocation, journal, money, talk, world
<1>3. CASE Claim(c)
  BY <1>3 DEF Claim, Go, Read, invocation, journal, money, talk, world
<1>4. CASE ClaimRaced(c)
  BY <1>4 DEF ClaimRaced, Go, WriteRun, NoItem, invocation, journal, money, talk, world
<1>5. CASE RecordClaim(c)
  BY <1>5 DEF RecordClaim, Go, Mutate, Drop, NoJournal, NoItem, invocation, journal, money, talk, world
<1>6. CASE MakeWorktree(c)
  BY <1>6 DEF MakeWorktree, Go, Read, invocation, journal, money, talk, world
<1>7. CASE SetWorktree(c)
  BY <1>7 DEF SetWorktree, Go, Mutate, Drop, NoJournal, NoItem, invocation, journal, money, talk, world
<1>8. CASE EmptyRound(c)
  BY <1>8 DEF EmptyRound, Go, Used, Failed, invocation, journal, money, talk, world
<1>9. CASE RoundsSpent(c)
  BY <1>9 DEF RoundsSpent, Go, Read, Failed, invocation, journal, money, talk, world
<1>10. CASE RunRaises(c)
  BY <1>10 DEF RunRaises, Go, Drop, NoJournal, NoItem, Noted, invocation, journal, money, talk, world
<1>11. ASSUME NEW w \in RoundWorlds, GradedRound(c, w) PROVE (board \in [Card -> BoardRec])'
  BY <1>11 DEF GradedRound, Go, Read, Used, invocation, journal, money, talk, world
<1>12. ASSUME NEW sent \in Sends, NEW created \in BOOLEAN, SalvageToReview(c, sent, created) PROVE (board \in [Card -> BoardRec])'
  BY <1>12 DEF SalvageToReview, Go, Read, Pushed, Opened, NoPr, Noted, invocation, journal, money, talk, world
<1>13. ASSUME NEW ok \in BOOLEAN, DirectRound(c, ok) PROVE (board \in [Card -> BoardRec])'
  BY <1>13 DEF DirectRound, Go, Used, Failed, invocation, journal, money, talk, world
<1>14. CASE WriteRunRecord(c)
  BY <1>14 DEF WriteRunRecord, Go, Mutate, Drop, NoJournal, NoItem, invocation, journal, money, talk, world
<1>15. CASE Account(c)
  BY <1>15 DEF Account, Go, invocation, journal, money, talk, world
<1>16. CASE Escalate(c)
  BY <1>16 DEF Escalate, Go, invocation, journal, money, talk, world
<1>17. CASE Finalize(c)
  BY <1>17 DEF Finalize, Go, invocation, journal, money, talk, world
<1>18. CASE FinalizeMissing(c)
  BY <1>18 DEF FinalizeMissing, Go, FinalizeFailed, invocation, journal, money, talk, world
<1>19. CASE FinalizeRaises(c)
  BY <1>19 DEF FinalizeRaises, Go, Lost, Noted, invocation, journal, money, talk, world
<1>20. ASSUME NEW ok \in BOOLEAN, RecordSuccess(c, ok) PROVE (board \in [Card -> BoardRec])'
  BY <1>20 DEF RecordSuccess, Go, Succeeded, Lost, Noted, invocation, journal, money, talk, world
<1>21. ASSUME NEW ok \in BOOLEAN, ClearAttempts(c, ok) PROVE (board \in [Card -> BoardRec])'
  BY <1>21 DEF ClearAttempts, Go, Read, Noted, invocation, journal, money, talk, world
<1>22. ASSUME NEW ok \in BOOLEAN, ArchiveAttempts(c, ok) PROVE (board \in [Card -> BoardRec])'
  BY <1>22 DEF ArchiveAttempts, Go, Mutate, Drop, NoJournal, NoItem, Noted, invocation, journal, money, talk, world
<1>23. ASSUME NEW sent \in Sends, NEW guarded \in BOOLEAN, CommitAndPush(c, sent, guarded) PROVE (board \in [Card -> BoardRec])'
  BY <1>23 DEF CommitAndPush, Go, Pushed, Lost, Noted, invocation, journal, money, talk, world
<1>24. ASSUME NEW sees \in BOOLEAN, NEW recorded \in BOOLEAN, Settle(c, sees, recorded) PROVE (board \in [Card -> BoardRec])'
  BY <1>24 DEF Settle, AfterSettlement, Go, Noted, invocation, journal, money, talk, world
<1>25. ASSUME NEW ok \in BOOLEAN, RecordSettlement(c, ok) PROVE (board \in [Card -> BoardRec])'
  BY <1>25 DEF RecordSettlement, AfterSettlement, Go, Noted, invocation, journal, money, talk, world
<1>26. ASSUME NEW ok \in BOOLEAN, OpenPr(c, ok) PROVE (board \in [Card -> BoardRec])'
  BY <1>26 DEF OpenPr, Go, Opened, NoPr, Noted, invocation, journal, money, talk, world
<1>27. ASSUME NEW read \in BOOLEAN, NEW k \in Checks, HoldForReview(c, read, k) PROVE (board \in [Card -> BoardRec])'
  BY <1>27 DEF HoldForReview, Go, Finalized, NoChecks, Noted, invocation, journal, money, talk, world
<1>28. ASSUME NEW read \in BOOLEAN, NEW k \in Checks, PruneForMerge(c, read, k) PROVE (board \in [Card -> BoardRec])'
  BY <1>28 DEF PruneForMerge, Go, Lost, Noted, invocation, journal, money, talk, world
<1>29. ASSUME NEW q \in Policies, NEW landed \in BOOLEAN, NEW reported \in BOOLEAN, GhMerge(c, q, landed, reported) PROVE (board \in [Card -> BoardRec])'
  BY <1>29 DEF GhMerge, Go, Finalized, NoChecks, Noted, invocation, journal, money, talk, world
<1>30. CASE Complete(c)
  BY <1>30 DEF Complete, Go, Finalized, NoChecks, invocation, journal, money, talk, world
<1>31. CASE WriteEntry(c)
  BY <1>31 DEF WriteEntry, Go, WriteRun, NoItem, invocation, journal, money, talk, world
<1>32. CASE OutcomeRow(c)
  BY <1>32 DEF OutcomeRow, Go, AddRow, EndSession, invocation, journal, money, talk, world
<1> QED BY <1>1, <1>2, <1>3, <1>4, <1>5, <1>6, <1>7, <1>8, <1>9, <1>10, <1>11, <1>12, <1>13, <1>14, <1>15, <1>16, <1>17, <1>18, <1>19, <1>20, <1>21, <1>22, <1>23, <1>24, <1>25, <1>26, <1>27, <1>28, <1>29, <1>30, <1>31, <1>32 DEF Worker

LEMMA WorkerWorkType ==
  ASSUME NEW c \in Card, work \in [Card -> WorkRec], Worker(c)
  PROVE  (work \in [Card -> WorkRec])'
<1>1. CASE StopItem(c)
  BY <1>1 DEF StopItem, Go, AddRow, invocation, journal, money, talk, world
<1>2. CASE StartItem(c)
  BY <1>2 DEF StartItem, Go, RegisterSession, invocation, journal, money, talk, world
<1>3. CASE Claim(c)
  BY <1>3 DEF Claim, Go, Read, invocation, journal, money, talk, world
<1>4. CASE ClaimRaced(c)
  BY <1>4 DEF ClaimRaced, Go, WriteRun, NoItem, invocation, journal, money, talk, world
<1>5. CASE RecordClaim(c)
  BY <1>5 DEF RecordClaim, Go, Mutate, Drop, NoJournal, NoItem, invocation, journal, money, talk, world
<1>6. CASE MakeWorktree(c)
  <2>1. \A t \in BOOLEAN : [NoWork EXCEPT !.tree = t, !.remote = work[c].remote] \in WorkRec
    BY DEF WorkRec, NoWork
  <2>2. [NoWork EXCEPT !.remote = work[c].remote] \in WorkRec
    BY DEF WorkRec, NoWork
  <2> QED BY <1>6, <2>1, <2>2 DEF MakeWorktree, Go, Read, invocation, journal, money, talk, world
<1>7. CASE SetWorktree(c)
  BY <1>7 DEF SetWorktree, Go, Mutate, Drop, NoJournal, NoItem, invocation, journal, money, talk, world
<1>8. CASE EmptyRound(c)
  BY <1>8 DEF EmptyRound, Go, Used, Failed, invocation, journal, money, talk, world
<1>9. CASE RoundsSpent(c)
  BY <1>9 DEF RoundsSpent, Go, Read, Failed, invocation, journal, money, talk, world
<1>10. CASE RunRaises(c)
  BY <1>10 DEF RunRaises, Go, Drop, NoJournal, NoItem, Noted, invocation, journal, money, talk, world
<1>11. ASSUME NEW w \in RoundWorlds, GradedRound(c, w) PROVE (work \in [Card -> WorkRec])'
  BY <1>11 DEF GradedRound, Go, Read, Used, invocation, journal, money, talk, world
<1>12. ASSUME NEW sent \in Sends, NEW created \in BOOLEAN, SalvageToReview(c, sent, created) PROVE (work \in [Card -> WorkRec])'
  <2>1. work[c] \in WorkRec
    OBVIOUS
  <2>2. Pushed(c, "salvaged", sent) \in WorkRec
    BY <2>1, PushedType
  <2>3. work' = [work EXCEPT ![c] = Pushed(c, "salvaged", sent)]
    BY <1>12 DEF SalvageToReview
  <2> QED BY <2>2, <2>3
<1>13. ASSUME NEW ok \in BOOLEAN, DirectRound(c, ok) PROVE (work \in [Card -> WorkRec])'
  BY <1>13 DEF DirectRound, Go, Used, Failed, invocation, journal, money, talk, world
<1>14. CASE WriteRunRecord(c)
  BY <1>14 DEF WriteRunRecord, Go, Mutate, Drop, NoJournal, NoItem, invocation, journal, money, talk, world
<1>15. CASE Account(c)
  BY <1>15 DEF Account, Go, invocation, journal, money, talk, world
<1>16. CASE Escalate(c)
  BY <1>16 DEF Escalate, Go, invocation, journal, money, talk, world
<1>17. CASE Finalize(c)
  BY <1>17 DEF Finalize, Go, invocation, journal, money, talk, world
<1>18. CASE FinalizeMissing(c)
  BY <1>18 DEF FinalizeMissing, Go, FinalizeFailed, invocation, journal, money, talk, world
<1>19. CASE FinalizeRaises(c)
  BY <1>19 DEF FinalizeRaises, Go, Lost, Noted, invocation, journal, money, talk, world
<1>20. ASSUME NEW ok \in BOOLEAN, RecordSuccess(c, ok) PROVE (work \in [Card -> WorkRec])'
  BY <1>20 DEF RecordSuccess, Go, Succeeded, Lost, Noted, invocation, journal, money, talk, world
<1>21. ASSUME NEW ok \in BOOLEAN, ClearAttempts(c, ok) PROVE (work \in [Card -> WorkRec])'
  BY <1>21 DEF ClearAttempts, Go, Read, Noted, invocation, journal, money, talk, world
<1>22. ASSUME NEW ok \in BOOLEAN, ArchiveAttempts(c, ok) PROVE (work \in [Card -> WorkRec])'
  BY <1>22 DEF ArchiveAttempts, Go, Mutate, Drop, NoJournal, NoItem, Noted, invocation, journal, money, talk, world
<1>23. ASSUME NEW sent \in Sends, NEW guarded \in BOOLEAN, CommitAndPush(c, sent, guarded) PROVE (work \in [Card -> WorkRec])'
  <2>1. work[c] \in WorkRec
    OBVIOUS
  <2> DEFINE kind == IF c \in DirectCards THEN "direct" ELSE "passed"
             v == Pushed(c, kind, sent)
  <2>2. kind \in {"salvaged", "passed", "direct"}
    OBVIOUS
  <2> HIDE DEF kind
  <2>3. v \in WorkRec
    BY <2>1, <2>2, PushedType
  <2>4. work' = [work EXCEPT ![c] = [v EXCEPT !.guarded = guarded]]
    BY <1>23 DEF CommitAndPush, kind
  <2> HIDE DEF v
  <2>5. [v EXCEPT !.guarded = guarded] \in WorkRec
    BY <2>3, WorkUpdates
  <2> QED BY <2>4, <2>5
<1>24. ASSUME NEW sees \in BOOLEAN, NEW recorded \in BOOLEAN, Settle(c, sees, recorded) PROVE (work \in [Card -> WorkRec])'
  BY <1>24 DEF Settle, AfterSettlement, Go, Noted, invocation, journal, money, talk, world
<1>25. ASSUME NEW ok \in BOOLEAN, RecordSettlement(c, ok) PROVE (work \in [Card -> WorkRec])'
  BY <1>25 DEF RecordSettlement, AfterSettlement, Go, Noted, invocation, journal, money, talk, world
<1>26. ASSUME NEW ok \in BOOLEAN, OpenPr(c, ok) PROVE (work \in [Card -> WorkRec])'
  BY <1>26 DEF OpenPr, Go, Opened, NoPr, Noted, invocation, journal, money, talk, world
<1>27. ASSUME NEW read \in BOOLEAN, NEW k \in Checks, HoldForReview(c, read, k) PROVE (work \in [Card -> WorkRec])'
  BY <1>27 DEF HoldForReview, Go, Finalized, NoChecks, Noted, invocation, journal, money, talk, world
<1>28. ASSUME NEW read \in BOOLEAN, NEW k \in Checks, PruneForMerge(c, read, k) PROVE (work \in [Card -> WorkRec])'
  <2>1. work[c] \in WorkRec
    OBVIOUS
  <2>2. [work[c] EXCEPT !.tree = FALSE] \in WorkRec
    BY <2>1, WorkUpdates
  <2>3. work' = [work EXCEPT ![c] = [work[c] EXCEPT !.tree = FALSE]]
    BY <1>28 DEF PruneForMerge
  <2> QED BY <2>2, <2>3
<1>29. ASSUME NEW q \in Policies, NEW landed \in BOOLEAN, NEW reported \in BOOLEAN, GhMerge(c, q, landed, reported) PROVE (work \in [Card -> WorkRec])'
  <2>1. work[c] \in WorkRec
    OBVIOUS
  <2> DEFINE x == IF landed THEN "none" ELSE work[c].remote
  <2>2. x \in Heads
    BY <2>1 DEF WorkRec, Heads
  <2>3. work' = [work EXCEPT ![c] = [work[c] EXCEPT !.remote = x]]
    BY <1>29 DEF GhMerge
  <2> HIDE DEF x
  <2>4. [work[c] EXCEPT !.remote = x] \in WorkRec
    BY <2>1, <2>2, WorkUpdates
  <2> QED BY <2>3, <2>4
<1>30. CASE Complete(c)
  BY <1>30 DEF Complete, Go, Finalized, NoChecks, invocation, journal, money, talk, world
<1>31. CASE WriteEntry(c)
  BY <1>31 DEF WriteEntry, Go, WriteRun, NoItem, invocation, journal, money, talk, world
<1>32. CASE OutcomeRow(c)
  BY <1>32 DEF OutcomeRow, Go, AddRow, EndSession, invocation, journal, money, talk, world
<1> QED BY <1>1, <1>2, <1>3, <1>4, <1>5, <1>6, <1>7, <1>8, <1>9, <1>10, <1>11, <1>12, <1>13, <1>14, <1>15, <1>16, <1>17, <1>18, <1>19, <1>20, <1>21, <1>22, <1>23, <1>24, <1>25, <1>26, <1>27, <1>28, <1>29, <1>30, <1>31, <1>32 DEF Worker

LEMMA WorkerPrType ==
  ASSUME NEW c \in Card, work \in [Card -> WorkRec], pr \in [Card -> PrRec], Worker(c)
  PROVE  (pr \in [Card -> PrRec])'
<1>1. CASE StopItem(c)
  BY <1>1 DEF StopItem, Go, AddRow, invocation, journal, money, talk, world
<1>2. CASE StartItem(c)
  BY <1>2 DEF StartItem, Go, RegisterSession, invocation, journal, money, talk, world
<1>3. CASE Claim(c)
  BY <1>3 DEF Claim, Go, Read, invocation, journal, money, talk, world
<1>4. CASE ClaimRaced(c)
  BY <1>4 DEF ClaimRaced, Go, WriteRun, NoItem, invocation, journal, money, talk, world
<1>5. CASE RecordClaim(c)
  BY <1>5 DEF RecordClaim, Go, Mutate, Drop, NoJournal, NoItem, invocation, journal, money, talk, world
<1>6. CASE MakeWorktree(c)
  BY <1>6 DEF MakeWorktree, Go, Read, invocation, journal, money, talk, world
<1>7. CASE SetWorktree(c)
  BY <1>7 DEF SetWorktree, Go, Mutate, Drop, NoJournal, NoItem, invocation, journal, money, talk, world
<1>8. CASE EmptyRound(c)
  BY <1>8 DEF EmptyRound, Go, Used, Failed, invocation, journal, money, talk, world
<1>9. CASE RoundsSpent(c)
  BY <1>9 DEF RoundsSpent, Go, Read, Failed, invocation, journal, money, talk, world
<1>10. CASE RunRaises(c)
  BY <1>10 DEF RunRaises, Go, Drop, NoJournal, NoItem, Noted, invocation, journal, money, talk, world
<1>11. ASSUME NEW w \in RoundWorlds, GradedRound(c, w) PROVE (pr \in [Card -> PrRec])'
  BY <1>11 DEF GradedRound, Go, Read, Used, invocation, journal, money, talk, world
<1>12. ASSUME NEW sent \in Sends, NEW created \in BOOLEAN, SalvageToReview(c, sent, created) PROVE (pr \in [Card -> PrRec])'
  <2>1. pr[c] \in PrRec /\ [NoPr EXCEPT !.status = "open"] \in PrRec
    BY DEF PrRec, NoPr, Heads
  <2>2. pr' = [pr EXCEPT ![c] = Opened(c, work'[c].remote, created)]
    BY <1>12 DEF SalvageToReview
  <2> QED BY <2>1, <2>2 DEF Opened
<1>13. ASSUME NEW ok \in BOOLEAN, DirectRound(c, ok) PROVE (pr \in [Card -> PrRec])'
  BY <1>13 DEF DirectRound, Go, Used, Failed, invocation, journal, money, talk, world
<1>14. CASE WriteRunRecord(c)
  BY <1>14 DEF WriteRunRecord, Go, Mutate, Drop, NoJournal, NoItem, invocation, journal, money, talk, world
<1>15. CASE Account(c)
  BY <1>15 DEF Account, Go, invocation, journal, money, talk, world
<1>16. CASE Escalate(c)
  BY <1>16 DEF Escalate, Go, invocation, journal, money, talk, world
<1>17. CASE Finalize(c)
  BY <1>17 DEF Finalize, Go, invocation, journal, money, talk, world
<1>18. CASE FinalizeMissing(c)
  BY <1>18 DEF FinalizeMissing, Go, FinalizeFailed, invocation, journal, money, talk, world
<1>19. CASE FinalizeRaises(c)
  BY <1>19 DEF FinalizeRaises, Go, Lost, Noted, invocation, journal, money, talk, world
<1>20. ASSUME NEW ok \in BOOLEAN, RecordSuccess(c, ok) PROVE (pr \in [Card -> PrRec])'
  BY <1>20 DEF RecordSuccess, Go, Succeeded, Lost, Noted, invocation, journal, money, talk, world
<1>21. ASSUME NEW ok \in BOOLEAN, ClearAttempts(c, ok) PROVE (pr \in [Card -> PrRec])'
  BY <1>21 DEF ClearAttempts, Go, Read, Noted, invocation, journal, money, talk, world
<1>22. ASSUME NEW ok \in BOOLEAN, ArchiveAttempts(c, ok) PROVE (pr \in [Card -> PrRec])'
  BY <1>22 DEF ArchiveAttempts, Go, Mutate, Drop, NoJournal, NoItem, Noted, invocation, journal, money, talk, world
<1>23. ASSUME NEW sent \in Sends, NEW guarded \in BOOLEAN, CommitAndPush(c, sent, guarded) PROVE (pr \in [Card -> PrRec])'
  BY <1>23 DEF CommitAndPush, Go, Pushed, Lost, Noted, invocation, journal, money, talk, world
<1>24. ASSUME NEW sees \in BOOLEAN, NEW recorded \in BOOLEAN, Settle(c, sees, recorded) PROVE (pr \in [Card -> PrRec])'
  BY <1>24 DEF Settle, AfterSettlement, Go, Noted, invocation, journal, money, talk, world
<1>25. ASSUME NEW ok \in BOOLEAN, RecordSettlement(c, ok) PROVE (pr \in [Card -> PrRec])'
  BY <1>25 DEF RecordSettlement, AfterSettlement, Go, Noted, invocation, journal, money, talk, world
<1>26. ASSUME NEW ok \in BOOLEAN, OpenPr(c, ok) PROVE (pr \in [Card -> PrRec])'
  <2>1. pr[c] \in PrRec /\ [NoPr EXCEPT !.status = "open"] \in PrRec
    BY DEF PrRec, NoPr, Heads
  <2>2. pr' = [pr EXCEPT ![c] = Opened(c, work[c].remote, ok)]
    BY <1>26 DEF OpenPr
  <2> QED BY <2>1, <2>2 DEF Opened
<1>27. ASSUME NEW read \in BOOLEAN, NEW k \in Checks, HoldForReview(c, read, k) PROVE (pr \in [Card -> PrRec])'
  BY <1>27 DEF HoldForReview, Go, Finalized, NoChecks, Noted, invocation, journal, money, talk, world
<1>28. ASSUME NEW read \in BOOLEAN, NEW k \in Checks, PruneForMerge(c, read, k) PROVE (pr \in [Card -> PrRec])'
  BY <1>28 DEF PruneForMerge, Go, Lost, Noted, invocation, journal, money, talk, world
<1>29. ASSUME NEW q \in Policies, NEW landed \in BOOLEAN, NEW reported \in BOOLEAN, GhMerge(c, q, landed, reported) PROVE (pr \in [Card -> PrRec])'
  <2>1. pr[c] \in PrRec /\ [status |-> "merged", head |-> work[c].remote] \in PrRec
    BY DEF PrRec, WorkRec, Heads
  <2> QED BY <1>29, <2>1 DEF GhMerge
<1>30. CASE Complete(c)
  BY <1>30 DEF Complete, Go, Finalized, NoChecks, invocation, journal, money, talk, world
<1>31. CASE WriteEntry(c)
  BY <1>31 DEF WriteEntry, Go, WriteRun, NoItem, invocation, journal, money, talk, world
<1>32. CASE OutcomeRow(c)
  BY <1>32 DEF OutcomeRow, Go, AddRow, EndSession, invocation, journal, money, talk, world
<1> QED BY <1>1, <1>2, <1>3, <1>4, <1>5, <1>6, <1>7, <1>8, <1>9, <1>10, <1>11, <1>12, <1>13, <1>14, <1>15, <1>16, <1>17, <1>18, <1>19, <1>20, <1>21, <1>22, <1>23, <1>24, <1>25, <1>26, <1>27, <1>28, <1>29, <1>30, <1>31, <1>32 DEF Worker

LEMMA WorkerJournalType ==
  ASSUME NEW c \in Card, JournalTypes, build \in [Card -> BuildRec], Worker(c)
  PROVE  JournalTypes'
<1>1. CASE StopItem(c)
  BY <1>1 DEF StopItem, Go, AddRow, invocation, journal, money, talk, world, JournalTypes
<1>2. CASE StartItem(c)
  BY <1>2 DEF StartItem, Go, RegisterSession, invocation, journal, money, talk, world, JournalTypes
<1>3. CASE Claim(c)
  BY <1>3 DEF Claim, Go, Read, invocation, journal, money, talk, world, JournalTypes
<1>4. CASE ClaimRaced(c)
  <2>1. "claim-raced" \in ItemStates
    BY DEF BuildRec, ItemStates
  <2>2. WriteRun(c, "claim-raced") /\ UNCHANGED snap
    BY <1>4 DEF ClaimRaced, money, talk, world
  <2>3. JournalTypes'
    BY <2>1, <2>2, WriteRunTypes
  <2> QED BY <1>4, <2>1, <2>2, <2>3 DEF ClaimRaced, Go, WriteRun, NoItem, invocation, journal, money, talk, world, JournalTypes
<1>5. CASE RecordClaim(c)
  <2>1. [snap[c][c] EXCEPT !.state = "claimed"] \in Item
    BY SnapItem
  <2>2. Mutate(c, [snap[c][c] EXCEPT !.state = "claimed"]) /\ UNCHANGED mem
    BY <1>5 DEF RecordClaim, money, talk, world
  <2>3. JournalTypes'
    BY <2>1, <2>2, MutateTypes
  <2> QED BY <1>5, <2>1, <2>2, <2>3 DEF RecordClaim, Go, Mutate, Drop, NoJournal, NoItem, invocation, journal, money, talk, world, JournalTypes
<1>6. CASE MakeWorktree(c)
  BY <1>6 DEF MakeWorktree, Go, Read, invocation, journal, money, talk, world, JournalTypes
<1>7. CASE SetWorktree(c)
  <2>1. [snap[c][c] EXCEPT !.wt = TRUE] \in Item
    BY SnapItem
  <2>2. Mutate(c, [snap[c][c] EXCEPT !.wt = TRUE]) /\ UNCHANGED mem
    BY <1>7 DEF SetWorktree, money, talk, world
  <2>3. JournalTypes'
    BY <2>1, <2>2, MutateTypes
  <2> QED BY <1>7, <2>1, <2>2, <2>3 DEF SetWorktree, Go, Mutate, Drop, NoJournal, NoItem, invocation, journal, money, talk, world, JournalTypes
<1>8. CASE EmptyRound(c)
  BY <1>8 DEF EmptyRound, Go, Used, Failed, invocation, journal, money, talk, world, JournalTypes
<1>9. CASE RoundsSpent(c)
  BY <1>9 DEF RoundsSpent, Go, Read, Failed, invocation, journal, money, talk, world, JournalTypes
<1>10. CASE RunRaises(c)
  <2>1. NoJournal \in Journal
    BY DEF NoJournal, Journal, Item, NoItem, ItemStates
  <2> QED BY <1>10, <2>1 DEF RunRaises, Drop, JournalTypes
<1>11. ASSUME NEW w \in RoundWorlds, GradedRound(c, w) PROVE JournalTypes'
  BY <1>11 DEF GradedRound, Go, Read, Used, invocation, journal, money, talk, world, JournalTypes
<1>12. ASSUME NEW sent \in Sends, NEW created \in BOOLEAN, SalvageToReview(c, sent, created) PROVE JournalTypes'
  BY <1>12 DEF SalvageToReview, Go, Read, Pushed, Opened, NoPr, Noted, invocation, journal, money, talk, world, JournalTypes
<1>13. ASSUME NEW ok \in BOOLEAN, DirectRound(c, ok) PROVE JournalTypes'
  BY <1>13 DEF DirectRound, Go, Used, Failed, invocation, journal, money, talk, world, JournalTypes
<1>14. CASE WriteRunRecord(c)
  <2>1. snap[c][c] \in Item
    BY SnapItem
  <2>2. Mutate(c, snap[c][c]) /\ UNCHANGED mem
    BY <1>14 DEF WriteRunRecord, money, talk, world
  <2>3. JournalTypes'
    BY <2>1, <2>2, MutateTypes
  <2> QED BY <1>14, <2>1, <2>2, <2>3 DEF WriteRunRecord, Go, Mutate, Drop, NoJournal, NoItem, invocation, journal, money, talk, world, JournalTypes
<1>15. CASE Account(c)
  BY <1>15 DEF Account, Go, invocation, journal, money, talk, world, JournalTypes
<1>16. CASE Escalate(c)
  BY <1>16 DEF Escalate, Go, invocation, journal, money, talk, world, JournalTypes
<1>17. CASE Finalize(c)
  BY <1>17 DEF Finalize, Go, invocation, journal, money, talk, world, JournalTypes
<1>18. CASE FinalizeMissing(c)
  BY <1>18 DEF FinalizeMissing, Go, FinalizeFailed, invocation, journal, money, talk, world, JournalTypes
<1>19. CASE FinalizeRaises(c)
  BY <1>19 DEF FinalizeRaises, Go, Lost, Noted, invocation, journal, money, talk, world, JournalTypes
<1>20. ASSUME NEW ok \in BOOLEAN, RecordSuccess(c, ok) PROVE JournalTypes'
  BY <1>20 DEF RecordSuccess, Go, Succeeded, Lost, Noted, invocation, journal, money, talk, world, JournalTypes
<1>21. ASSUME NEW ok \in BOOLEAN, ClearAttempts(c, ok) PROVE JournalTypes'
  BY <1>21 DEF ClearAttempts, Go, Read, Noted, invocation, journal, money, talk, world, JournalTypes
<1>22. ASSUME NEW ok \in BOOLEAN, ArchiveAttempts(c, ok) PROVE JournalTypes'
  <2>1. CASE ok
    <3>1. snap[c][c] \in Item
      BY SnapItem
    <3>2. Mutate(c, snap[c][c]) /\ UNCHANGED mem
      BY <1>22, <2>1 DEF ArchiveAttempts
    <3> QED BY <3>1, <3>2, MutateTypes
  <2>2. CASE ~ok
    <3>1. NoJournal \in Journal
      BY DEF NoJournal, Journal, Item, NoItem, ItemStates
    <3> QED BY <1>22, <2>2, <3>1 DEF ArchiveAttempts, Drop, JournalTypes
  <2> QED BY <2>1, <2>2
<1>23. ASSUME NEW sent \in Sends, NEW guarded \in BOOLEAN, CommitAndPush(c, sent, guarded) PROVE JournalTypes'
  BY <1>23 DEF CommitAndPush, Go, Pushed, Lost, Noted, invocation, journal, money, talk, world, JournalTypes
<1>24. ASSUME NEW sees \in BOOLEAN, NEW recorded \in BOOLEAN, Settle(c, sees, recorded) PROVE JournalTypes'
  BY <1>24 DEF Settle, AfterSettlement, Go, Noted, invocation, journal, money, talk, world, JournalTypes
<1>25. ASSUME NEW ok \in BOOLEAN, RecordSettlement(c, ok) PROVE JournalTypes'
  BY <1>25 DEF RecordSettlement, AfterSettlement, Go, Noted, invocation, journal, money, talk, world, JournalTypes
<1>26. ASSUME NEW ok \in BOOLEAN, OpenPr(c, ok) PROVE JournalTypes'
  BY <1>26 DEF OpenPr, Go, Opened, NoPr, Noted, invocation, journal, money, talk, world, JournalTypes
<1>27. ASSUME NEW read \in BOOLEAN, NEW k \in Checks, HoldForReview(c, read, k) PROVE JournalTypes'
  BY <1>27 DEF HoldForReview, Go, Finalized, NoChecks, Noted, invocation, journal, money, talk, world, JournalTypes
<1>28. ASSUME NEW read \in BOOLEAN, NEW k \in Checks, PruneForMerge(c, read, k) PROVE JournalTypes'
  BY <1>28 DEF PruneForMerge, Go, Lost, Noted, invocation, journal, money, talk, world, JournalTypes
<1>29. ASSUME NEW q \in Policies, NEW landed \in BOOLEAN, NEW reported \in BOOLEAN, GhMerge(c, q, landed, reported) PROVE JournalTypes'
  BY <1>29 DEF GhMerge, Go, Finalized, NoChecks, Noted, invocation, journal, money, talk, world, JournalTypes
<1>30. CASE Complete(c)
  BY <1>30 DEF Complete, Go, Finalized, NoChecks, invocation, journal, money, talk, world, JournalTypes
<1>31. CASE WriteEntry(c)
  <2>1. build[c].entry \in ItemStates
    BY DEF BuildRec, ItemStates
  <2>2. WriteRun(c, build[c].entry) /\ UNCHANGED snap
    BY <1>31 DEF WriteEntry, money, talk, world
  <2>3. JournalTypes'
    BY <2>1, <2>2, WriteRunTypes
  <2> QED BY <1>31, <2>1, <2>2, <2>3 DEF WriteEntry, Go, WriteRun, NoItem, invocation, journal, money, talk, world, JournalTypes
<1>32. CASE OutcomeRow(c)
  BY <1>32 DEF OutcomeRow, Go, AddRow, EndSession, invocation, journal, money, talk, world, JournalTypes
<1> QED BY <1>1, <1>2, <1>3, <1>4, <1>5, <1>6, <1>7, <1>8, <1>9, <1>10, <1>11, <1>12, <1>13, <1>14, <1>15, <1>16, <1>17, <1>18, <1>19, <1>20, <1>21, <1>22, <1>23, <1>24, <1>25, <1>26, <1>27, <1>28, <1>29, <1>30, <1>31, <1>32 DEF Worker

LEMMA WorkerBuildType ==
  ASSUME NEW c \in Card, build \in [Card -> BuildRec], BuildOK(c), Worker(c)
  PROVE  (build \in [Card -> BuildRec])'
<1>1. CASE StopItem(c)
  BY <1>1 DEF StopItem, Go, AddRow, invocation, journal, money, talk, world
<1>2. CASE StartItem(c)
  BY <1>2 DEF StartItem, Go, RegisterSession, invocation, journal, money, talk, world
<1>3. CASE Claim(c)
  BY <1>3 DEF Claim, Go, Read, invocation, journal, money, talk, world
<1>4. CASE ClaimRaced(c)
  <2>1. build[c] \in BuildRec /\ build[c].cost = build[c].round
    BY DEF BuildOK
  <2>2. [build[c] EXCEPT !.entry = "claim-raced"] \in BuildRec
    BY <2>1, BuildUpdates DEF ItemStates, Results
  <2> QED BY <1>4, <2>1, <2>2 DEF ClaimRaced, Go, WriteRun, NoItem, invocation, journal, money, talk, world
<1>5. CASE RecordClaim(c)
  BY <1>5 DEF RecordClaim, Go, Mutate, Drop, NoJournal, NoItem, invocation, journal, money, talk, world
<1>6. CASE MakeWorktree(c)
  BY <1>6 DEF MakeWorktree, Go, Read, invocation, journal, money, talk, world
<1>7. CASE SetWorktree(c)
  BY <1>7 DEF SetWorktree, Go, Mutate, Drop, NoJournal, NoItem, invocation, journal, money, talk, world
<1>8. CASE EmptyRound(c)
  <2>1. build[c] \in BuildRec /\ build[c].cost = build[c].round
    BY DEF BuildOK
  <2>2. Used(build[c]) \in BuildRec
    BY <1>8, <2>1, BuildUpdates DEF EmptyRound
  <2>3. [Used(build[c]) EXCEPT !.empty = @ + 1] \in BuildRec
    <3>1. Used(build[c]).empty + 1 \in Nat
      BY <2>2 DEF BuildRec
    <3> QED BY <2>2, <3>1, BuildUpdates
  <2>4. \A r \in Results : [[Used(build[c]) EXCEPT !.empty = @ + 1] EXCEPT !.result = r] \in BuildRec
    BY <2>3, BuildUpdates
  <2>5. "no_op" \in Results /\ [Used(build[c]) EXCEPT !.empty = @ + 1].result \in Results
    BY <2>3 DEF Results, BuildRec
  <2> QED BY <1>8, <2>1, <2>2, <2>3, <2>4, <2>5 DEF EmptyRound, Go, Used, Failed, invocation, journal, money, talk, world
<1>9. CASE RoundsSpent(c)
  <2>1. build[c] \in BuildRec /\ build[c].cost = build[c].round
    BY DEF BuildOK
  <2>2. [build[c] EXCEPT !.result = "ci_red"] \in BuildRec
    BY <2>1, BuildUpdates DEF ItemStates, Results
  <2> QED BY <1>9, <2>1, <2>2 DEF RoundsSpent, Go, Read, Failed, invocation, journal, money, talk, world
<1>10. CASE RunRaises(c)
  BY <1>10 DEF RunRaises, Go, Drop, NoJournal, NoItem, Noted, invocation, journal, money, talk, world
<1>11. ASSUME NEW w \in RoundWorlds, GradedRound(c, w) PROVE (build \in [Card -> BuildRec])'
  <2>1. build[c] \in BuildRec /\ build[c].cost = build[c].round
    BY DEF BuildOK
  <2>2. Used(build[c]) \in BuildRec
    BY <1>11, <2>1, BuildUpdates DEF GradedRound
  <2>3. [Used(build[c]) EXCEPT !.empty = 0, !.graded = TRUE] \in BuildRec
    BY <2>2 DEF BuildRec
  <2>4. \A r \in {"pass", "salvage", "none"} : [Used(build[c]) EXCEPT !.empty = 0, !.graded = TRUE, !.result = r] \in BuildRec
    BY <2>2 DEF BuildRec, Results
  <2> QED BY <1>11, <2>1, <2>2, <2>3, <2>4 DEF GradedRound, Go, Read, Used, invocation, journal, money, talk, world
<1>12. ASSUME NEW sent \in Sends, NEW created \in BOOLEAN, SalvageToReview(c, sent, created) PROVE (build \in [Card -> BuildRec])'
  BY <1>12 DEF SalvageToReview, Go, Read, Pushed, Opened, NoPr, Noted, invocation, journal, money, talk, world
<1>13. ASSUME NEW ok \in BOOLEAN, DirectRound(c, ok) PROVE (build \in [Card -> BuildRec])'
  <2>1. build[c] \in BuildRec /\ build[c].cost = build[c].round /\ build[c].round < MaxRounds
    BY <1>13, RunAssumption DEF BuildOK, NoBuild, DirectRound
  <2>2. Used(build[c]) \in BuildRec
    BY <2>1, BuildUpdates
  <2>3. \A r \in {"pass", "direct_fail"} : [Used(build[c]) EXCEPT !.result = r] \in BuildRec
    BY <2>2, BuildUpdates DEF Results
  <2> QED BY <1>13, <2>1, <2>2, <2>3 DEF DirectRound, Go, Used, Failed, invocation, journal, money, talk, world
<1>14. CASE WriteRunRecord(c)
  BY <1>14 DEF WriteRunRecord, Go, Mutate, Drop, NoJournal, NoItem, invocation, journal, money, talk, world
<1>15. CASE Account(c)
  BY <1>15 DEF Account, Go, invocation, journal, money, talk, world
<1>16. CASE Escalate(c)
  <2>1. build[c] \in BuildRec /\ build[c].cost = build[c].round
    BY DEF BuildOK
  <2>2. [build[c] EXCEPT !.entry = "escalated"] \in BuildRec
    BY <2>1, BuildUpdates DEF ItemStates, Results
  <2> QED BY <1>16, <2>1, <2>2 DEF Escalate, Go, invocation, journal, money, talk, world
<1>17. CASE Finalize(c)
  BY <1>17 DEF Finalize, Go, invocation, journal, money, talk, world
<1>18. CASE FinalizeMissing(c)
  <2>1. build[c] \in BuildRec /\ build[c].cost = build[c].round
    BY DEF BuildOK
  <2>2. [build[c] EXCEPT !.entry = "finalize-failed"] \in BuildRec
    BY <2>1, BuildUpdates DEF ItemStates, Results
  <2> QED BY <1>18, <2>1, <2>2 DEF FinalizeMissing, Go, FinalizeFailed, invocation, journal, money, talk, world
<1>19. CASE FinalizeRaises(c)
  <2>1. build[c] \in BuildRec
    OBVIOUS
  <2> DEFINE b == Lost(build[c], step[c] # "push", "push")
  <2>2. (step[c] # "push") \in BOOLEAN
    OBVIOUS
  <2>3. b \in BuildRec
    BY <2>1, <2>2, LostType
  <2>4. build' = [build EXCEPT ![c] = [b EXCEPT !.entry = "finalize-failed"]]
    BY <1>19 DEF FinalizeRaises
  <2> HIDE DEF b
  <2>5. [b EXCEPT !.entry = "finalize-failed"] \in BuildRec
    BY <2>3, BuildUpdates DEF ItemStates
  <2> QED BY <2>4, <2>5
<1>20. ASSUME NEW ok \in BOOLEAN, RecordSuccess(c, ok) PROVE (build \in [Card -> BuildRec])'
  <2>1. build[c] \in BuildRec
    OBVIOUS
  <2>2. Lost(build[c], ok, "success") \in BuildRec
    BY <2>1, LostType
  <2>3. build' = [build EXCEPT ![c] = Lost(build[c], ok, "success")]
    BY <1>20 DEF RecordSuccess
  <2> QED BY <2>2, <2>3
<1>21. ASSUME NEW ok \in BOOLEAN, ClearAttempts(c, ok) PROVE (build \in [Card -> BuildRec])'
  BY <1>21 DEF ClearAttempts, Go, Read, Noted, invocation, journal, money, talk, world
<1>22. ASSUME NEW ok \in BOOLEAN, ArchiveAttempts(c, ok) PROVE (build \in [Card -> BuildRec])'
  BY <1>22 DEF ArchiveAttempts, Go, Mutate, Drop, NoJournal, NoItem, Noted, invocation, journal, money, talk, world
<1>23. ASSUME NEW sent \in Sends, NEW guarded \in BOOLEAN, CommitAndPush(c, sent, guarded) PROVE (build \in [Card -> BuildRec])'
  <2>1. build[c] \in BuildRec
    OBVIOUS
  <2>2. (sent = "pushed") \in BOOLEAN
    OBVIOUS
  <2>3. Lost(build[c], sent = "pushed", "push") \in BuildRec
    BY <2>1, <2>2, LostType
  <2>4. build' = [build EXCEPT ![c] = Lost(build[c], sent = "pushed", "push")]
    BY <1>23 DEF CommitAndPush
  <2> QED BY <2>3, <2>4
<1>24. ASSUME NEW sees \in BOOLEAN, NEW recorded \in BOOLEAN, Settle(c, sees, recorded) PROVE (build \in [Card -> BuildRec])'
  BY <1>24 DEF Settle, AfterSettlement, Go, Noted, invocation, journal, money, talk, world
<1>25. ASSUME NEW ok \in BOOLEAN, RecordSettlement(c, ok) PROVE (build \in [Card -> BuildRec])'
  BY <1>25 DEF RecordSettlement, AfterSettlement, Go, Noted, invocation, journal, money, talk, world
<1>26. ASSUME NEW ok \in BOOLEAN, OpenPr(c, ok) PROVE (build \in [Card -> BuildRec])'
  BY <1>26 DEF OpenPr, Go, Opened, NoPr, Noted, invocation, journal, money, talk, world
<1>27. ASSUME NEW read \in BOOLEAN, NEW k \in Checks, HoldForReview(c, read, k) PROVE (build \in [Card -> BuildRec])'
  <2>1. build[c] \in BuildRec
    OBVIOUS
  <2>2. "finalized" \in ItemStates /\ NoChecks \in [core : SUBSET Buckets, sec : SUBSET Buckets]
    BY DEF ItemStates, NoChecks
  <2>3. [build[c] EXCEPT !.entry = "finalized", !.checks = NoChecks] \in BuildRec
    BY <2>1, <2>2, BuildUpdates
  <2> QED BY <1>27, <2>3 DEF HoldForReview, Finalized
<1>28. ASSUME NEW read \in BOOLEAN, NEW k \in Checks, PruneForMerge(c, read, k) PROVE (build \in [Card -> BuildRec])'
  <2>1. build[c] \in BuildRec
    OBVIOUS
  <2> DEFINE b == Lost(build[c], read, "diff")
  <2>2. b \in BuildRec
    BY <2>1, LostType
  <2>3. build' = [build EXCEPT ![c] = [b EXCEPT !.checks = k]]
    BY <1>28 DEF PruneForMerge
  <2> HIDE DEF b
  <2>4. k \in [core : SUBSET Buckets, sec : SUBSET Buckets]
    BY RunAssumption
  <2>5. [b EXCEPT !.checks = k] \in BuildRec
    BY <2>2, <2>4, BuildUpdates
  <2> QED BY <2>3, <2>5
<1>29. ASSUME NEW q \in Policies, NEW landed \in BOOLEAN, NEW reported \in BOOLEAN, GhMerge(c, q, landed, reported) PROVE (build \in [Card -> BuildRec])'
  <2>1. build[c] \in BuildRec
    OBVIOUS
  <2>2. "finalized" \in ItemStates /\ NoChecks \in [core : SUBSET Buckets, sec : SUBSET Buckets]
    BY DEF ItemStates, NoChecks
  <2>3. [build[c] EXCEPT !.entry = "finalized", !.checks = NoChecks] \in BuildRec
    BY <2>1, <2>2, BuildUpdates
  <2> QED BY <1>29, <2>3 DEF GhMerge, Finalized
<1>30. CASE Complete(c)
  <2>1. build[c] \in BuildRec
    OBVIOUS
  <2>2. "finalized" \in ItemStates /\ NoChecks \in [core : SUBSET Buckets, sec : SUBSET Buckets]
    BY DEF ItemStates, NoChecks
  <2>3. [build[c] EXCEPT !.entry = "finalized", !.checks = NoChecks] \in BuildRec
    BY <2>1, <2>2, BuildUpdates
  <2> QED BY <1>30, <2>3 DEF Complete, Finalized
<1>31. CASE WriteEntry(c)
  BY <1>31 DEF WriteEntry, Go, WriteRun, NoItem, invocation, journal, money, talk, world
<1>32. CASE OutcomeRow(c)
  BY <1>32 DEF OutcomeRow, Go, AddRow, EndSession, invocation, journal, money, talk, world
<1> QED BY <1>1, <1>2, <1>3, <1>4, <1>5, <1>6, <1>7, <1>8, <1>9, <1>10, <1>11, <1>12, <1>13, <1>14, <1>15, <1>16, <1>17, <1>18, <1>19, <1>20, <1>21, <1>22, <1>23, <1>24, <1>25, <1>26, <1>27, <1>28, <1>29, <1>30, <1>31, <1>32 DEF Worker

LEMMA WorkerRowsType ==
  ASSUME NEW c \in Card, rows \in [Card -> Seq(RowStates)], DOMAIN session = Card, step \in [Card -> Steps], BuildOK(c), Worker(c)
  PROVE  (rows \in [Card -> Seq(RowStates)] /\ DOMAIN session = Card)'
<1>1. CASE StopItem(c)
  <2>1. "kill-switch" \in RowStates /\ "budget-hit" \in RowStates
    BY DEF RowStates
  <2>2. \A s \in RowStates : Append(rows[c], s) \in Seq(RowStates)
    OBVIOUS
  <2> QED BY <1>1, <2>1, <2>2 DEF StopItem, Go, AddRow, invocation, journal, money, talk, world
<1>2. CASE StartItem(c)
  BY <1>2 DEF StartItem, Go, RegisterSession, invocation, journal, money, talk, world
<1>3. CASE Claim(c)
  BY <1>3 DEF Claim, Go, Read, invocation, journal, money, talk, world
<1>4. CASE ClaimRaced(c)
  BY <1>4 DEF ClaimRaced, Go, WriteRun, NoItem, invocation, journal, money, talk, world
<1>5. CASE RecordClaim(c)
  BY <1>5 DEF RecordClaim, Go, Mutate, Drop, NoJournal, NoItem, invocation, journal, money, talk, world
<1>6. CASE MakeWorktree(c)
  BY <1>6 DEF MakeWorktree, Go, Read, invocation, journal, money, talk, world
<1>7. CASE SetWorktree(c)
  BY <1>7 DEF SetWorktree, Go, Mutate, Drop, NoJournal, NoItem, invocation, journal, money, talk, world
<1>8. CASE EmptyRound(c)
  BY <1>8 DEF EmptyRound, Go, Used, Failed, invocation, journal, money, talk, world
<1>9. CASE RoundsSpent(c)
  BY <1>9 DEF RoundsSpent, Go, Read, Failed, invocation, journal, money, talk, world
<1>10. CASE RunRaises(c)
  BY <1>10 DEF RunRaises, Go, Drop, NoJournal, NoItem, Noted, invocation, journal, money, talk, world
<1>11. ASSUME NEW w \in RoundWorlds, GradedRound(c, w) PROVE (rows \in [Card -> Seq(RowStates)] /\ DOMAIN session = Card)'
  BY <1>11 DEF GradedRound, Go, Read, Used, invocation, journal, money, talk, world
<1>12. ASSUME NEW sent \in Sends, NEW created \in BOOLEAN, SalvageToReview(c, sent, created) PROVE (rows \in [Card -> Seq(RowStates)] /\ DOMAIN session = Card)'
  BY <1>12 DEF SalvageToReview, Go, Read, Pushed, Opened, NoPr, Noted, invocation, journal, money, talk, world
<1>13. ASSUME NEW ok \in BOOLEAN, DirectRound(c, ok) PROVE (rows \in [Card -> Seq(RowStates)] /\ DOMAIN session = Card)'
  BY <1>13 DEF DirectRound, Go, Used, Failed, invocation, journal, money, talk, world
<1>14. CASE WriteRunRecord(c)
  BY <1>14 DEF WriteRunRecord, Go, Mutate, Drop, NoJournal, NoItem, invocation, journal, money, talk, world
<1>15. CASE Account(c)
  BY <1>15 DEF Account, Go, invocation, journal, money, talk, world
<1>16. CASE Escalate(c)
  BY <1>16 DEF Escalate, Go, invocation, journal, money, talk, world
<1>17. CASE Finalize(c)
  BY <1>17 DEF Finalize, Go, invocation, journal, money, talk, world
<1>18. CASE FinalizeMissing(c)
  BY <1>18 DEF FinalizeMissing, Go, FinalizeFailed, invocation, journal, money, talk, world
<1>19. CASE FinalizeRaises(c)
  BY <1>19 DEF FinalizeRaises, Go, Lost, Noted, invocation, journal, money, talk, world
<1>20. ASSUME NEW ok \in BOOLEAN, RecordSuccess(c, ok) PROVE (rows \in [Card -> Seq(RowStates)] /\ DOMAIN session = Card)'
  BY <1>20 DEF RecordSuccess, Go, Succeeded, Lost, Noted, invocation, journal, money, talk, world
<1>21. ASSUME NEW ok \in BOOLEAN, ClearAttempts(c, ok) PROVE (rows \in [Card -> Seq(RowStates)] /\ DOMAIN session = Card)'
  BY <1>21 DEF ClearAttempts, Go, Read, Noted, invocation, journal, money, talk, world
<1>22. ASSUME NEW ok \in BOOLEAN, ArchiveAttempts(c, ok) PROVE (rows \in [Card -> Seq(RowStates)] /\ DOMAIN session = Card)'
  BY <1>22 DEF ArchiveAttempts, Go, Mutate, Drop, NoJournal, NoItem, Noted, invocation, journal, money, talk, world
<1>23. ASSUME NEW sent \in Sends, NEW guarded \in BOOLEAN, CommitAndPush(c, sent, guarded) PROVE (rows \in [Card -> Seq(RowStates)] /\ DOMAIN session = Card)'
  BY <1>23 DEF CommitAndPush, Go, Pushed, Lost, Noted, invocation, journal, money, talk, world
<1>24. ASSUME NEW sees \in BOOLEAN, NEW recorded \in BOOLEAN, Settle(c, sees, recorded) PROVE (rows \in [Card -> Seq(RowStates)] /\ DOMAIN session = Card)'
  BY <1>24 DEF Settle, AfterSettlement, Go, Noted, invocation, journal, money, talk, world
<1>25. ASSUME NEW ok \in BOOLEAN, RecordSettlement(c, ok) PROVE (rows \in [Card -> Seq(RowStates)] /\ DOMAIN session = Card)'
  BY <1>25 DEF RecordSettlement, AfterSettlement, Go, Noted, invocation, journal, money, talk, world
<1>26. ASSUME NEW ok \in BOOLEAN, OpenPr(c, ok) PROVE (rows \in [Card -> Seq(RowStates)] /\ DOMAIN session = Card)'
  BY <1>26 DEF OpenPr, Go, Opened, NoPr, Noted, invocation, journal, money, talk, world
<1>27. ASSUME NEW read \in BOOLEAN, NEW k \in Checks, HoldForReview(c, read, k) PROVE (rows \in [Card -> Seq(RowStates)] /\ DOMAIN session = Card)'
  BY <1>27 DEF HoldForReview, Go, Finalized, NoChecks, Noted, invocation, journal, money, talk, world
<1>28. ASSUME NEW read \in BOOLEAN, NEW k \in Checks, PruneForMerge(c, read, k) PROVE (rows \in [Card -> Seq(RowStates)] /\ DOMAIN session = Card)'
  BY <1>28 DEF PruneForMerge, Go, Lost, Noted, invocation, journal, money, talk, world
<1>29. ASSUME NEW q \in Policies, NEW landed \in BOOLEAN, NEW reported \in BOOLEAN, GhMerge(c, q, landed, reported) PROVE (rows \in [Card -> Seq(RowStates)] /\ DOMAIN session = Card)'
  BY <1>29 DEF GhMerge, Go, Finalized, NoChecks, Noted, invocation, journal, money, talk, world
<1>30. CASE Complete(c)
  BY <1>30 DEF Complete, Go, Finalized, NoChecks, invocation, journal, money, talk, world
<1>31. CASE WriteEntry(c)
  BY <1>31 DEF WriteEntry, Go, WriteRun, NoItem, invocation, journal, money, talk, world
<1>32. CASE OutcomeRow(c)
  <2>1. build[c].entry \in RowStates
    BY <1>32 DEF OutcomeRow, BuildOK, RowStates, ItemStates, Outcomes
  <2>2. \A s \in RowStates : Append(rows[c], s) \in Seq(RowStates)
    OBVIOUS
  <2> QED BY <1>32, <2>1, <2>2 DEF OutcomeRow, Go, AddRow, EndSession, invocation, journal, money, talk, world
<1> QED BY <1>1, <1>2, <1>3, <1>4, <1>5, <1>6, <1>7, <1>8, <1>9, <1>10, <1>11, <1>12, <1>13, <1>14, <1>15, <1>16, <1>17, <1>18, <1>19, <1>20, <1>21, <1>22, <1>23, <1>24, <1>25, <1>26, <1>27, <1>28, <1>29, <1>30, <1>31, <1>32 DEF Worker

LEMMA WorkerPhaseOK ==
  ASSUME NEW c \in Card, InvocationTypes, rows \in [Card -> Seq(RowStates)], PhaseOK(c), Worker(c)
  PROVE  PhaseOK(c)'
<1> USE DEF PhaseOK, InvocationTypes, Steps
<1>1. CASE StopItem(c)
  BY <1>1 DEF StopItem, Go, AddRow, invocation, journal, money, talk, world
<1>2. CASE StartItem(c)
  BY <1>2 DEF StartItem, Go, RegisterSession, invocation, journal, money, talk, world
<1>3. CASE Claim(c)
  BY <1>3 DEF Claim, Go, Read, invocation, journal, money, talk, world
<1>4. CASE ClaimRaced(c)
  BY <1>4 DEF ClaimRaced, Go, WriteRun, NoItem, invocation, journal, money, talk, world
<1>5. CASE RecordClaim(c)
  BY <1>5 DEF RecordClaim, Go, Mutate, Drop, NoJournal, NoItem, invocation, journal, money, talk, world
<1>6. CASE MakeWorktree(c)
  BY <1>6 DEF MakeWorktree, Go, Read, invocation, journal, money, talk, world
<1>7. CASE SetWorktree(c)
  BY <1>7 DEF SetWorktree, Go, Mutate, Drop, NoJournal, NoItem, invocation, journal, money, talk, world
<1>8. CASE EmptyRound(c)
  BY <1>8 DEF EmptyRound, Go, Used, Failed, invocation, journal, money, talk, world
<1>9. CASE RoundsSpent(c)
  BY <1>9 DEF RoundsSpent, Go, Read, Failed, invocation, journal, money, talk, world
<1>10. CASE RunRaises(c)
  BY <1>10 DEF RunRaises, Go, Drop, NoJournal, NoItem, Noted, invocation, journal, money, talk, world
<1>11. ASSUME NEW w \in RoundWorlds, GradedRound(c, w) PROVE PhaseOK(c)'
  BY <1>11 DEF GradedRound, Go, Read, Used, invocation, journal, money, talk, world
<1>12. ASSUME NEW sent \in Sends, NEW created \in BOOLEAN, SalvageToReview(c, sent, created) PROVE PhaseOK(c)'
  BY <1>12 DEF SalvageToReview, Go, Read, Pushed, Opened, NoPr, Noted, invocation, journal, money, talk, world
<1>13. ASSUME NEW ok \in BOOLEAN, DirectRound(c, ok) PROVE PhaseOK(c)'
  BY <1>13 DEF DirectRound, Go, Used, Failed, invocation, journal, money, talk, world
<1>14. CASE WriteRunRecord(c)
  BY <1>14 DEF WriteRunRecord, Go, Mutate, Drop, NoJournal, NoItem, invocation, journal, money, talk, world
<1>15. CASE Account(c)
  BY <1>15 DEF Account, Go, invocation, journal, money, talk, world
<1>16. CASE Escalate(c)
  BY <1>16 DEF Escalate, Go, invocation, journal, money, talk, world
<1>17. CASE Finalize(c)
  BY <1>17 DEF Finalize, Go, invocation, journal, money, talk, world
<1>18. CASE FinalizeMissing(c)
  BY <1>18 DEF FinalizeMissing, Go, FinalizeFailed, invocation, journal, money, talk, world
<1>19. CASE FinalizeRaises(c)
  BY <1>19 DEF FinalizeRaises, Go, Lost, Noted, invocation, journal, money, talk, world
<1>20. ASSUME NEW ok \in BOOLEAN, RecordSuccess(c, ok) PROVE PhaseOK(c)'
  BY <1>20 DEF RecordSuccess, Go, Succeeded, Lost, Noted, invocation, journal, money, talk, world
<1>21. ASSUME NEW ok \in BOOLEAN, ClearAttempts(c, ok) PROVE PhaseOK(c)'
  BY <1>21 DEF ClearAttempts, Go, Read, Noted, invocation, journal, money, talk, world
<1>22. ASSUME NEW ok \in BOOLEAN, ArchiveAttempts(c, ok) PROVE PhaseOK(c)'
  BY <1>22 DEF ArchiveAttempts, Go, Mutate, Drop, NoJournal, NoItem, Noted, invocation, journal, money, talk, world
<1>23. ASSUME NEW sent \in Sends, NEW guarded \in BOOLEAN, CommitAndPush(c, sent, guarded) PROVE PhaseOK(c)'
  BY <1>23 DEF CommitAndPush, Go, Pushed, Lost, Noted, invocation, journal, money, talk, world
<1>24. ASSUME NEW sees \in BOOLEAN, NEW recorded \in BOOLEAN, Settle(c, sees, recorded) PROVE PhaseOK(c)'
  BY <1>24 DEF Settle, AfterSettlement, Go, Noted, invocation, journal, money, talk, world
<1>25. ASSUME NEW ok \in BOOLEAN, RecordSettlement(c, ok) PROVE PhaseOK(c)'
  BY <1>25 DEF RecordSettlement, AfterSettlement, Go, Noted, invocation, journal, money, talk, world
<1>26. ASSUME NEW ok \in BOOLEAN, OpenPr(c, ok) PROVE PhaseOK(c)'
  BY <1>26 DEF OpenPr, Go, Opened, NoPr, Noted, invocation, journal, money, talk, world
<1>27. ASSUME NEW read \in BOOLEAN, NEW k \in Checks, HoldForReview(c, read, k) PROVE PhaseOK(c)'
  BY <1>27 DEF HoldForReview, Go, Finalized, NoChecks, Noted, invocation, journal, money, talk, world
<1>28. ASSUME NEW read \in BOOLEAN, NEW k \in Checks, PruneForMerge(c, read, k) PROVE PhaseOK(c)'
  BY <1>28 DEF PruneForMerge, Go, Lost, Noted, invocation, journal, money, talk, world
<1>29. ASSUME NEW q \in Policies, NEW landed \in BOOLEAN, NEW reported \in BOOLEAN, GhMerge(c, q, landed, reported) PROVE PhaseOK(c)'
  BY <1>29 DEF GhMerge, Go, Finalized, NoChecks, Noted, invocation, journal, money, talk, world
<1>30. CASE Complete(c)
  BY <1>30 DEF Complete, Go, Finalized, NoChecks, invocation, journal, money, talk, world
<1>31. CASE WriteEntry(c)
  BY <1>31 DEF WriteEntry, Go, WriteRun, NoItem, invocation, journal, money, talk, world
<1>32. CASE OutcomeRow(c)
  BY <1>32 DEF OutcomeRow, Go, AddRow, EndSession, invocation, journal, money, talk, world
<1> QED BY <1>1, <1>2, <1>3, <1>4, <1>5, <1>6, <1>7, <1>8, <1>9, <1>10, <1>11, <1>12, <1>13, <1>14, <1>15, <1>16, <1>17, <1>18, <1>19, <1>20, <1>21, <1>22, <1>23, <1>24, <1>25, <1>26, <1>27, <1>28, <1>29, <1>30, <1>31, <1>32 DEF Worker

LEMMA WorkerBuildOK ==
  ASSUME NEW c \in Card, InvocationTypes, build \in [Card -> BuildRec], BuildOK(c), Worker(c)
  PROVE  BuildOK(c)'
<1> USE DEF BuildOK, InvocationTypes, BuildRec, NoBuild, Early, Passing, Outcomes, GhostRec, TwinGatePassed
<1>1. CASE StopItem(c)
  BY <1>1 DEF StopItem, Go, AddRow, invocation, journal, money, talk, world
<1>2. CASE StartItem(c)
  BY <1>2 DEF StartItem, Go, RegisterSession, invocation, journal, money, talk, world
<1>3. CASE Claim(c)
  BY <1>3 DEF Claim, Go, Read, invocation, journal, money, talk, world
<1>4. CASE ClaimRaced(c)
  BY <1>4 DEF ClaimRaced, Go, WriteRun, NoItem, invocation, journal, money, talk, world
<1>5. CASE RecordClaim(c)
  BY <1>5 DEF RecordClaim, Go, Mutate, Drop, NoJournal, NoItem, invocation, journal, money, talk, world
<1>6. CASE MakeWorktree(c)
  BY <1>6 DEF MakeWorktree, Go, Read, invocation, journal, money, talk, world
<1>7. CASE SetWorktree(c)
  BY <1>7 DEF SetWorktree, Go, Mutate, Drop, NoJournal, NoItem, invocation, journal, money, talk, world
<1>8. CASE EmptyRound(c)
  BY <1>8 DEF EmptyRound, Go, Used, Failed, invocation, journal, money, talk, world
<1>9. CASE RoundsSpent(c)
  BY <1>9 DEF RoundsSpent, Go, Read, Failed, invocation, journal, money, talk, world
<1>10. CASE RunRaises(c)
  BY <1>10 DEF RunRaises, Go, Drop, NoJournal, NoItem, Noted, invocation, journal, money, talk, world
<1>11. ASSUME NEW w \in RoundWorlds, GradedRound(c, w) PROVE BuildOK(c)'
  BY <1>11 DEF GradedRound, Go, Read, Used, invocation, journal, money, talk, world
<1>12. ASSUME NEW sent \in Sends, NEW created \in BOOLEAN, SalvageToReview(c, sent, created) PROVE BuildOK(c)'
  BY <1>12 DEF SalvageToReview, Go, Read, Pushed, Opened, NoPr, Noted, invocation, journal, money, talk, world
<1>13. ASSUME NEW ok \in BOOLEAN, DirectRound(c, ok) PROVE BuildOK(c)'
  BY <1>13 DEF DirectRound, Go, Used, Failed, invocation, journal, money, talk, world
<1>14. CASE WriteRunRecord(c)
  BY <1>14 DEF WriteRunRecord, Go, Mutate, Drop, NoJournal, NoItem, invocation, journal, money, talk, world
<1>15. CASE Account(c)
  BY <1>15 DEF Account, Go, invocation, journal, money, talk, world
<1>16. CASE Escalate(c)
  BY <1>16 DEF Escalate, Go, invocation, journal, money, talk, world
<1>17. CASE Finalize(c)
  BY <1>17 DEF Finalize, Go, invocation, journal, money, talk, world
<1>18. CASE FinalizeMissing(c)
  BY <1>18 DEF FinalizeMissing, Go, FinalizeFailed, invocation, journal, money, talk, world
<1>19. CASE FinalizeRaises(c)
  BY <1>19 DEF FinalizeRaises, Go, Lost, Noted, invocation, journal, money, talk, world
<1>20. ASSUME NEW ok \in BOOLEAN, RecordSuccess(c, ok) PROVE BuildOK(c)'
  BY <1>20 DEF RecordSuccess, Go, Succeeded, Lost, Noted, invocation, journal, money, talk, world
<1>21. ASSUME NEW ok \in BOOLEAN, ClearAttempts(c, ok) PROVE BuildOK(c)'
  BY <1>21 DEF ClearAttempts, Go, Read, Noted, invocation, journal, money, talk, world
<1>22. ASSUME NEW ok \in BOOLEAN, ArchiveAttempts(c, ok) PROVE BuildOK(c)'
  BY <1>22 DEF ArchiveAttempts, Go, Mutate, Drop, NoJournal, NoItem, Noted, invocation, journal, money, talk, world
<1>23. ASSUME NEW sent \in Sends, NEW guarded \in BOOLEAN, CommitAndPush(c, sent, guarded) PROVE BuildOK(c)'
  BY <1>23 DEF CommitAndPush, Go, Pushed, Lost, Noted, invocation, journal, money, talk, world
<1>24. ASSUME NEW sees \in BOOLEAN, NEW recorded \in BOOLEAN, Settle(c, sees, recorded) PROVE BuildOK(c)'
  BY <1>24 DEF Settle, AfterSettlement, Go, Noted, invocation, journal, money, talk, world
<1>25. ASSUME NEW ok \in BOOLEAN, RecordSettlement(c, ok) PROVE BuildOK(c)'
  BY <1>25 DEF RecordSettlement, AfterSettlement, Go, Noted, invocation, journal, money, talk, world
<1>26. ASSUME NEW ok \in BOOLEAN, OpenPr(c, ok) PROVE BuildOK(c)'
  BY <1>26 DEF OpenPr, Go, Opened, NoPr, Noted, invocation, journal, money, talk, world
<1>27. ASSUME NEW read \in BOOLEAN, NEW k \in Checks, HoldForReview(c, read, k) PROVE BuildOK(c)'
  BY <1>27 DEF HoldForReview, Go, Finalized, NoChecks, Noted, invocation, journal, money, talk, world
<1>28. ASSUME NEW read \in BOOLEAN, NEW k \in Checks, PruneForMerge(c, read, k) PROVE BuildOK(c)'
  BY <1>28 DEF PruneForMerge, Go, Lost, Noted, invocation, journal, money, talk, world
<1>29. ASSUME NEW q \in Policies, NEW landed \in BOOLEAN, NEW reported \in BOOLEAN, GhMerge(c, q, landed, reported) PROVE BuildOK(c)'
  <2>1. step[c] = "ghMerge" /\ ghost'.gated = ghost.gated
    BY <1>29 DEF GhMerge, Noted
  <2>2. CASE reported
    <3>1. build' = build /\ step'[c] = "complete"
      BY <1>29, <2>2 DEF GhMerge, Go
    <3> QED BY <2>1, <3>1
  <2>3. CASE ~reported
    <3>1. build' = [build EXCEPT ![c] = [build[c] EXCEPT !.entry = "finalized", !.checks = NoChecks]] /\ step'[c] = "entry"
      BY <1>29, <2>3 DEF GhMerge, Go, Finalized
    <3> QED BY <2>1, <3>1
  <2> QED BY <2>2, <2>3
<1>30. CASE Complete(c)
  BY <1>30 DEF Complete, Go, Finalized, NoChecks, invocation, journal, money, talk, world
<1>31. CASE WriteEntry(c)
  BY <1>31 DEF WriteEntry, Go, WriteRun, NoItem, invocation, journal, money, talk, world
<1>32. CASE OutcomeRow(c)
  BY <1>32 DEF OutcomeRow, Go, AddRow, EndSession, invocation, journal, money, talk, world
<1> HIDE DEF BuildOK, InvocationTypes, BuildRec, NoBuild, Early, Passing, Outcomes, GhostRec, TwinGatePassed
<1> QED BY <1>1, <1>2, <1>3, <1>4, <1>5, <1>6, <1>7, <1>8, <1>9, <1>10, <1>11, <1>12, <1>13, <1>14, <1>15, <1>16, <1>17, <1>18, <1>19, <1>20, <1>21, <1>22, <1>23, <1>24, <1>25, <1>26, <1>27, <1>28, <1>29, <1>30, <1>31, <1>32 DEF Worker

LEMMA WorkerHeldOK ==
  ASSUME NEW c \in Card, InvocationTypes, WorldTypes, HeldOK(c), Worker(c)
  PROVE  HeldOK(c)'
<1> USE DEF HeldOK, InvocationTypes, WorldTypes, BoardRec, WorkRec, WithTree, Building, Busy, Steps, Self, Pushed
<1>1. CASE StopItem(c)
  BY <1>1 DEF StopItem, Go, AddRow, invocation, journal, money, talk, world
<1>2. CASE StartItem(c)
  BY <1>2 DEF StartItem, Go, RegisterSession, invocation, journal, money, talk, world
<1>3. CASE Claim(c)
  BY <1>3 DEF Claim, Go, Read, invocation, journal, money, talk, world
<1>4. CASE ClaimRaced(c)
  BY <1>4 DEF ClaimRaced, Go, WriteRun, NoItem, invocation, journal, money, talk, world
<1>5. CASE RecordClaim(c)
  BY <1>5 DEF RecordClaim, Go, Mutate, Drop, NoJournal, NoItem, invocation, journal, money, talk, world
<1>6. CASE MakeWorktree(c)
  <2>1. board[c].holder = Self
    BY <1>6 DEF MakeWorktree
  <2>2. step'[c] = "died" \/ work' = [work EXCEPT ![c] = [NoWork EXCEPT !.tree = TRUE, !.remote = work[c].remote]]
    BY <1>6 DEF MakeWorktree, Go
  <2>3. [NoWork EXCEPT !.tree = TRUE, !.remote = work[c].remote].tree
    BY DEF NoWork
  <2>4. step'[c] = "died" \/ work'[c].tree
    BY <2>2, <2>3
  <2>5. step'[c] \in {"setWorktree", "died"} /\ board' = board
    BY <1>6 DEF MakeWorktree, Go
  <2> QED BY <1>6, <2>1, <2>2, <2>3, <2>4, <2>5 DEF MakeWorktree, Go, Read, invocation, journal, money, talk, world
<1>7. CASE SetWorktree(c)
  BY <1>7 DEF SetWorktree, Go, Mutate, Drop, NoJournal, NoItem, invocation, journal, money, talk, world
<1>8. CASE EmptyRound(c)
  BY <1>8 DEF EmptyRound, Go, Used, Failed, invocation, journal, money, talk, world
<1>9. CASE RoundsSpent(c)
  BY <1>9 DEF RoundsSpent, Go, Read, Failed, invocation, journal, money, talk, world
<1>10. CASE RunRaises(c)
  BY <1>10 DEF RunRaises, Go, Drop, NoJournal, NoItem, Noted, invocation, journal, money, talk, world
<1>11. ASSUME NEW w \in RoundWorlds, GradedRound(c, w) PROVE HeldOK(c)'
  BY <1>11 DEF GradedRound, Go, Read, Used, invocation, journal, money, talk, world
<1>12. ASSUME NEW sent \in Sends, NEW created \in BOOLEAN, SalvageToReview(c, sent, created) PROVE HeldOK(c)'
  BY <1>12 DEF SalvageToReview, Go, Read, Pushed, Opened, NoPr, Noted, invocation, journal, money, talk, world
<1>13. ASSUME NEW ok \in BOOLEAN, DirectRound(c, ok) PROVE HeldOK(c)'
  BY <1>13 DEF DirectRound, Go, Used, Failed, invocation, journal, money, talk, world
<1>14. CASE WriteRunRecord(c)
  BY <1>14 DEF WriteRunRecord, Go, Mutate, Drop, NoJournal, NoItem, invocation, journal, money, talk, world
<1>15. CASE Account(c)
  BY <1>15 DEF Account, Go, invocation, journal, money, talk, world
<1>16. CASE Escalate(c)
  BY <1>16 DEF Escalate, Go, invocation, journal, money, talk, world
<1>17. CASE Finalize(c)
  BY <1>17 DEF Finalize, Go, invocation, journal, money, talk, world
<1>18. CASE FinalizeMissing(c)
  BY <1>18 DEF FinalizeMissing, Go, FinalizeFailed, invocation, journal, money, talk, world
<1>19. CASE FinalizeRaises(c)
  BY <1>19 DEF FinalizeRaises, Go, Lost, Noted, invocation, journal, money, talk, world
<1>20. ASSUME NEW ok \in BOOLEAN, RecordSuccess(c, ok) PROVE HeldOK(c)'
  BY <1>20 DEF RecordSuccess, Go, Succeeded, Lost, Noted, invocation, journal, money, talk, world
<1>21. ASSUME NEW ok \in BOOLEAN, ClearAttempts(c, ok) PROVE HeldOK(c)'
  BY <1>21 DEF ClearAttempts, Go, Read, Noted, invocation, journal, money, talk, world
<1>22. ASSUME NEW ok \in BOOLEAN, ArchiveAttempts(c, ok) PROVE HeldOK(c)'
  BY <1>22 DEF ArchiveAttempts, Go, Mutate, Drop, NoJournal, NoItem, Noted, invocation, journal, money, talk, world
<1>23. ASSUME NEW sent \in Sends, NEW guarded \in BOOLEAN, CommitAndPush(c, sent, guarded) PROVE HeldOK(c)'
  BY <1>23 DEF CommitAndPush, Go, Pushed, Lost, Noted, invocation, journal, money, talk, world
<1>24. ASSUME NEW sees \in BOOLEAN, NEW recorded \in BOOLEAN, Settle(c, sees, recorded) PROVE HeldOK(c)'
  BY <1>24 DEF Settle, AfterSettlement, Go, Noted, invocation, journal, money, talk, world
<1>25. ASSUME NEW ok \in BOOLEAN, RecordSettlement(c, ok) PROVE HeldOK(c)'
  BY <1>25 DEF RecordSettlement, AfterSettlement, Go, Noted, invocation, journal, money, talk, world
<1>26. ASSUME NEW ok \in BOOLEAN, OpenPr(c, ok) PROVE HeldOK(c)'
  BY <1>26 DEF OpenPr, Go, Opened, NoPr, Noted, invocation, journal, money, talk, world
<1>27. ASSUME NEW read \in BOOLEAN, NEW k \in Checks, HoldForReview(c, read, k) PROVE HeldOK(c)'
  BY <1>27 DEF HoldForReview, Go, Finalized, NoChecks, Noted, invocation, journal, money, talk, world
<1>28. ASSUME NEW read \in BOOLEAN, NEW k \in Checks, PruneForMerge(c, read, k) PROVE HeldOK(c)'
  BY <1>28 DEF PruneForMerge, Go, Lost, Noted, invocation, journal, money, talk, world
<1>29. ASSUME NEW q \in Policies, NEW landed \in BOOLEAN, NEW reported \in BOOLEAN, GhMerge(c, q, landed, reported) PROVE HeldOK(c)'
  BY <1>29 DEF GhMerge, Go, Finalized, NoChecks, Noted, invocation, journal, money, talk, world
<1>30. CASE Complete(c)
  BY <1>30 DEF Complete, Go, Finalized, NoChecks, invocation, journal, money, talk, world
<1>31. CASE WriteEntry(c)
  BY <1>31 DEF WriteEntry, Go, WriteRun, NoItem, invocation, journal, money, talk, world
<1>32. CASE OutcomeRow(c)
  BY <1>32 DEF OutcomeRow, Go, AddRow, EndSession, invocation, journal, money, talk, world
<1> QED BY <1>1, <1>2, <1>3, <1>4, <1>5, <1>6, <1>7, <1>8, <1>9, <1>10, <1>11, <1>12, <1>13, <1>14, <1>15, <1>16, <1>17, <1>18, <1>19, <1>20, <1>21, <1>22, <1>23, <1>24, <1>25, <1>26, <1>27, <1>28, <1>29, <1>30, <1>31, <1>32 DEF Worker

LEMMA WorkerKeptOK ==
  ASSUME NEW c \in Card, InvocationTypes, build \in [Card -> BuildRec], WorldTypes, BuildOK(c), HeldOK(c), KeptOK(c), GateOK(c), SoloOK, Worker(c)
  PROVE  KeptOK(c)'
<1> USE DEF KeptOK, Safe, InvocationTypes, WorldTypes, BuildOK, NoBuild, Early, HeldOK, SoloOK, BoardRec, BuildRec, WorkRec, WithTree, Passing, Sent, Recorded, Pushed, Opened, HasTree, GhostRec
<1>1. CASE StopItem(c)
  BY <1>1 DEF StopItem, Go, AddRow, invocation, journal, money, talk, world
<1>2. CASE StartItem(c)
  BY <1>2 DEF StartItem, Go, RegisterSession, invocation, journal, money, talk, world
<1>3. CASE Claim(c)
  BY <1>3 DEF Claim, Go, Read, invocation, journal, money, talk, world
<1>4. CASE ClaimRaced(c)
  BY <1>4 DEF ClaimRaced, Go, WriteRun, NoItem, invocation, journal, money, talk, world
<1>5. CASE RecordClaim(c)
  BY <1>5 DEF RecordClaim, Go, Mutate, Drop, NoJournal, NoItem, invocation, journal, money, talk, world
<1>6. CASE MakeWorktree(c)
  BY <1>6 DEF MakeWorktree, Go, Read, invocation, journal, money, talk, world
<1>7. CASE SetWorktree(c)
  BY <1>7 DEF SetWorktree, Go, Mutate, Drop, NoJournal, NoItem, invocation, journal, money, talk, world
<1>8. CASE EmptyRound(c)
  BY <1>8 DEF EmptyRound, Go, Used, Failed, invocation, journal, money, talk, world
<1>9. CASE RoundsSpent(c)
  BY <1>9 DEF RoundsSpent, Go, Read, Failed, invocation, journal, money, talk, world
<1>10. CASE RunRaises(c)
  BY <1>10 DEF RunRaises, Go, Drop, NoJournal, NoItem, Noted, invocation, journal, money, talk, world
<1>11. ASSUME NEW w \in RoundWorlds, GradedRound(c, w) PROVE KeptOK(c)'
  BY <1>11 DEF GradedRound, Go, Read, Used, invocation, journal, money, talk, world
<1>12. ASSUME NEW sent \in Sends, NEW created \in BOOLEAN, SalvageToReview(c, sent, created) PROVE KeptOK(c)'
  BY <1>12 DEF SalvageToReview, Go, Read, Pushed, Opened, NoPr, Noted, invocation, journal, money, talk, world
<1>13. ASSUME NEW ok \in BOOLEAN, DirectRound(c, ok) PROVE KeptOK(c)'
  BY <1>13 DEF DirectRound, Go, Used, Failed, invocation, journal, money, talk, world
<1>14. CASE WriteRunRecord(c)
  BY <1>14 DEF WriteRunRecord, Go, Mutate, Drop, NoJournal, NoItem, invocation, journal, money, talk, world
<1>15. CASE Account(c)
  BY <1>15 DEF Account, Go, invocation, journal, money, talk, world
<1>16. CASE Escalate(c)
  BY <1>16 DEF Escalate, Go, invocation, journal, money, talk, world
<1>17. CASE Finalize(c)
  BY <1>17 DEF Finalize, Go, invocation, journal, money, talk, world
<1>18. CASE FinalizeMissing(c)
  BY <1>18 DEF FinalizeMissing, Go, FinalizeFailed, invocation, journal, money, talk, world
<1>19. CASE FinalizeRaises(c)
  BY <1>19 DEF FinalizeRaises, Go, Lost, Noted, invocation, journal, money, talk, world
<1>20. ASSUME NEW ok \in BOOLEAN, RecordSuccess(c, ok) PROVE KeptOK(c)'
  BY <1>20 DEF RecordSuccess, Go, Succeeded, Lost, Noted, invocation, journal, money, talk, world
<1>21. ASSUME NEW ok \in BOOLEAN, ClearAttempts(c, ok) PROVE KeptOK(c)'
  BY <1>21 DEF ClearAttempts, Go, Read, Noted, invocation, journal, money, talk, world
<1>22. ASSUME NEW ok \in BOOLEAN, ArchiveAttempts(c, ok) PROVE KeptOK(c)'
  BY <1>22 DEF ArchiveAttempts, Go, Mutate, Drop, NoJournal, NoItem, Noted, invocation, journal, money, talk, world
<1>23. ASSUME NEW sent \in Sends, NEW guarded \in BOOLEAN, CommitAndPush(c, sent, guarded) PROVE KeptOK(c)'
  BY <1>23 DEF CommitAndPush, Go, Pushed, Lost, Noted, invocation, journal, money, talk, world
<1>24. ASSUME NEW sees \in BOOLEAN, NEW recorded \in BOOLEAN, Settle(c, sees, recorded) PROVE KeptOK(c)'
  BY <1>24 DEF Settle, AfterSettlement, Go, Noted, invocation, journal, money, talk, world
<1>25. ASSUME NEW ok \in BOOLEAN, RecordSettlement(c, ok) PROVE KeptOK(c)'
  BY <1>25 DEF RecordSettlement, AfterSettlement, Go, Noted, invocation, journal, money, talk, world
<1>26. ASSUME NEW ok \in BOOLEAN, OpenPr(c, ok) PROVE KeptOK(c)'
  BY <1>26 DEF OpenPr, Go, Opened, NoPr, Noted, invocation, journal, money, talk, world
<1>27. ASSUME NEW read \in BOOLEAN, NEW k \in Checks, HoldForReview(c, read, k) PROVE KeptOK(c)'
  BY <1>27 DEF HoldForReview, Go, Finalized, NoChecks, Noted, invocation, journal, money, talk, world
<1>28. ASSUME NEW read \in BOOLEAN, NEW k \in Checks, PruneForMerge(c, read, k) PROVE KeptOK(c)'
  BY <1>28 DEF PruneForMerge, Go, Lost, Noted, invocation, journal, money, talk, world
<1>29. ASSUME NEW q \in Policies, NEW landed \in BOOLEAN, NEW reported \in BOOLEAN, GhMerge(c, q, landed, reported) PROVE KeptOK(c)'
  <2>1. step[c] = "ghMerge" /\ pr[c].status \in {"open", "merged"}
    BY <1>29 DEF GhMerge, GateOK, PrRec
  <2>2. build'[c].result = build[c].result /\ build'[c].lost = build[c].lost
    <3>1. CASE reported
      BY <1>29, <3>1 DEF GhMerge
    <3>2. CASE ~reported
      <4>1. build' = [build EXCEPT ![c] = [build[c] EXCEPT !.entry = "finalized", !.checks = NoChecks]]
        BY <1>29, <3>2 DEF GhMerge, Finalized
      <4>2. build'[c] = [build[c] EXCEPT !.entry = "finalized", !.checks = NoChecks]
        BY <4>1
      <4> QED BY <4>2
    <3> QED BY <3>1, <3>2
  <2>3. landed => pr'[c].status = "merged"
    BY <1>29, <2>1 DEF GhMerge
  <2>4. ~landed => pr'[c].status = pr[c].status /\ work'[c].remote = work[c].remote
    BY <1>29 DEF GhMerge
  <2>5. work'[c].pushed = work[c].pushed
    BY <1>29 DEF GhMerge
  <2>6. Origin /\ build[c].result = "pass" => Safe(c)
    BY <2>1
  <2>7. Origin /\ build'[c].result = "pass" => Safe(c)'
    BY <2>2, <2>3, <2>4, <2>5, <2>6
  <2>8. step'[c] \in {"complete", "entry"}
    BY <1>29 DEF GhMerge, Go, Finalized
  <2> QED BY <2>7, <2>8
<1>30. CASE Complete(c)
  BY <1>30 DEF Complete, Go, Finalized, NoChecks, invocation, journal, money, talk, world
<1>31. CASE WriteEntry(c)
  BY <1>31 DEF WriteEntry, Go, WriteRun, NoItem, invocation, journal, money, talk, world
<1>32. CASE OutcomeRow(c)
  BY <1>32 DEF OutcomeRow, Go, AddRow, EndSession, invocation, journal, money, talk, world
<1> QED BY <1>1, <1>2, <1>3, <1>4, <1>5, <1>6, <1>7, <1>8, <1>9, <1>10, <1>11, <1>12, <1>13, <1>14, <1>15, <1>16, <1>17, <1>18, <1>19, <1>20, <1>21, <1>22, <1>23, <1>24, <1>25, <1>26, <1>27, <1>28, <1>29, <1>30, <1>31, <1>32 DEF Worker

LEMMA WorkerMintOK ==
  ASSUME NEW c \in Card, InvocationTypes, MintOK(c), Worker(c)
  PROVE  MintOK(c)'
<1> USE DEF MintOK, InvocationTypes, GhostRec, Steps
<1>1. CASE StopItem(c)
  BY <1>1 DEF StopItem, Go, AddRow, invocation, journal, money, talk, world
<1>2. CASE StartItem(c)
  BY <1>2 DEF StartItem, Go, RegisterSession, invocation, journal, money, talk, world
<1>3. CASE Claim(c)
  BY <1>3 DEF Claim, Go, Read, invocation, journal, money, talk, world
<1>4. CASE ClaimRaced(c)
  BY <1>4 DEF ClaimRaced, Go, WriteRun, NoItem, invocation, journal, money, talk, world
<1>5. CASE RecordClaim(c)
  BY <1>5 DEF RecordClaim, Go, Mutate, Drop, NoJournal, NoItem, invocation, journal, money, talk, world
<1>6. CASE MakeWorktree(c)
  BY <1>6 DEF MakeWorktree, Go, Read, invocation, journal, money, talk, world
<1>7. CASE SetWorktree(c)
  BY <1>7 DEF SetWorktree, Go, Mutate, Drop, NoJournal, NoItem, invocation, journal, money, talk, world
<1>8. CASE EmptyRound(c)
  BY <1>8 DEF EmptyRound, Go, Used, Failed, invocation, journal, money, talk, world
<1>9. CASE RoundsSpent(c)
  BY <1>9 DEF RoundsSpent, Go, Read, Failed, invocation, journal, money, talk, world
<1>10. CASE RunRaises(c)
  BY <1>10 DEF RunRaises, Go, Drop, NoJournal, NoItem, Noted, invocation, journal, money, talk, world
<1>11. ASSUME NEW w \in RoundWorlds, GradedRound(c, w) PROVE MintOK(c)'
  BY <1>11 DEF GradedRound, Go, Read, Used, invocation, journal, money, talk, world
<1>12. ASSUME NEW sent \in Sends, NEW created \in BOOLEAN, SalvageToReview(c, sent, created) PROVE MintOK(c)'
  BY <1>12 DEF SalvageToReview, Go, Read, Pushed, Opened, NoPr, Noted, invocation, journal, money, talk, world
<1>13. ASSUME NEW ok \in BOOLEAN, DirectRound(c, ok) PROVE MintOK(c)'
  BY <1>13 DEF DirectRound, Go, Used, Failed, invocation, journal, money, talk, world
<1>14. CASE WriteRunRecord(c)
  BY <1>14 DEF WriteRunRecord, Go, Mutate, Drop, NoJournal, NoItem, invocation, journal, money, talk, world
<1>15. CASE Account(c)
  BY <1>15 DEF Account, Go, invocation, journal, money, talk, world
<1>16. CASE Escalate(c)
  BY <1>16 DEF Escalate, Go, invocation, journal, money, talk, world
<1>17. CASE Finalize(c)
  BY <1>17 DEF Finalize, Go, invocation, journal, money, talk, world
<1>18. CASE FinalizeMissing(c)
  BY <1>18 DEF FinalizeMissing, Go, FinalizeFailed, invocation, journal, money, talk, world
<1>19. CASE FinalizeRaises(c)
  BY <1>19 DEF FinalizeRaises, Go, Lost, Noted, invocation, journal, money, talk, world
<1>20. ASSUME NEW ok \in BOOLEAN, RecordSuccess(c, ok) PROVE MintOK(c)'
  BY <1>20 DEF RecordSuccess, Go, Succeeded, Lost, Noted, invocation, journal, money, talk, world
<1>21. ASSUME NEW ok \in BOOLEAN, ClearAttempts(c, ok) PROVE MintOK(c)'
  BY <1>21 DEF ClearAttempts, Go, Read, Noted, invocation, journal, money, talk, world
<1>22. ASSUME NEW ok \in BOOLEAN, ArchiveAttempts(c, ok) PROVE MintOK(c)'
  BY <1>22 DEF ArchiveAttempts, Go, Mutate, Drop, NoJournal, NoItem, Noted, invocation, journal, money, talk, world
<1>23. ASSUME NEW sent \in Sends, NEW guarded \in BOOLEAN, CommitAndPush(c, sent, guarded) PROVE MintOK(c)'
  BY <1>23 DEF CommitAndPush, Go, Pushed, Lost, Noted, invocation, journal, money, talk, world
<1>24. ASSUME NEW sees \in BOOLEAN, NEW recorded \in BOOLEAN, Settle(c, sees, recorded) PROVE MintOK(c)'
  BY <1>24 DEF Settle, AfterSettlement, Go, Noted, invocation, journal, money, talk, world
<1>25. ASSUME NEW ok \in BOOLEAN, RecordSettlement(c, ok) PROVE MintOK(c)'
  BY <1>25 DEF RecordSettlement, AfterSettlement, Go, Noted, invocation, journal, money, talk, world
<1>26. ASSUME NEW ok \in BOOLEAN, OpenPr(c, ok) PROVE MintOK(c)'
  BY <1>26 DEF OpenPr, Go, Opened, NoPr, Noted, invocation, journal, money, talk, world
<1>27. ASSUME NEW read \in BOOLEAN, NEW k \in Checks, HoldForReview(c, read, k) PROVE MintOK(c)'
  BY <1>27 DEF HoldForReview, Go, Finalized, NoChecks, Noted, invocation, journal, money, talk, world
<1>28. ASSUME NEW read \in BOOLEAN, NEW k \in Checks, PruneForMerge(c, read, k) PROVE MintOK(c)'
  BY <1>28 DEF PruneForMerge, Go, Lost, Noted, invocation, journal, money, talk, world
<1>29. ASSUME NEW q \in Policies, NEW landed \in BOOLEAN, NEW reported \in BOOLEAN, GhMerge(c, q, landed, reported) PROVE MintOK(c)'
  BY <1>29 DEF GhMerge, Go, Finalized, NoChecks, Noted, invocation, journal, money, talk, world
<1>30. CASE Complete(c)
  BY <1>30 DEF Complete, Go, Finalized, NoChecks, invocation, journal, money, talk, world
<1>31. CASE WriteEntry(c)
  BY <1>31 DEF WriteEntry, Go, WriteRun, NoItem, invocation, journal, money, talk, world
<1>32. CASE OutcomeRow(c)
  BY <1>32 DEF OutcomeRow, Go, AddRow, EndSession, invocation, journal, money, talk, world
<1> QED BY <1>1, <1>2, <1>3, <1>4, <1>5, <1>6, <1>7, <1>8, <1>9, <1>10, <1>11, <1>12, <1>13, <1>14, <1>15, <1>16, <1>17, <1>18, <1>19, <1>20, <1>21, <1>22, <1>23, <1>24, <1>25, <1>26, <1>27, <1>28, <1>29, <1>30, <1>31, <1>32 DEF Worker

LEMMA WorkerRowOK ==
  ASSUME NEW c \in Card, InvocationTypes, RecordTypes, WorldTypes, BuildOK(c), PhaseOK(c), RowOK(c), Worker(c)
  PROVE  RowOK(c)'
<1> USE DEF RowOK, Told, InvocationTypes, RecordTypes, WorldTypes, JournalTypes, Journal, BuildOK, PhaseOK, BuildRec, BoardRec, Outcomes, Passing, Early, NoBuild
<1>1. CASE StopItem(c)
  BY <1>1 DEF StopItem, Go, AddRow, invocation, journal, money, talk, world
<1>2. CASE StartItem(c)
  BY <1>2 DEF StartItem, Go, RegisterSession, invocation, journal, money, talk, world
<1>3. CASE Claim(c)
  BY <1>3 DEF Claim, Go, Read, invocation, journal, money, talk, world
<1>4. CASE ClaimRaced(c)
  BY <1>4 DEF ClaimRaced, Go, WriteRun, NoItem, invocation, journal, money, talk, world
<1>5. CASE RecordClaim(c)
  BY <1>5 DEF RecordClaim, Go, Mutate, Drop, NoJournal, NoItem, invocation, journal, money, talk, world
<1>6. CASE MakeWorktree(c)
  BY <1>6 DEF MakeWorktree, Go, Read, invocation, journal, money, talk, world
<1>7. CASE SetWorktree(c)
  BY <1>7 DEF SetWorktree, Go, Mutate, Drop, NoJournal, NoItem, invocation, journal, money, talk, world
<1>8. CASE EmptyRound(c)
  BY <1>8 DEF EmptyRound, Go, Used, Failed, invocation, journal, money, talk, world
<1>9. CASE RoundsSpent(c)
  BY <1>9 DEF RoundsSpent, Go, Read, Failed, invocation, journal, money, talk, world
<1>10. CASE RunRaises(c)
  BY <1>10 DEF RunRaises, Go, Drop, NoJournal, NoItem, Noted, invocation, journal, money, talk, world
<1>11. ASSUME NEW w \in RoundWorlds, GradedRound(c, w) PROVE RowOK(c)'
  BY <1>11 DEF GradedRound, Go, Read, Used, invocation, journal, money, talk, world
<1>12. ASSUME NEW sent \in Sends, NEW created \in BOOLEAN, SalvageToReview(c, sent, created) PROVE RowOK(c)'
  BY <1>12 DEF SalvageToReview, Go, Read, Pushed, Opened, NoPr, Noted, invocation, journal, money, talk, world
<1>13. ASSUME NEW ok \in BOOLEAN, DirectRound(c, ok) PROVE RowOK(c)'
  BY <1>13 DEF DirectRound, Go, Used, Failed, invocation, journal, money, talk, world
<1>14. CASE WriteRunRecord(c)
  BY <1>14 DEF WriteRunRecord, Go, Mutate, Drop, NoJournal, NoItem, invocation, journal, money, talk, world
<1>15. CASE Account(c)
  BY <1>15 DEF Account, Go, invocation, journal, money, talk, world
<1>16. CASE Escalate(c)
  BY <1>16 DEF Escalate, Go, invocation, journal, money, talk, world
<1>17. CASE Finalize(c)
  BY <1>17 DEF Finalize, Go, invocation, journal, money, talk, world
<1>18. CASE FinalizeMissing(c)
  BY <1>18 DEF FinalizeMissing, Go, FinalizeFailed, invocation, journal, money, talk, world
<1>19. CASE FinalizeRaises(c)
  BY <1>19 DEF FinalizeRaises, Go, Lost, Noted, invocation, journal, money, talk, world
<1>20. ASSUME NEW ok \in BOOLEAN, RecordSuccess(c, ok) PROVE RowOK(c)'
  BY <1>20 DEF RecordSuccess, Go, Succeeded, Lost, Noted, invocation, journal, money, talk, world
<1>21. ASSUME NEW ok \in BOOLEAN, ClearAttempts(c, ok) PROVE RowOK(c)'
  BY <1>21 DEF ClearAttempts, Go, Read, Noted, invocation, journal, money, talk, world
<1>22. ASSUME NEW ok \in BOOLEAN, ArchiveAttempts(c, ok) PROVE RowOK(c)'
  BY <1>22 DEF ArchiveAttempts, Go, Mutate, Drop, NoJournal, NoItem, Noted, invocation, journal, money, talk, world
<1>23. ASSUME NEW sent \in Sends, NEW guarded \in BOOLEAN, CommitAndPush(c, sent, guarded) PROVE RowOK(c)'
  BY <1>23 DEF CommitAndPush, Go, Pushed, Lost, Noted, invocation, journal, money, talk, world
<1>24. ASSUME NEW sees \in BOOLEAN, NEW recorded \in BOOLEAN, Settle(c, sees, recorded) PROVE RowOK(c)'
  BY <1>24 DEF Settle, AfterSettlement, Go, Noted, invocation, journal, money, talk, world
<1>25. ASSUME NEW ok \in BOOLEAN, RecordSettlement(c, ok) PROVE RowOK(c)'
  BY <1>25 DEF RecordSettlement, AfterSettlement, Go, Noted, invocation, journal, money, talk, world
<1>26. ASSUME NEW ok \in BOOLEAN, OpenPr(c, ok) PROVE RowOK(c)'
  BY <1>26 DEF OpenPr, Go, Opened, NoPr, Noted, invocation, journal, money, talk, world
<1>27. ASSUME NEW read \in BOOLEAN, NEW k \in Checks, HoldForReview(c, read, k) PROVE RowOK(c)'
  BY <1>27 DEF HoldForReview, Go, Finalized, NoChecks, Noted, invocation, journal, money, talk, world
<1>28. ASSUME NEW read \in BOOLEAN, NEW k \in Checks, PruneForMerge(c, read, k) PROVE RowOK(c)'
  BY <1>28 DEF PruneForMerge, Go, Lost, Noted, invocation, journal, money, talk, world
<1>29. ASSUME NEW q \in Policies, NEW landed \in BOOLEAN, NEW reported \in BOOLEAN, GhMerge(c, q, landed, reported) PROVE RowOK(c)'
  <2>1. /\ step[c] = "ghMerge" /\ board' = board /\ pending' = pending /\ rows' = rows /\ phase' = phase
        /\ scope' = scope
    BY <1>29 DEF GhMerge, invocation
  <2>2. CASE reported
    <3>1. build' = build /\ step'[c] = "complete"
      BY <1>29, <2>2 DEF GhMerge, Go
    <3> QED BY <2>1, <3>1
  <2>3. CASE ~reported
    <3>1. build' = [build EXCEPT ![c] = [build[c] EXCEPT !.entry = "finalized", !.checks = NoChecks]]
      BY <1>29, <2>3 DEF GhMerge, Finalized
    <3>2. build'[c].entry = "finalized"
      BY <3>1
    <3>3. step'[c] = "entry" /\ <<"merge", c>> \in asked'
      BY <1>29, <2>3 DEF GhMerge, Go, Finalized
    <3> QED BY <2>1, <3>2, <3>3
  <2> QED BY <2>2, <2>3
<1>30. CASE Complete(c)
  BY <1>30 DEF Complete, Go, Finalized, NoChecks, invocation, journal, money, talk, world
<1>31. CASE WriteEntry(c)
  BY <1>31 DEF WriteEntry, Go, WriteRun, NoItem, invocation, journal, money, talk, world
<1>32. CASE OutcomeRow(c)
  <2>1. step[c] = "row" /\ phase = "swarm" /\ c \in scope
    BY <1>32 DEF OutcomeRow
  <2>2. rows'[c] = <<build[c].entry>>
    BY <1>32, <2>1 DEF OutcomeRow, AddRow
  <2> QED BY <1>32, <2>1, <2>2 DEF OutcomeRow, Go, AddRow, EndSession, invocation, journal, money, talk, world
<1> HIDE DEF RowOK, Told, InvocationTypes, RecordTypes, WorldTypes, JournalTypes, Journal, BuildOK, PhaseOK, BuildRec, BoardRec, Outcomes, Passing, Early, NoBuild
<1> QED BY <1>1, <1>2, <1>3, <1>4, <1>5, <1>6, <1>7, <1>8, <1>9, <1>10, <1>11, <1>12, <1>13, <1>14, <1>15, <1>16, <1>17, <1>18, <1>19, <1>20, <1>21, <1>22, <1>23, <1>24, <1>25, <1>26, <1>27, <1>28, <1>29, <1>30, <1>31, <1>32 DEF Worker

LEMMA WorkerPace ==
  ASSUME NEW c \in Card, InvocationTypes, Worker(c), ~StartItem(c), ~Account(c)
  PROVE  spent' = spent /\ (step'[c] \in Busy => step[c] \in Busy) /\ (step'[c] \in Unpaid => step[c] \in Unpaid)
<1> USE DEF InvocationTypes, Steps, Busy, Unpaid
<1>1. CASE StopItem(c)
  BY <1>1 DEF StopItem, Go, AddRow, invocation, journal, money, talk, world
<1>2. CASE StartItem(c)
  BY <1>2 DEF StartItem, Go, RegisterSession, invocation, journal, money, talk, world
<1>3. CASE Claim(c)
  BY <1>3 DEF Claim, Go, Read, invocation, journal, money, talk, world
<1>4. CASE ClaimRaced(c)
  BY <1>4 DEF ClaimRaced, Go, WriteRun, NoItem, invocation, journal, money, talk, world
<1>5. CASE RecordClaim(c)
  BY <1>5 DEF RecordClaim, Go, Mutate, Drop, NoJournal, NoItem, invocation, journal, money, talk, world
<1>6. CASE MakeWorktree(c)
  BY <1>6 DEF MakeWorktree, Go, Read, invocation, journal, money, talk, world
<1>7. CASE SetWorktree(c)
  BY <1>7 DEF SetWorktree, Go, Mutate, Drop, NoJournal, NoItem, invocation, journal, money, talk, world
<1>8. CASE EmptyRound(c)
  BY <1>8 DEF EmptyRound, Go, Used, Failed, invocation, journal, money, talk, world
<1>9. CASE RoundsSpent(c)
  BY <1>9 DEF RoundsSpent, Go, Read, Failed, invocation, journal, money, talk, world
<1>10. CASE RunRaises(c)
  BY <1>10 DEF RunRaises, Go, Drop, NoJournal, NoItem, Noted, invocation, journal, money, talk, world
<1>11. ASSUME NEW w \in RoundWorlds, GradedRound(c, w) PROVE spent' = spent /\ (step'[c] \in Busy => step[c] \in Busy) /\ (step'[c] \in Unpaid => step[c] \in Unpaid)
  BY <1>11 DEF GradedRound, Go, Read, Used, invocation, journal, money, talk, world
<1>12. ASSUME NEW sent \in Sends, NEW created \in BOOLEAN, SalvageToReview(c, sent, created) PROVE spent' = spent /\ (step'[c] \in Busy => step[c] \in Busy) /\ (step'[c] \in Unpaid => step[c] \in Unpaid)
  BY <1>12 DEF SalvageToReview, Go, Read, Pushed, Opened, NoPr, Noted, invocation, journal, money, talk, world
<1>13. ASSUME NEW ok \in BOOLEAN, DirectRound(c, ok) PROVE spent' = spent /\ (step'[c] \in Busy => step[c] \in Busy) /\ (step'[c] \in Unpaid => step[c] \in Unpaid)
  BY <1>13 DEF DirectRound, Go, Used, Failed, invocation, journal, money, talk, world
<1>14. CASE WriteRunRecord(c)
  BY <1>14 DEF WriteRunRecord, Go, Mutate, Drop, NoJournal, NoItem, invocation, journal, money, talk, world
<1>15. CASE Account(c)
  BY <1>15 DEF Account, Go, invocation, journal, money, talk, world
<1>16. CASE Escalate(c)
  BY <1>16 DEF Escalate, Go, invocation, journal, money, talk, world
<1>17. CASE Finalize(c)
  BY <1>17 DEF Finalize, Go, invocation, journal, money, talk, world
<1>18. CASE FinalizeMissing(c)
  BY <1>18 DEF FinalizeMissing, Go, FinalizeFailed, invocation, journal, money, talk, world
<1>19. CASE FinalizeRaises(c)
  BY <1>19 DEF FinalizeRaises, Go, Lost, Noted, invocation, journal, money, talk, world
<1>20. ASSUME NEW ok \in BOOLEAN, RecordSuccess(c, ok) PROVE spent' = spent /\ (step'[c] \in Busy => step[c] \in Busy) /\ (step'[c] \in Unpaid => step[c] \in Unpaid)
  BY <1>20 DEF RecordSuccess, Go, Succeeded, Lost, Noted, invocation, journal, money, talk, world
<1>21. ASSUME NEW ok \in BOOLEAN, ClearAttempts(c, ok) PROVE spent' = spent /\ (step'[c] \in Busy => step[c] \in Busy) /\ (step'[c] \in Unpaid => step[c] \in Unpaid)
  BY <1>21 DEF ClearAttempts, Go, Read, Noted, invocation, journal, money, talk, world
<1>22. ASSUME NEW ok \in BOOLEAN, ArchiveAttempts(c, ok) PROVE spent' = spent /\ (step'[c] \in Busy => step[c] \in Busy) /\ (step'[c] \in Unpaid => step[c] \in Unpaid)
  BY <1>22 DEF ArchiveAttempts, Go, Mutate, Drop, NoJournal, NoItem, Noted, invocation, journal, money, talk, world
<1>23. ASSUME NEW sent \in Sends, NEW guarded \in BOOLEAN, CommitAndPush(c, sent, guarded) PROVE spent' = spent /\ (step'[c] \in Busy => step[c] \in Busy) /\ (step'[c] \in Unpaid => step[c] \in Unpaid)
  BY <1>23 DEF CommitAndPush, Go, Pushed, Lost, Noted, invocation, journal, money, talk, world
<1>24. ASSUME NEW sees \in BOOLEAN, NEW recorded \in BOOLEAN, Settle(c, sees, recorded) PROVE spent' = spent /\ (step'[c] \in Busy => step[c] \in Busy) /\ (step'[c] \in Unpaid => step[c] \in Unpaid)
  BY <1>24 DEF Settle, AfterSettlement, Go, Noted, invocation, journal, money, talk, world
<1>25. ASSUME NEW ok \in BOOLEAN, RecordSettlement(c, ok) PROVE spent' = spent /\ (step'[c] \in Busy => step[c] \in Busy) /\ (step'[c] \in Unpaid => step[c] \in Unpaid)
  BY <1>25 DEF RecordSettlement, AfterSettlement, Go, Noted, invocation, journal, money, talk, world
<1>26. ASSUME NEW ok \in BOOLEAN, OpenPr(c, ok) PROVE spent' = spent /\ (step'[c] \in Busy => step[c] \in Busy) /\ (step'[c] \in Unpaid => step[c] \in Unpaid)
  BY <1>26 DEF OpenPr, Go, Opened, NoPr, Noted, invocation, journal, money, talk, world
<1>27. ASSUME NEW read \in BOOLEAN, NEW k \in Checks, HoldForReview(c, read, k) PROVE spent' = spent /\ (step'[c] \in Busy => step[c] \in Busy) /\ (step'[c] \in Unpaid => step[c] \in Unpaid)
  BY <1>27 DEF HoldForReview, Go, Finalized, NoChecks, Noted, invocation, journal, money, talk, world
<1>28. ASSUME NEW read \in BOOLEAN, NEW k \in Checks, PruneForMerge(c, read, k) PROVE spent' = spent /\ (step'[c] \in Busy => step[c] \in Busy) /\ (step'[c] \in Unpaid => step[c] \in Unpaid)
  BY <1>28 DEF PruneForMerge, Go, Lost, Noted, invocation, journal, money, talk, world
<1>29. ASSUME NEW q \in Policies, NEW landed \in BOOLEAN, NEW reported \in BOOLEAN, GhMerge(c, q, landed, reported) PROVE spent' = spent /\ (step'[c] \in Busy => step[c] \in Busy) /\ (step'[c] \in Unpaid => step[c] \in Unpaid)
  BY <1>29 DEF GhMerge, Go, Finalized, NoChecks, Noted, invocation, journal, money, talk, world
<1>30. CASE Complete(c)
  BY <1>30 DEF Complete, Go, Finalized, NoChecks, invocation, journal, money, talk, world
<1>31. CASE WriteEntry(c)
  BY <1>31 DEF WriteEntry, Go, WriteRun, NoItem, invocation, journal, money, talk, world
<1>32. CASE OutcomeRow(c)
  BY <1>32 DEF OutcomeRow, Go, AddRow, EndSession, invocation, journal, money, talk, world
<1> QED BY <1>1, <1>2, <1>3, <1>4, <1>5, <1>6, <1>7, <1>8, <1>9, <1>10, <1>11, <1>12, <1>13, <1>14, <1>15, <1>16, <1>17, <1>18, <1>19, <1>20, <1>21, <1>22, <1>23, <1>24, <1>25, <1>26, <1>27, <1>28, <1>29, <1>30, <1>31, <1>32 DEF Worker

\* Workers run in the swarm phase.
LEMMA WorkerAwake ==
  ASSUME NEW c \in Card, PhaseOK(c), Worker(c)
  PROVE  phase = "swarm" /\ step[c] \notin {"none", "ended", "died"}
<1>1. step[c] \notin {"none", "ended", "died"}
  BY DEF Worker, StopItem, StartItem, Claim, ClaimRaced, RecordClaim, MakeWorktree, SetWorktree, EmptyRound,
         RoundsSpent, RunRaises, GradedRound, SalvageToReview, DirectRound, WriteRunRecord, Account, Escalate,
         Finalize, FinalizeMissing, FinalizeRaises, RecordSuccess, ClearAttempts, ArchiveAttempts, CommitAndPush,
         Settle, RecordSettlement, OpenPr, HoldForReview, PruneForMerge, GhMerge, Complete, WriteEntry, OutcomeRow
<1> QED BY <1>1 DEF PhaseOK

\* The merge was decided on what the checks and the diff showed.
LEMMA WorkerGateOK ==
  ASSUME NEW c \in Card, InvocationTypes, build \in [Card -> BuildRec], WorldTypes, GateOK(c), Worker(c)
  PROVE  GateOK(c)'
<1>1. ASSUME NEW ok \in BOOLEAN, RecordSuccess(c, ok) PROVE GateOK(c)'
  <2>1. step'[c] \in {"clear", "openPr"}
    BY <1>1 DEF RecordSuccess, Go, InvocationTypes
  <2>2. board'[c].succeeded \/ "success" \in build'[c].lost
    BY <1>1 DEF RecordSuccess, Succeeded, Lost, WorldTypes, BoardRec, BuildRec
  <2> QED BY <2>1, <2>2 DEF GateOK
<1>2. ASSUME NEW read \in BOOLEAN, NEW k \in Checks, PruneForMerge(c, read, k) PROVE GateOK(c)'
  <2>1. step'[c] = "ghMerge"
    BY <1>2 DEF PruneForMerge, Go, InvocationTypes
  <2>2. Mergeable(c, read, k) /\ pr' = pr
    BY <1>2 DEF PruneForMerge
  <2>3. build'[c].checks = k
    BY <1>2 DEF PruneForMerge, Lost, BuildRec
  <2>4. ~read => "diff" \in build'[c].lost
    BY <1>2 DEF PruneForMerge, Lost, BuildRec
  <2>5. work'[c].commit = work[c].commit /\ work'[c].guarded = work[c].guarded
    BY <1>2 DEF PruneForMerge, WorldTypes, WorkRec
  <2> QED BY <2>1, <2>2, <2>3, <2>4, <2>5 DEF GateOK, Mergeable, CarveOut
<1>3. CASE step'[c] \notin {"clear", "ghMerge"}
  BY <1>3 DEF GateOK
<1> QED BY <1>1, <1>2, <1>3 DEF InvocationTypes, Worker, StopItem, StartItem, Claim, ClaimRaced, RecordClaim, MakeWorktree, SetWorktree, EmptyRound,
           RoundsSpent, RunRaises, GradedRound, SalvageToReview, DirectRound, WriteRunRecord, Account, Escalate,
           Finalize, FinalizeMissing, FinalizeFailed, FinalizeRaises, ClearAttempts, ArchiveAttempts, CommitAndPush,
           Settle, RecordSettlement, AfterSettlement, OpenPr, HoldForReview, GhMerge, Complete, Finalized,
           WriteEntry, OutcomeRow, Go

\* A product is monotone, and one factor can be taken out of it.
LEMMA Products ==
  ASSUME NEW a \in Nat, NEW b \in Nat, NEW m \in Nat
  PROVE  /\ m * a \in Nat
         /\ a <= b => m * a <= m * b
         /\ m * (a + 1) = m * a + m
         /\ a * m = m * a
OBVIOUS

LEMMA AtFinite ==
  ASSUME NEW S
  PROVE  IsFiniteSet(At(S)) /\ Cardinality(At(S)) \in Nat
BY RunAssumption, FS_Subset, FS_CardinalityType DEF At

LEMMA WorkerSpendOK ==
  ASSUME NEW c \in Card, InvocationTypes, (InvocationTypes)', build \in [Card -> BuildRec],
         PhaseOK(c), SpendOK, OthersKept(c), Worker(c)
  PROVE  SpendOK'
<1>1. phase \notin {"assess", "triage"}
  BY WorkerAwake
<1>2. \A d \in Card \ {c} : step'[d] = step[d]
  BY DEF OthersKept
<1>3. workers' = workers /\ phase' = phase
  BY DEF OthersKept
<1>4. CASE StartItem(c)
  <2>1. At(Busy)' \subseteq At(Busy) \cup {c} /\ At(Unpaid)' \subseteq At(Busy)'
    BY <1>2 DEF At, Busy, Unpaid, Steps
  <2>2. Cardinality(At(Busy)) < workers /\ spent <= Ceiling /\ spent' = spent
    BY <1>4, RunAssumption DEF StartItem, Slot, At, Exceeded, money, InvocationTypes
  <2>3. IsFiniteSet(At(Busy) \cup {c}) /\ Cardinality(At(Busy) \cup {c}) <= Cardinality(At(Busy)) + 1
    <3>1. IsFiniteSet(At(Busy)) /\ Cardinality(At(Busy)) \in Nat
      BY AtFinite
    <3>2. CASE c \in At(Busy)
      <4>1. At(Busy) \cup {c} = At(Busy)
        BY <3>2
      <4> QED BY <3>1, <4>1
    <3>3. CASE c \notin At(Busy)
      <4>1. IsFiniteSet(At(Busy) \cup {c}) /\ Cardinality(At(Busy) \cup {c}) = Cardinality(At(Busy)) + 1
        BY <3>1, <3>3, FS_AddElement
      <4> QED BY <3>1, <4>1
    <3> QED BY <3>2, <3>3
  <2>4. Cardinality(At(Busy)') <= Cardinality(At(Busy) \cup {c})
    BY <2>1, <2>3, FS_Subset
  <2>5. Cardinality(At(Unpaid)') <= Cardinality(At(Busy)')
    <3>1. IsFiniteSet(At(Busy)')
      BY <2>1, <2>3, FS_Subset
    <3> QED BY <2>1, <3>1, FS_Subset
  <2>6. Cardinality(At(Busy)') \in Nat /\ Cardinality(At(Unpaid)') \in Nat /\ Cardinality(At(Busy)) \in Nat
    <3>1. IsFiniteSet(At(Busy)') /\ IsFiniteSet(At(Unpaid)')
      BY <2>1, <2>3, FS_Subset
    <3> QED BY <3>1, AtFinite, FS_CardinalityType
  <2>7. IsFiniteSet(At(Busy) \cup {c}) /\ Cardinality(At(Busy) \cup {c}) \in Nat
    BY <2>3, FS_CardinalityType
  <2>8. Cardinality(At(Busy)') <= workers /\ Cardinality(At(Unpaid)') <= workers
    BY <2>2, <2>3, <2>4, <2>5, <2>6, <2>7 DEF InvocationTypes
  <2>9. MaxRounds * Cardinality(At(Unpaid)') <= MaxRounds * workers /\ MaxRounds * workers = workers * MaxRounds
        /\ MaxRounds * Cardinality(At(Unpaid)') \in Nat /\ MaxRounds * workers \in Nat
    BY <2>6, <2>8, Products, RunAssumption DEF InvocationTypes
  <2>10. spent' + MaxRounds * Cardinality(At(Unpaid)') <= Ceiling + workers * MaxRounds
    <3>1. PICK owed \in Nat, most \in Nat : /\ owed = MaxRounds * Cardinality(At(Unpaid)') /\ owed <= most
                                            /\ most = workers * MaxRounds
      BY <2>9
    <3>2. PICK paid \in Nat, limit \in Nat : paid = spent' /\ limit = Ceiling /\ paid <= limit
      <4>1. spent \in Nat /\ Ceiling \in Nat
        BY RunAssumption DEF InvocationTypes
      <4> QED BY <2>2, <4>1
    <3>3. paid + owed <= limit + most
      BY <3>1, <3>2
    <3> QED BY <3>1, <3>2, <3>3
  <2>11. workers' * MaxRounds = workers * MaxRounds /\ Cardinality(At(Busy)') <= workers'
    BY <1>3, <2>8
  <2> QED BY <1>1, <1>3, <2>10, <2>11 DEF SpendOK
<1>5. CASE Account(c)
  <2>1. At(Busy)' \subseteq At(Busy) /\ At(Unpaid)' \subseteq At(Unpaid) \ {c} /\ c \in At(Unpaid)
    BY <1>2, <1>5 DEF At, Busy, Unpaid, Steps, Account, Go, InvocationTypes
  <2>2. spent' = spent + build[c].cost /\ build[c].cost \in 0..MaxRounds
    BY <1>5 DEF Account, BuildRec
  <2>3. Cardinality(At(Busy)') <= Cardinality(At(Busy)) /\ IsFiniteSet(At(Busy)')
    BY <2>1, AtFinite, FS_Subset
  <2>4. IsFiniteSet(At(Unpaid) \ {c}) /\ Cardinality(At(Unpaid) \ {c}) = Cardinality(At(Unpaid)) - 1
    BY <2>1, AtFinite, FS_RemoveElement
  <2>5. Cardinality(At(Unpaid)') <= Cardinality(At(Unpaid) \ {c}) /\ IsFiniteSet(At(Unpaid)')
    BY <2>1, <2>4, FS_Subset
  <2>6. /\ Cardinality(At(Busy)') \in Nat /\ Cardinality(At(Unpaid)') \in Nat /\ Cardinality(At(Busy)) \in Nat
        /\ Cardinality(At(Unpaid)) \in Nat /\ Cardinality(At(Unpaid) \ {c}) \in Nat
    BY <2>3, <2>4, <2>5, AtFinite, FS_CardinalityType
  <2> DEFINE k == Cardinality(At(Unpaid) \ {c})
             n == Cardinality(At(Unpaid)')
  <2>7. Cardinality(At(Unpaid)) = k + 1
    BY <2>4, <2>6
  <2>8. MaxRounds * (k + 1) = MaxRounds * k + MaxRounds /\ MaxRounds * n <= MaxRounds * k
        /\ MaxRounds * k \in Nat /\ MaxRounds * n \in Nat /\ workers * MaxRounds \in Nat
    <3>1. k \in Nat /\ n \in Nat /\ n <= k /\ MaxRounds \in Nat /\ workers \in Nat
      BY <2>5, <2>6, RunAssumption DEF InvocationTypes
    <3> HIDE DEF k, n
    <3> QED BY <3>1, Products
  <2>9. spent + MaxRounds * (k + 1) <= Ceiling + workers * MaxRounds
    BY <2>7 DEF SpendOK
  <2>10. spent' + MaxRounds * n <= Ceiling + workers * MaxRounds
    <3> DEFINE x == MaxRounds * (k + 1)
               y == MaxRounds * k
               z == MaxRounds * n
               w == workers * MaxRounds
    <3>1. x = y + MaxRounds /\ z <= y /\ y \in Nat /\ z \in Nat /\ w \in Nat /\ spent + x <= Ceiling + w
      BY <2>8, <2>9
    <3>2. spent' = spent + build[c].cost /\ build[c].cost \in 0..MaxRounds /\ spent \in Nat /\ Ceiling \in Nat
          /\ MaxRounds \in Nat
      BY <2>2, RunAssumption DEF InvocationTypes
    <3> HIDE DEF x, y, z, w
    <3>3. spent' + z <= Ceiling + w
      BY <3>1, <3>2
    <3> QED BY <3>3 DEF z, w
  <2> QED BY <1>1, <1>3, <2>3, <2>6, <2>10 DEF SpendOK, InvocationTypes
<1>6. CASE ~StartItem(c) /\ ~Account(c)
  <2>1. spent' = spent /\ (step'[c] \in Busy => step[c] \in Busy) /\ (step'[c] \in Unpaid => step[c] \in Unpaid)
    BY <1>6, WorkerPace
  <2>2. At(Busy)' \subseteq At(Busy) /\ At(Unpaid)' \subseteq At(Unpaid)
    BY <1>2, <2>1 DEF At
  <2>3. /\ Cardinality(At(Busy)') <= Cardinality(At(Busy)) /\ IsFiniteSet(At(Busy)')
        /\ Cardinality(At(Unpaid)') <= Cardinality(At(Unpaid)) /\ IsFiniteSet(At(Unpaid)')
    BY <2>2, AtFinite, FS_Subset
  <2>4. /\ Cardinality(At(Busy)') \in Nat /\ Cardinality(At(Unpaid)') \in Nat /\ Cardinality(At(Busy)) \in Nat
        /\ Cardinality(At(Unpaid)) \in Nat
    BY <2>3, AtFinite, FS_CardinalityType
  <2>5. /\ MaxRounds * Cardinality(At(Unpaid)') <= MaxRounds * Cardinality(At(Unpaid))
        /\ MaxRounds * Cardinality(At(Unpaid)') \in Nat /\ MaxRounds * Cardinality(At(Unpaid)) \in Nat
        /\ workers * MaxRounds \in Nat
    BY <2>3, <2>4, Products, RunAssumption DEF InvocationTypes
  <2>6. spent' + MaxRounds * Cardinality(At(Unpaid)') <= Ceiling + workers * MaxRounds
    <3> DEFINE x == MaxRounds * Cardinality(At(Unpaid))
               y == MaxRounds * Cardinality(At(Unpaid)')
               w == workers * MaxRounds
    <3>1. y <= x /\ x \in Nat /\ y \in Nat /\ w \in Nat /\ spent + x <= Ceiling + w
      BY <2>5 DEF SpendOK
    <3>2. spent' = spent /\ spent \in Nat /\ Ceiling \in Nat
      BY <2>1, RunAssumption DEF InvocationTypes
    <3> HIDE DEF x, y, w
    <3>3. spent' + y <= Ceiling + w
      BY <3>1, <3>2
    <3> QED BY <3>3 DEF y, w
  <2>7. Cardinality(At(Busy)') <= workers
    BY <2>3, <2>4 DEF SpendOK, InvocationTypes
  <2> QED BY <1>1, <1>3, <2>6, <2>7 DEF SpendOK
<1> QED BY <1>4, <1>5, <1>6

\* A worker of another card keeps what the invariant says of a card.
LEMMA OtherCardOK ==
  ASSUME NEW c \in Card, NEW d \in Card \ {c}, OthersKept(c), CardOK(d)
  PROVE  CardOK(d)'
<1>1. /\ phase' = phase /\ scope' = scope /\ crashes' = crashes /\ ghost'.cut[d] = ghost.cut[d] /\ ghost'.solo = ghost.solo
      /\ pending \subseteq pending' /\ asked \subseteq asked'
      /\ step'[d] = step[d] /\ build'[d] = build[d] /\ rows'[d] = rows[d] /\ session'[d] = session[d]
      /\ board'[d] = board[d] /\ work'[d] = work[d] /\ pr'[d] = pr[d] /\ minted'[d] = minted[d] /\ mem'[d] = mem[d]
      /\ d \in settled' <=> d \in settled
      /\ d \in ghost'.gated <=> d \in ghost.gated
  BY DEF OthersKept
<1>2. PhaseOK(d)' /\ BuildOK(d)' /\ HeldOK(d)'
  BY <1>1 DEF CardOK, PhaseOK, BuildOK, HeldOK
<1>3. KeptOK(d)' /\ MintOK(d)' /\ GateOK(d)'
  BY <1>1 DEF CardOK, KeptOK, Safe, MintOK, GateOK
<1>4. RowOK(d)'
  <2>1. Told(d) => Told(d)'
    BY <1>1 DEF Told
  <2> QED BY <1>1, <2>1 DEF CardOK, RowOK
<1> QED BY <1>2, <1>3, <1>4 DEF CardOK

\* A worker on its own knows the journal file it writes back.
WroteWhole(c) ==
    \/ file' = file /\ mem' = mem
    \/ step[c] \in Reading /\ mem' = mem /\ \A d \in Card \ {c} : file'[d] = snap[c][d]
    \/ step[c] \in Busy /\ file' = mem' /\ \A d \in Card \ {c} : mem'[d] = mem[d]

LEMMA WorkerWrites ==
  ASSUME NEW c \in Card, InvocationTypes, RecordTypes, Worker(c)
  PROVE  WroteWhole(c)
<1> USE DEF WroteWhole, InvocationTypes, RecordTypes, JournalTypes, Journal, Reading, Busy, Steps
<1>1. CASE StopItem(c)
  BY <1>1 DEF StopItem, Go, AddRow, invocation, journal, money, talk, world
<1>2. CASE StartItem(c)
  BY <1>2 DEF StartItem, Go, RegisterSession, invocation, journal, money, talk, world
<1>3. CASE Claim(c)
  BY <1>3 DEF Claim, Go, Read, invocation, journal, money, talk, world
<1>4. CASE ClaimRaced(c)
  BY <1>4 DEF ClaimRaced, Go, WriteRun, NoItem, invocation, journal, money, talk, world
<1>5. CASE RecordClaim(c)
  BY <1>5 DEF RecordClaim, Go, Mutate, Drop, NoJournal, NoItem, invocation, journal, money, talk, world
<1>6. CASE MakeWorktree(c)
  BY <1>6 DEF MakeWorktree, Go, Read, invocation, journal, money, talk, world
<1>7. CASE SetWorktree(c)
  BY <1>7 DEF SetWorktree, Go, Mutate, Drop, NoJournal, NoItem, invocation, journal, money, talk, world
<1>8. CASE EmptyRound(c)
  BY <1>8 DEF EmptyRound, Go, Used, Failed, invocation, journal, money, talk, world
<1>9. CASE RoundsSpent(c)
  BY <1>9 DEF RoundsSpent, Go, Read, Failed, invocation, journal, money, talk, world
<1>10. CASE RunRaises(c)
  BY <1>10 DEF RunRaises, Go, Drop, NoJournal, NoItem, Noted, invocation, journal, money, talk, world
<1>11. ASSUME NEW w \in RoundWorlds, GradedRound(c, w) PROVE WroteWhole(c)
  BY <1>11 DEF GradedRound, Go, Read, Used, invocation, journal, money, talk, world
<1>12. ASSUME NEW sent \in Sends, NEW created \in BOOLEAN, SalvageToReview(c, sent, created) PROVE WroteWhole(c)
  BY <1>12 DEF SalvageToReview, Go, Read, Pushed, Opened, NoPr, Noted, invocation, journal, money, talk, world
<1>13. ASSUME NEW ok \in BOOLEAN, DirectRound(c, ok) PROVE WroteWhole(c)
  BY <1>13 DEF DirectRound, Go, Used, Failed, invocation, journal, money, talk, world
<1>14. CASE WriteRunRecord(c)
  BY <1>14 DEF WriteRunRecord, Go, Mutate, Drop, NoJournal, NoItem, invocation, journal, money, talk, world
<1>15. CASE Account(c)
  BY <1>15 DEF Account, Go, invocation, journal, money, talk, world
<1>16. CASE Escalate(c)
  BY <1>16 DEF Escalate, Go, invocation, journal, money, talk, world
<1>17. CASE Finalize(c)
  BY <1>17 DEF Finalize, Go, invocation, journal, money, talk, world
<1>18. CASE FinalizeMissing(c)
  BY <1>18 DEF FinalizeMissing, Go, FinalizeFailed, invocation, journal, money, talk, world
<1>19. CASE FinalizeRaises(c)
  BY <1>19 DEF FinalizeRaises, Go, Lost, Noted, invocation, journal, money, talk, world
<1>20. ASSUME NEW ok \in BOOLEAN, RecordSuccess(c, ok) PROVE WroteWhole(c)
  BY <1>20 DEF RecordSuccess, Go, Succeeded, Lost, Noted, invocation, journal, money, talk, world
<1>21. ASSUME NEW ok \in BOOLEAN, ClearAttempts(c, ok) PROVE WroteWhole(c)
  BY <1>21 DEF ClearAttempts, Go, Read, Noted, invocation, journal, money, talk, world
<1>22. ASSUME NEW ok \in BOOLEAN, ArchiveAttempts(c, ok) PROVE WroteWhole(c)
  BY <1>22 DEF ArchiveAttempts, Go, Mutate, Drop, NoJournal, NoItem, Noted, invocation, journal, money, talk, world
<1>23. ASSUME NEW sent \in Sends, NEW guarded \in BOOLEAN, CommitAndPush(c, sent, guarded) PROVE WroteWhole(c)
  BY <1>23 DEF CommitAndPush, Go, Pushed, Lost, Noted, invocation, journal, money, talk, world
<1>24. ASSUME NEW sees \in BOOLEAN, NEW recorded \in BOOLEAN, Settle(c, sees, recorded) PROVE WroteWhole(c)
  BY <1>24 DEF Settle, AfterSettlement, Go, Noted, invocation, journal, money, talk, world
<1>25. ASSUME NEW ok \in BOOLEAN, RecordSettlement(c, ok) PROVE WroteWhole(c)
  BY <1>25 DEF RecordSettlement, AfterSettlement, Go, Noted, invocation, journal, money, talk, world
<1>26. ASSUME NEW ok \in BOOLEAN, OpenPr(c, ok) PROVE WroteWhole(c)
  BY <1>26 DEF OpenPr, Go, Opened, NoPr, Noted, invocation, journal, money, talk, world
<1>27. ASSUME NEW read \in BOOLEAN, NEW k \in Checks, HoldForReview(c, read, k) PROVE WroteWhole(c)
  BY <1>27 DEF HoldForReview, Go, Finalized, NoChecks, Noted, invocation, journal, money, talk, world
<1>28. ASSUME NEW read \in BOOLEAN, NEW k \in Checks, PruneForMerge(c, read, k) PROVE WroteWhole(c)
  BY <1>28 DEF PruneForMerge, Go, Lost, Noted, invocation, journal, money, talk, world
<1>29. ASSUME NEW q \in Policies, NEW landed \in BOOLEAN, NEW reported \in BOOLEAN, GhMerge(c, q, landed, reported) PROVE WroteWhole(c)
  BY <1>29 DEF GhMerge, Go, Finalized, NoChecks, Noted, invocation, journal, money, talk, world
<1>30. CASE Complete(c)
  BY <1>30 DEF Complete, Go, Finalized, NoChecks, invocation, journal, money, talk, world
<1>31. CASE WriteEntry(c)
  BY <1>31 DEF WriteEntry, Go, WriteRun, NoItem, invocation, journal, money, talk, world
<1>32. CASE OutcomeRow(c)
  BY <1>32 DEF OutcomeRow, Go, AddRow, EndSession, invocation, journal, money, talk, world
<1> QED BY <1>1, <1>2, <1>3, <1>4, <1>5, <1>6, <1>7, <1>8, <1>9, <1>10, <1>11, <1>12, <1>13, <1>14, <1>15, <1>16, <1>17, <1>18, <1>19, <1>20, <1>21, <1>22, <1>23, <1>24, <1>25, <1>26, <1>27, <1>28, <1>29, <1>30, <1>31, <1>32 DEF Worker

OwnFile(c) ==
    /\ step[c] \in Reading => snap[c] = file
    /\ step[c] \in {"round", "salvage", "verdict", "account", "finalize"} => file[c].wt
    /\ c \in ghost.done => file[c].state \in Done /\ step[c] \in {"none", "row", "ended"} /\ mem[c].state \in Done

LEMMA WorkerOwnFile ==
  ASSUME NEW c \in Card, InvocationTypes, RecordTypes, PhaseOK(c), OwnFile(c), Worker(c)
  PROVE  OwnFile(c)'
<1> USE DEF InvocationTypes, RecordTypes, JournalTypes, Journal, Item, OwnFile, Reading, Steps, GhostRec
<1>1. CASE StopItem(c)
  BY <1>1 DEF StopItem, Go, AddRow, invocation, journal, money, talk, world
<1>2. CASE StartItem(c)
  BY <1>2 DEF StartItem, Go, RegisterSession, invocation, journal, money, talk, world
<1>3. CASE Claim(c)
  BY <1>3 DEF Claim, Go, Read, invocation, journal, money, talk, world
<1>4. CASE ClaimRaced(c)
  BY <1>4 DEF ClaimRaced, Go, WriteRun, NoItem, invocation, journal, money, talk, world
<1>5. CASE RecordClaim(c)
  BY <1>5 DEF RecordClaim, Go, Mutate, Drop, NoJournal, NoItem, invocation, journal, money, talk, world
<1>6. CASE MakeWorktree(c)
  BY <1>6 DEF MakeWorktree, Go, Read, invocation, journal, money, talk, world
<1>7. CASE SetWorktree(c)
  <2>1. snap[c][c] \in Item /\ snap[c] \in Journal
    OBVIOUS
  <2>2. [snap[c][c] EXCEPT !.wt = TRUE].wt
    BY <2>1
  <2>3. file'[c] = [snap[c][c] EXCEPT !.wt = TRUE]
    BY <1>7, <2>1 DEF SetWorktree, Mutate
  <2>4. step'[c] = "round" /\ ghost' = ghost /\ step[c] = "setWorktree"
    BY <1>7 DEF SetWorktree, Go
  <2> QED BY <1>7, <2>1, <2>2, <2>3, <2>4 DEF SetWorktree, Go, Mutate, Drop, NoJournal, NoItem, invocation, journal, money, talk, world
<1>8. CASE EmptyRound(c)
  BY <1>8 DEF EmptyRound, Go, Used, Failed, invocation, journal, money, talk, world
<1>9. CASE RoundsSpent(c)
  BY <1>9 DEF RoundsSpent, Go, Read, Failed, invocation, journal, money, talk, world
<1>10. CASE RunRaises(c)
  BY <1>10 DEF RunRaises, Go, Drop, NoJournal, NoItem, Noted, invocation, journal, money, talk, world
<1>11. ASSUME NEW w \in RoundWorlds, GradedRound(c, w) PROVE OwnFile(c)'
  BY <1>11 DEF GradedRound, Go, Read, Used, invocation, journal, money, talk, world
<1>12. ASSUME NEW sent \in Sends, NEW created \in BOOLEAN, SalvageToReview(c, sent, created) PROVE OwnFile(c)'
  BY <1>12 DEF SalvageToReview, Go, Read, Pushed, Opened, NoPr, Noted, invocation, journal, money, talk, world
<1>13. ASSUME NEW ok \in BOOLEAN, DirectRound(c, ok) PROVE OwnFile(c)'
  BY <1>13 DEF DirectRound, Go, Used, Failed, invocation, journal, money, talk, world
<1>14. CASE WriteRunRecord(c)
  BY <1>14 DEF WriteRunRecord, Go, Mutate, Drop, NoJournal, NoItem, invocation, journal, money, talk, world
<1>15. CASE Account(c)
  BY <1>15 DEF Account, Go, invocation, journal, money, talk, world
<1>16. CASE Escalate(c)
  BY <1>16 DEF Escalate, Go, invocation, journal, money, talk, world
<1>17. CASE Finalize(c)
  BY <1>17 DEF Finalize, Go, invocation, journal, money, talk, world
<1>18. CASE FinalizeMissing(c)
  BY <1>18 DEF FinalizeMissing, Go, FinalizeFailed, invocation, journal, money, talk, world
<1>19. CASE FinalizeRaises(c)
  BY <1>19 DEF FinalizeRaises, Go, Lost, Noted, invocation, journal, money, talk, world
<1>20. ASSUME NEW ok \in BOOLEAN, RecordSuccess(c, ok) PROVE OwnFile(c)'
  BY <1>20 DEF RecordSuccess, Go, Succeeded, Lost, Noted, invocation, journal, money, talk, world
<1>21. ASSUME NEW ok \in BOOLEAN, ClearAttempts(c, ok) PROVE OwnFile(c)'
  BY <1>21 DEF ClearAttempts, Go, Read, Noted, invocation, journal, money, talk, world
<1>22. ASSUME NEW ok \in BOOLEAN, ArchiveAttempts(c, ok) PROVE OwnFile(c)'
  BY <1>22 DEF ArchiveAttempts, Go, Mutate, Drop, NoJournal, NoItem, Noted, invocation, journal, money, talk, world
<1>23. ASSUME NEW sent \in Sends, NEW guarded \in BOOLEAN, CommitAndPush(c, sent, guarded) PROVE OwnFile(c)'
  BY <1>23 DEF CommitAndPush, Go, Pushed, Lost, Noted, invocation, journal, money, talk, world
<1>24. ASSUME NEW sees \in BOOLEAN, NEW recorded \in BOOLEAN, Settle(c, sees, recorded) PROVE OwnFile(c)'
  BY <1>24 DEF Settle, AfterSettlement, Go, Noted, invocation, journal, money, talk, world
<1>25. ASSUME NEW ok \in BOOLEAN, RecordSettlement(c, ok) PROVE OwnFile(c)'
  BY <1>25 DEF RecordSettlement, AfterSettlement, Go, Noted, invocation, journal, money, talk, world
<1>26. ASSUME NEW ok \in BOOLEAN, OpenPr(c, ok) PROVE OwnFile(c)'
  BY <1>26 DEF OpenPr, Go, Opened, NoPr, Noted, invocation, journal, money, talk, world
<1>27. ASSUME NEW read \in BOOLEAN, NEW k \in Checks, HoldForReview(c, read, k) PROVE OwnFile(c)'
  BY <1>27 DEF HoldForReview, Go, Finalized, NoChecks, Noted, invocation, journal, money, talk, world
<1>28. ASSUME NEW read \in BOOLEAN, NEW k \in Checks, PruneForMerge(c, read, k) PROVE OwnFile(c)'
  BY <1>28 DEF PruneForMerge, Go, Lost, Noted, invocation, journal, money, talk, world
<1>29. ASSUME NEW q \in Policies, NEW landed \in BOOLEAN, NEW reported \in BOOLEAN, GhMerge(c, q, landed, reported) PROVE OwnFile(c)'
  BY <1>29 DEF GhMerge, Go, Finalized, NoChecks, Noted, invocation, journal, money, talk, world
<1>30. CASE Complete(c)
  BY <1>30 DEF Complete, Go, Finalized, NoChecks, invocation, journal, money, talk, world
<1>31. CASE WriteEntry(c)
  BY <1>31 DEF WriteEntry, Go, WriteRun, NoItem, invocation, journal, money, talk, world
<1>32. CASE OutcomeRow(c)
  BY <1>32 DEF OutcomeRow, Go, AddRow, EndSession, invocation, journal, money, talk, world
<1> QED BY <1>1, <1>2, <1>3, <1>4, <1>5, <1>6, <1>7, <1>8, <1>9, <1>10, <1>11, <1>12, <1>13, <1>14, <1>15, <1>16, <1>17, <1>18, <1>19, <1>20, <1>21, <1>22, <1>23, <1>24, <1>25, <1>26, <1>27, <1>28, <1>29, <1>30, <1>31, <1>32 DEF Worker

LEMMA WorkerAloneOK ==
  ASSUME NEW c \in Card, InvocationTypes, PhaseOK(c), SpendOK, AloneOK, OthersKept(c), Worker(c)
  PROVE  AloneOK'
<1> SUFFICES ASSUME workers' = 1 PROVE AloneOK'
  BY DEF AloneOK
<1>1. workers = 1 /\ phase' = phase /\ scope' = scope
  BY DEF OthersKept
<1>2. \A d \in Card \ {c} : step'[d] = step[d]
  BY DEF OthersKept
<1>3. step'[c] \in Busy => \A d \in Card \ {c} : step[d] \notin Busy
  <2>1. CASE StartItem(c)
    <3>1. Cardinality(At(Busy)) = 0
      BY <1>1, <2>1, AtFinite DEF StartItem, Slot, At
    <3>2. At(Busy) = {}
      BY <3>1, AtFinite, FS_EmptySet
    <3> QED BY <3>2 DEF At
  <2>2. CASE Account(c)
    BY <1>1, <2>2 DEF Account, AloneOK, Busy, Steps
  <2>3. CASE ~StartItem(c) /\ ~Account(c)
    BY <1>1, <2>3, WorkerPace DEF AloneOK
  <2> QED BY <2>1, <2>2, <2>3
<1>4. \A a, b \in Card : step'[a] \in Busy /\ step'[b] \in Busy => a = b
  <2> SUFFICES ASSUME NEW a \in Card, NEW b \in Card, step'[a] \in Busy, step'[b] \in Busy, a # b PROVE FALSE
    OBVIOUS
  <2>1. CASE a = c \/ b = c
    BY <1>2, <1>3, <2>1
  <2>2. CASE a # c /\ b # c
    BY <1>1, <1>2, <2>2 DEF AloneOK
  <2> QED BY <2>1, <2>2
<1>5. ASSUME Died' PROVE \A d \in Card : step'[d] \notin Busy
  <2>1. phase = "swarm" /\ step[c] \notin {"none", "ended", "died"}
    BY WorkerAwake
  <2>2. CASE Died
    <3>1. \A d \in Card : step[d] \notin Busy
      BY <1>1, <2>1, <2>2 DEF AloneOK
    <3>2. ~StartItem(c) /\ ~Account(c)
      BY <1>1, <2>2, <3>1 DEF StartItem, Slot, Account, Busy, Steps
    <3>3. step'[c] \notin Busy
      BY <3>1, <3>2, WorkerPace
    <3> QED BY <1>2, <3>1, <3>3
  <2>3. CASE ~Died
    <3>1. step'[c] = "died"
      BY <1>1, <1>2, <1>5, <2>3 DEF Died, InvocationTypes
    <3>2. step[c] \in Busy
      <4>1. CASE step[c] = "queued"
        <5>1. StopItem(c) \/ StartItem(c)
          BY <4>1 DEF Worker, Claim, ClaimRaced, RecordClaim, MakeWorktree, SetWorktree, EmptyRound,
             RoundsSpent, RunRaises, GradedRound, SalvageToReview, DirectRound, WriteRunRecord, Account, Escalate,
             Finalize, FinalizeMissing, FinalizeRaises, RecordSuccess, ClearAttempts, ArchiveAttempts,
             CommitAndPush, Settle, RecordSettlement, OpenPr, HoldForReview, PruneForMerge, GhMerge, Complete,
             WriteEntry, OutcomeRow
        <5> QED BY <3>1, <5>1 DEF StopItem, StartItem, Go, InvocationTypes
      <4> QED BY <2>1, <4>1 DEF InvocationTypes, Busy
    <3>3. \A d \in Card \ {c} : step[d] \notin Busy
      BY <1>1, <3>2 DEF AloneOK
    <3> QED BY <1>2, <3>1, <3>3 DEF Busy
  <2> QED BY <2>2, <2>3
<1> QED BY <1>1, <1>4, <1>5 DEF AloneOK

LEMMA WorkerSoloOK ==
  ASSUME NEW c \in Card, InvocationTypes, RecordTypes, PhaseOK(c), AloneOK, SoloOK, OthersKept(c), Worker(c)
  PROVE  SoloOK'
<1> SUFFICES ASSUME ghost'.solo PROVE SoloOK'
  BY DEF SoloOK
<1>1. ghost.solo /\ workers = 1 /\ workers' = 1 /\ phase' = phase
  BY DEF OthersKept, SoloOK
<1>2. \A d \in Card \ {c} : step'[d] = step[d] /\ snap'[d] = snap[d] /\ mem'[d] = mem[d]
                            /\ (d \in ghost'.done <=> d \in ghost.done)
  BY DEF OthersKept
<1>3. /\ step'[c] \in Reading => snap'[c] = file'
      /\ step'[c] \in {"round", "salvage", "verdict", "account", "finalize"} => file'[c].wt
      /\ c \in ghost'.done => file'[c].state \in Done /\ step'[c] \in {"none", "row", "ended"}
                              /\ mem'[c].state \in Done
  <2>1. phase # "idle" => OwnFile(c)
    BY <1>1 DEF SoloOK, OwnFile
  <2>2. phase # "idle"
    BY WorkerAwake
  <2> QED BY <2>1, <2>2, WorkerOwnFile DEF OwnFile
<1>4. ASSUME NEW d \in Card \ {c}
      PROVE  /\ step'[d] \in Reading => snap'[d] = file'
             /\ step'[d] \in {"round", "salvage", "verdict", "account", "finalize"} => file'[d].wt
             /\ d \in ghost'.done => /\ file'[d].state \in Done
                                     /\ step'[d] \in {"none", "row", "ended"}
                                     /\ phase' # "idle" => mem'[d].state \in Done
  <2>1. WroteWhole(c)
    BY WorkerWrites
  <2>2. CASE file' = file /\ mem' = mem
    BY <1>1, <1>2, <2>2 DEF SoloOK
  <2>3. CASE step[c] \in Reading /\ mem' = mem /\ \A e \in Card \ {c} : file'[e] = snap[c][e]
    <3>1. snap[c] = file /\ step[c] \in Busy
      BY <1>1, <2>3 DEF SoloOK, Reading, Busy, Steps
    <3>2. step[d] \notin Busy
      BY <1>1, <3>1 DEF AloneOK
    <3> QED BY <1>1, <1>2, <2>3, <3>1, <3>2 DEF SoloOK, Busy, Steps, Reading
  <2>4. CASE step[c] \in Busy /\ file' = mem' /\ \A e \in Card \ {c} : mem'[e] = mem[e]
    <3>1. step[d] \notin Busy
      BY <1>1, <2>4 DEF AloneOK
    <3>2. phase # "idle"
      BY <2>4 DEF PhaseOK, Busy, Steps
    <3> QED BY <1>1, <1>2, <2>4, <3>1, <3>2 DEF SoloOK, Busy, Steps, Reading
  <2> QED BY <2>1, <2>2, <2>3, <2>4 DEF WroteWhole
<1> QED BY <1>1, <1>3, <1>4 DEF SoloOK

\* The report is not written while workers run.
LEMMA WorkerReportOK ==
  ASSUME NEW c \in Card, InvocationTypes, PhaseOK(c), OthersKept(c), Worker(c)
  PROVE  ReportOK'
BY WorkerAwake DEF OthersKept, ReportOK

LEMMA WorkerInv ==
  ASSUME AutopilotInv, NEW c \in Card, Worker(c)
  PROVE  AutopilotInv'
<1>1. InvocationTypes /\ RecordTypes /\ WorldTypes /\ CardOK(c) /\ SpendOK /\ AloneOK /\ SoloOK
  BY DEF AutopilotInv
<1>2. PhaseOK(c) /\ BuildOK(c) /\ HeldOK(c) /\ KeptOK(c) /\ MintOK(c) /\ GateOK(c) /\ RowOK(c)
  BY <1>1 DEF CardOK
<1>3. OthersKept(c)
  BY <1>1, WorkerFrame
<1>4. InvocationTypes'
  BY <1>1, WorkerInvocationTypes DEF RecordTypes
<1>5. RecordTypes'
  BY <1>1, <1>2, WorkerJournalType, WorkerBuildType, WorkerRowsType DEF RecordTypes, InvocationTypes
<1>6. WorldTypes'
  BY <1>1, WorkerBoardType, WorkerWorkType, WorkerPrType DEF WorldTypes
<1>7. CardOK(c)'
  <2>1. PhaseOK(c)' /\ BuildOK(c)' /\ HeldOK(c)'
    BY <1>1, <1>2, WorkerPhaseOK, WorkerBuildOK, WorkerHeldOK DEF RecordTypes
  <2>2. KeptOK(c)' /\ MintOK(c)' /\ GateOK(c)' /\ RowOK(c)'
    BY <1>1, <1>2, WorkerKeptOK, WorkerMintOK, WorkerGateOK, WorkerRowOK DEF RecordTypes
  <2> QED BY <2>1, <2>2 DEF CardOK
<1>8. \A d \in Card : CardOK(d)'
  BY <1>3, <1>7, OtherCardOK DEF AutopilotInv
<1>9. SpendOK' /\ ReportOK' /\ AloneOK' /\ SoloOK'
  BY <1>1, <1>2, <1>3, <1>4, WorkerSpendOK, WorkerReportOK, WorkerAloneOK, WorkerSoloOK DEF RecordTypes
<1> QED BY <1>4, <1>5, <1>6, <1>8, <1>9 DEF AutopilotInv

-----------------------------------------------------------------------------
(* The steps of the invocation and of the environment. *)

\* Outside the swarm phase nobody is at work, and nobody is when the swarm is over.
LEMMA NobodyAtWork ==
  ASSUME AutopilotInv, phase # "swarm" \/ Settled
  PROVE  \A c \in Card : step[c] \in {"none", "ended", "died"}
BY DEF AutopilotInv, CardOK, PhaseOK, Settled, InvocationTypes

LEMMA SpentOK ==
  ASSUME InvocationTypes, SpendOK
  PROVE  spent <= Ceiling + workers * MaxRounds
<1> DEFINE x == MaxRounds * Cardinality(At(Unpaid))
           w == workers * MaxRounds
<1>1. x \in Nat /\ w \in Nat /\ spent + x <= Ceiling + w /\ spent \in Nat /\ Ceiling \in Nat
  BY AtFinite, Products, RunAssumption DEF InvocationTypes, SpendOK
<1> HIDE DEF x, w
<1>2. spent <= Ceiling + w
  BY <1>1
<1> QED BY <1>2 DEF w

LEMMA EmptyDesk ==
  ASSUME \A d \in Card : step'[d] \notin Busy /\ step'[d] \notin Unpaid,
         spent' \in Nat, workers' \in Nat, spent' <= Ceiling + workers' * MaxRounds,
         phase' \in {"assess", "triage"} => spent' = 0
  PROVE  SpendOK'
<1>1. At(Busy)' = {} /\ At(Unpaid)' = {}
  BY DEF At
<1>2. Cardinality(At(Busy)') = 0 /\ Cardinality(At(Unpaid)') = 0
  BY <1>1, FS_EmptySet
<1>3. MaxRounds * 0 = 0
  BY RunAssumption
<1> QED BY <1>2, <1>3 DEF SpendOK

\* Nobody is about to merge or to clear a memory, and nobody works next to another.
LEMMA EmptyGate ==
  ASSUME NEW d \in Card, step'[d] \notin Busy
  PROVE  GateOK(d)'
BY DEF GateOK, Busy, Steps

LEMMA EmptyAlone ==
  ASSUME \A d \in Card : step'[d] \notin Busy
  PROVE  AloneOK'
BY DEF AloneOK

LEMMA NoBuildType == NoBuild \in BuildRec
<1>1. NoChecks \in [core : SUBSET Buckets, sec : SUBSET Buckets]
  BY DEF NoChecks
<1>2. 0 \in 0..MaxRounds
  BY RunAssumption
<1> QED BY <1>1, <1>2 DEF NoBuild, BuildRec, Results, ItemStates

LEMMA RunOnceInv ==
  ASSUME AutopilotInv, NEW resume \in BOOLEAN, RunOnce(resume)
  PROVE  AutopilotInv'
<1> USE DEF RunOnce, NoJournal, NoItem, world
<1>1. InvocationTypes /\ RecordTypes /\ WorldTypes /\ SpendOK /\ ReportOK /\ AloneOK /\ SoloOK
  BY DEF AutopilotInv
<1>2. \A d \in Card : PhaseOK(d) /\ BuildOK(d) /\ HeldOK(d) /\ KeptOK(d) /\ MintOK(d) /\ GateOK(d) /\ RowOK(d)
  BY DEF AutopilotInv, CardOK
<1>3. \A d \in Card : step[d] \in {"none", "ended", "died"}
  BY NobodyAtWork
<1>4. InvocationTypes'
  <2>1. (IF resume THEN ghost.done ELSE {}) \in SUBSET Card
    BY <1>1 DEF InvocationTypes, GhostRec
  <2>2. [ghost EXCEPT !.done = IF resume THEN ghost.done ELSE {}] \in GhostRec
    BY <1>1, <2>1 DEF InvocationTypes, GhostRec
  <2> QED BY <1>1, <2>2 DEF InvocationTypes, Steps
<1>5. RecordTypes'
  BY <1>1, NoBuildType DEF RecordTypes, JournalTypes, Journal, Item, ItemStates, RowStates
<1>6. WorldTypes'
  BY <1>1 DEF WorldTypes, BoardRec
<1>7. ASSUME NEW d \in Card PROVE CardOK(d)'
  <2> USE <1>1, <1>2, <1>3 DEF InvocationTypes
  <2>1. PhaseOK(d)'
    BY DEF PhaseOK, Steps
  <2>2. BuildOK(d)'
    BY DEF BuildOK, Early, Passing, NoBuild, Outcomes, GhostRec, PhaseOK
  <2>3. HeldOK(d)'
    BY DEF HeldOK, Building, WithTree, Busy, Steps, WorldTypes, BoardRec, WorkRec
  <2>4. KeptOK(d)'
    BY DEF KeptOK, Safe, Sent, Recorded, BuildOK, Early, NoBuild, WorldTypes, WorkRec, GhostRec, PhaseOK
  <2>5. MintOK(d)'
    BY DEF MintOK, GhostRec, Steps
  <2>6. RowOK(d)'
    BY DEF RowOK, Told, PhaseOK, RecordTypes, JournalTypes, Journal, Item, WorldTypes, BoardRec
  <2>7. GateOK(d)'
    BY EmptyGate DEF Busy, Steps
  <2> QED BY <2>1, <2>2, <2>3, <2>4, <2>5, <2>6, <2>7 DEF CardOK
<1>8. SpendOK'
  <2>1. \A d \in Card : step'[d] \notin Busy /\ step'[d] \notin Unpaid
    BY <1>1, <1>3 DEF Busy, Unpaid, Steps, InvocationTypes
  <2>2. spent' \in Nat /\ workers' \in Nat /\ spent' <= Ceiling + workers' * MaxRounds
        /\ (phase' \in {"assess", "triage"} => spent' = 0)
    <3>1. spent' = 0 /\ workers' \in Nat
      BY <1>1 DEF SpendOK, InvocationTypes
    <3>2. workers' * MaxRounds \in Nat /\ Ceiling \in Nat
      BY <3>1, Products, RunAssumption
    <3> HIDE DEF RunOnce, Triage
    <3> QED BY <3>1, <3>2
  <2> QED BY <2>1, <2>2, EmptyDesk
<1>9. ReportOK'
  BY <1>1, <1>3 DEF ReportOK
<1>10. SoloOK'
  BY <1>1, <1>2, <1>3 DEF SoloOK, InvocationTypes, Busy, Reading, Steps, GhostRec, RecordTypes, JournalTypes, Journal, Item, PhaseOK
<1>11. AloneOK'
  BY <1>1, <1>3, EmptyAlone DEF Busy, Steps, InvocationTypes
<1> QED BY <1>4, <1>5, <1>6, <1>7, <1>8, <1>9, <1>10, <1>11 DEF AutopilotInv

LEMMA AssessInv ==
  ASSUME AutopilotInv, NEW stale \in SUBSET Card, NEW verdict \in Assessments, Assess(stale, verdict)
  PROVE  AutopilotInv'
<1> USE DEF Assess, journal, money
<1>1. InvocationTypes /\ RecordTypes /\ WorldTypes /\ SpendOK /\ ReportOK /\ AloneOK /\ SoloOK
  BY DEF AutopilotInv
<1>2. \A d \in Card : PhaseOK(d) /\ BuildOK(d) /\ HeldOK(d) /\ KeptOK(d) /\ MintOK(d) /\ GateOK(d) /\ RowOK(d)
  BY DEF AutopilotInv, CardOK
<1>3. \A d \in Card : step[d] \in {"none", "ended", "died"}
  BY NobodyAtWork
<1>4. InvocationTypes'
  BY <1>1, RunAssumption DEF InvocationTypes, GhostRec, Steps
<1>5. RecordTypes'
  BY <1>1, RunAssumption DEF RecordTypes, JournalTypes, Journal, Item, ItemStates, RowStates, BuildRec, NoBuild, Results
<1>6. WorldTypes'
  <2>1. \A d \in Card : board'[d] \in BoardRec
    <3> SUFFICES ASSUME NEW d \in Card PROVE board'[d] \in BoardRec
      OBVIOUS
    <3>1. board[d] \in BoardRec
      BY <1>1 DEF WorldTypes
    <3>2. \A h \in {None, Self, Peer}, b \in BOOLEAN : [board[d] EXCEPT !.holder = h, !.obsolete = b] \in BoardRec
      BY <3>1 DEF BoardRec
    <3> QED BY <3>1, <3>2 DEF BoardRec, Open
  <2>2. board' \in [Card -> BoardRec]
    BY <2>1
  <2> QED BY <1>1, <2>2 DEF WorldTypes
<1>7. ASSUME NEW d \in Card PROVE CardOK(d)'
  <2> USE <1>1, <1>2, <1>3 DEF InvocationTypes
  <2>1. PhaseOK(d)'
    BY DEF PhaseOK, Steps
  <2>2. BuildOK(d)'
    BY DEF BuildOK, Early, Passing, NoBuild, Outcomes, GhostRec, PhaseOK
  <2>3. HeldOK(d)'
    BY DEF HeldOK, Building, WithTree, Busy, Steps, WorldTypes, BoardRec, WorkRec
  <2>4. KeptOK(d)'
    BY DEF KeptOK, Safe, Sent, Recorded, BuildOK, Early, NoBuild, WorldTypes, WorkRec, GhostRec, PhaseOK
  <2>5. MintOK(d)'
    BY DEF MintOK, GhostRec, Steps
  <2>6. RowOK(d)'
    BY DEF RowOK, Told, PhaseOK, RecordTypes, JournalTypes, Journal, Item, WorldTypes, BoardRec
  <2>7. GateOK(d)'
    BY EmptyGate DEF Busy, Steps
  <2> QED BY <2>1, <2>2, <2>3, <2>4, <2>5, <2>6, <2>7 DEF CardOK
<1>8. SpendOK'
  <2>1. \A d \in Card : step'[d] \notin Busy /\ step'[d] \notin Unpaid
    BY <1>1, <1>3 DEF Busy, Unpaid, Steps, InvocationTypes
  <2>2. spent' \in Nat /\ workers' \in Nat /\ spent' <= Ceiling + workers' * MaxRounds
        /\ (phase' \in {"assess", "triage"} => spent' = 0)
    BY <1>1, SpentOK DEF SpendOK, InvocationTypes
  <2> QED BY <2>1, <2>2, EmptyDesk
<1>9. ReportOK'
  BY <1>1, <1>3 DEF ReportOK
<1>10. SoloOK'
  BY <1>1, <1>2, <1>3 DEF SoloOK, InvocationTypes, Busy, Reading, Steps, GhostRec, RecordTypes, JournalTypes, Journal, Item, PhaseOK
<1>11. AloneOK'
  BY <1>1, <1>3, EmptyAlone DEF Busy, Steps, InvocationTypes
<1> QED BY <1>4, <1>5, <1>6, <1>7, <1>8, <1>9, <1>10, <1>11 DEF AutopilotInv

LEMMA CheckpointInv ==
  ASSUME AutopilotInv, Checkpoint
  PROVE  AutopilotInv'
<1> USE DEF Checkpoint, money, talk, world
<1>1. InvocationTypes /\ RecordTypes /\ WorldTypes /\ SpendOK /\ ReportOK /\ AloneOK /\ SoloOK
  BY DEF AutopilotInv
<1>2. \A d \in Card : PhaseOK(d) /\ BuildOK(d) /\ HeldOK(d) /\ KeptOK(d) /\ MintOK(d) /\ GateOK(d) /\ RowOK(d)
  BY DEF AutopilotInv, CardOK
<1>3. \A d \in Card : step[d] \in {"none", "ended", "died"}
  BY NobodyAtWork
<1>4. InvocationTypes'
  BY <1>1, RunAssumption DEF InvocationTypes, GhostRec, Steps
<1>5. RecordTypes'
  BY <1>1, RunAssumption DEF RecordTypes, JournalTypes, Journal, Item, ItemStates, RowStates, BuildRec, NoBuild, Results
<1>6. WorldTypes'
  BY <1>1 DEF WorldTypes, BoardRec
<1>7. ASSUME NEW d \in Card PROVE CardOK(d)'
  <2> USE <1>1, <1>2, <1>3 DEF InvocationTypes
  <2>1. PhaseOK(d)'
    BY DEF PhaseOK, Steps
  <2>2. BuildOK(d)'
    BY DEF BuildOK, Early, Passing, NoBuild, Outcomes, GhostRec, PhaseOK
  <2>3. HeldOK(d)'
    BY DEF HeldOK, Building, WithTree, Busy, Steps, WorldTypes, BoardRec, WorkRec
  <2>4. KeptOK(d)'
    BY DEF KeptOK, Safe, Sent, Recorded, BuildOK, Early, NoBuild, WorldTypes, WorkRec, GhostRec, PhaseOK
  <2>5. MintOK(d)'
    BY DEF MintOK, GhostRec, Steps
  <2>6. RowOK(d)'
    BY DEF RowOK, Told, PhaseOK, RecordTypes, JournalTypes, Journal, Item, WorldTypes, BoardRec
  <2>7. GateOK(d)'
    BY EmptyGate DEF Busy, Steps
  <2> QED BY <2>1, <2>2, <2>3, <2>4, <2>5, <2>6, <2>7 DEF CardOK
<1>8. SpendOK'
  <2>1. \A d \in Card : step'[d] \notin Busy /\ step'[d] \notin Unpaid
    BY <1>1, <1>3 DEF Busy, Unpaid, Steps, InvocationTypes
  <2>2. spent' \in Nat /\ workers' \in Nat /\ spent' <= Ceiling + workers' * MaxRounds
        /\ (phase' \in {"assess", "triage"} => spent' = 0)
    BY <1>1, SpentOK DEF SpendOK, InvocationTypes
  <2> QED BY <2>1, <2>2, EmptyDesk
<1>9. ReportOK'
  BY <1>1, <1>3 DEF ReportOK
<1>10. SoloOK'
  BY <1>1, <1>2, <1>3 DEF SoloOK, InvocationTypes, Busy, Reading, Steps, GhostRec, RecordTypes, JournalTypes, Journal, Item, PhaseOK
<1>11. AloneOK'
  BY <1>1, <1>3, EmptyAlone DEF Busy, Steps, InvocationTypes
<1> QED BY <1>4, <1>5, <1>6, <1>7, <1>8, <1>9, <1>10, <1>11 DEF AutopilotInv

LEMMA TriageInv ==
  ASSUME AutopilotInv, NEW off \in SUBSET Card, NEW n \in Nat \ {0}, Triage(off, n)
  PROVE  AutopilotInv'
<1> USE DEF Triage, Local, Unsettled, NoItem, money, talk, world
<1>1. InvocationTypes /\ RecordTypes /\ WorldTypes /\ SpendOK /\ ReportOK /\ AloneOK /\ SoloOK
  BY DEF AutopilotInv
<1>2. \A d \in Card : PhaseOK(d) /\ BuildOK(d) /\ HeldOK(d) /\ KeptOK(d) /\ MintOK(d) /\ GateOK(d) /\ RowOK(d)
  BY DEF AutopilotInv, CardOK
<1>3. \A d \in Card : step[d] \in {"none", "ended", "died"}
  BY NobodyAtWork
<1>4. InvocationTypes'
  BY <1>1, RunAssumption DEF InvocationTypes, GhostRec, Steps
<1>5. RecordTypes'
  <2>1. [NoItem EXCEPT !.state = "off-node"] \in Item
    BY DEF Item, ItemStates
  <2>2. mem' \in Journal
    BY <1>1, <2>1 DEF RecordTypes, JournalTypes, Journal
  <2>3. <<"off-node">> \in Seq(RowStates)
    BY DEF RowStates, ItemStates
  <2>4. rows' \in [Card -> Seq(RowStates)]
    BY <1>1, <2>3 DEF RecordTypes
  <2> QED BY <1>1, <2>2, <2>4 DEF RecordTypes, JournalTypes
<1>6. WorldTypes'
  BY <1>1 DEF WorldTypes, BoardRec
<1>7. ASSUME NEW d \in Card PROVE CardOK(d)'
  <2> USE <1>1, <1>2, <1>3 DEF InvocationTypes
  <2>1. PhaseOK(d)'
    BY DEF PhaseOK, Steps
  <2>2. BuildOK(d)'
    BY DEF BuildOK, Early, Passing, NoBuild, Outcomes, GhostRec, PhaseOK
  <2>3. HeldOK(d)'
    BY DEF HeldOK, Building, WithTree, Busy, Steps, WorldTypes, BoardRec, WorkRec
  <2>4. KeptOK(d)'
    BY DEF KeptOK, Safe, Sent, Recorded, BuildOK, Early, NoBuild, WorldTypes, WorkRec, GhostRec, PhaseOK
  <2>5. MintOK(d)'
    BY DEF MintOK, GhostRec, Steps
  <2>6. RowOK(d)'
    BY DEF RowOK, Told, PhaseOK, RecordTypes, JournalTypes, Journal, Item, WorldTypes, BoardRec
  <2>7. GateOK(d)'
    BY EmptyGate DEF Busy, Steps
  <2> QED BY <2>1, <2>2, <2>3, <2>4, <2>5, <2>6, <2>7 DEF CardOK
<1>8. SpendOK'
  <2>1. \A d \in Card : step'[d] \notin Busy /\ step'[d] \notin Unpaid
    BY <1>1, <1>3 DEF Busy, Unpaid, Steps, InvocationTypes
  <2>2. spent' \in Nat /\ workers' \in Nat /\ spent' <= Ceiling + workers' * MaxRounds
        /\ (phase' \in {"assess", "triage"} => spent' = 0)
    <3>1. spent' = 0 /\ workers' \in Nat
      BY <1>1 DEF SpendOK, InvocationTypes
    <3>2. workers' * MaxRounds \in Nat /\ Ceiling \in Nat
      BY <3>1, Products, RunAssumption
    <3> HIDE DEF RunOnce, Triage
    <3> QED BY <3>1, <3>2
  <2> QED BY <2>1, <2>2, EmptyDesk
<1>9. ReportOK'
  BY <1>1, <1>3 DEF ReportOK
<1>10. SoloOK'
  BY <1>1, <1>2, <1>3 DEF SoloOK, InvocationTypes, Busy, Reading, Steps, GhostRec, RecordTypes, JournalTypes, Journal, Item, PhaseOK
<1>11. AloneOK'
  BY <1>1, <1>3, EmptyAlone DEF Busy, Steps, InvocationTypes
<1> QED BY <1>4, <1>5, <1>6, <1>7, <1>8, <1>9, <1>10, <1>11 DEF AutopilotInv

LEMMA AbortInv ==
  ASSUME AutopilotInv, Abort
  PROVE  AutopilotInv'
<1> USE DEF Abort, journal, money, world
<1>1. InvocationTypes /\ RecordTypes /\ WorldTypes /\ SpendOK /\ ReportOK /\ AloneOK /\ SoloOK
  BY DEF AutopilotInv
<1>2. \A d \in Card : PhaseOK(d) /\ BuildOK(d) /\ HeldOK(d) /\ KeptOK(d) /\ MintOK(d) /\ GateOK(d) /\ RowOK(d)
  BY DEF AutopilotInv, CardOK
<1>3. \A d \in Card : step[d] \in {"none", "queued", "ended", "died"}
  <2>1. CASE Settled
    BY <2>1, NobodyAtWork
  <2>2. CASE workers = 1
    BY <1>1, <2>2 DEF AloneOK, InvocationTypes, Busy, Steps
  <2> QED BY <2>1, <2>2
<1>4. InvocationTypes'
  BY <1>1, RunAssumption DEF InvocationTypes, GhostRec, Steps
<1>5. RecordTypes'
  BY <1>1, RunAssumption DEF RecordTypes, JournalTypes, Journal, Item, ItemStates, RowStates, BuildRec, NoBuild, Results
<1>6. WorldTypes'
  BY <1>1 DEF WorldTypes, BoardRec
<1>7. ASSUME NEW d \in Card PROVE CardOK(d)'
  <2> USE <1>1, <1>2, <1>3 DEF InvocationTypes
  <2>1. PhaseOK(d)'
    BY DEF PhaseOK, Steps
  <2>2. BuildOK(d)'
    BY DEF BuildOK, Early, Passing, NoBuild, Outcomes, GhostRec, PhaseOK
  <2>3. HeldOK(d)'
    BY DEF HeldOK, Building, WithTree, Busy, Steps, WorldTypes, BoardRec, WorkRec
  <2>4. KeptOK(d)'
    BY DEF KeptOK, Safe, Sent, Recorded, BuildOK, Early, NoBuild, WorldTypes, WorkRec, GhostRec, PhaseOK
  <2>5. MintOK(d)'
    BY DEF MintOK, GhostRec, Steps
  <2>6. RowOK(d)'
    BY DEF RowOK, Told, PhaseOK, RecordTypes, JournalTypes, Journal, Item, WorldTypes, BoardRec
  <2>7. GateOK(d)'
    BY EmptyGate DEF Busy, Steps
  <2> QED BY <2>1, <2>2, <2>3, <2>4, <2>5, <2>6, <2>7 DEF CardOK
<1>8. SpendOK'
  <2>1. \A d \in Card : step'[d] \notin Busy /\ step'[d] \notin Unpaid
    BY <1>1, <1>3 DEF Busy, Unpaid, Steps, InvocationTypes
  <2>2. spent' \in Nat /\ workers' \in Nat /\ spent' <= Ceiling + workers' * MaxRounds
        /\ (phase' \in {"assess", "triage"} => spent' = 0)
    BY <1>1, SpentOK DEF SpendOK, InvocationTypes
  <2> QED BY <2>1, <2>2, EmptyDesk
<1>9. ReportOK'
  BY <1>1, <1>3 DEF ReportOK
<1>10. SoloOK'
  BY <1>1, <1>2, <1>3 DEF SoloOK, InvocationTypes, Busy, Reading, Steps, GhostRec, RecordTypes, JournalTypes, Journal, Item, PhaseOK
<1>11. AloneOK'
  BY <1>1, <1>3, EmptyAlone DEF Busy, Steps, InvocationTypes
<1> QED BY <1>4, <1>5, <1>6, <1>7, <1>8, <1>9, <1>10, <1>11 DEF AutopilotInv

LEMMA ReportInv ==
  ASSUME AutopilotInv, Report
  PROVE  AutopilotInv'
<1> USE DEF Report, Settled, Died, money, world
<1>1. InvocationTypes /\ RecordTypes /\ WorldTypes /\ SpendOK /\ ReportOK /\ AloneOK /\ SoloOK
  BY DEF AutopilotInv
<1>2. \A d \in Card : PhaseOK(d) /\ BuildOK(d) /\ HeldOK(d) /\ KeptOK(d) /\ MintOK(d) /\ GateOK(d) /\ RowOK(d)
  BY DEF AutopilotInv, CardOK
<1>3. \A d \in Card : step[d] \in {"none", "ended", "died"}
  BY NobodyAtWork
<1>4. InvocationTypes'
  BY <1>1, RunAssumption DEF InvocationTypes, GhostRec, Steps
<1>5. RecordTypes'
  BY <1>1, RunAssumption DEF RecordTypes, JournalTypes, Journal, Item, ItemStates, RowStates, BuildRec, NoBuild, Results
<1>6. WorldTypes'
  BY <1>1 DEF WorldTypes, BoardRec
<1>7. ASSUME NEW d \in Card PROVE CardOK(d)'
  <2> USE <1>1, <1>2, <1>3 DEF InvocationTypes
  <2>1. PhaseOK(d)'
    BY DEF PhaseOK, Steps
  <2>2. BuildOK(d)'
    BY DEF BuildOK, Early, Passing, NoBuild, Outcomes, GhostRec, PhaseOK
  <2>3. HeldOK(d)'
    BY DEF HeldOK, Building, WithTree, Busy, Steps, WorldTypes, BoardRec, WorkRec
  <2>4. KeptOK(d)'
    BY DEF KeptOK, Safe, Sent, Recorded, BuildOK, Early, NoBuild, WorldTypes, WorkRec, GhostRec, PhaseOK
  <2>5. MintOK(d)'
    BY DEF MintOK, GhostRec, Steps
  <2>6. RowOK(d)'
    BY DEF RowOK, Told, PhaseOK, RecordTypes, JournalTypes, Journal, Item, WorldTypes, BoardRec
  <2>7. GateOK(d)'
    BY EmptyGate DEF Busy, Steps
  <2> QED BY <2>1, <2>2, <2>3, <2>4, <2>5, <2>6, <2>7 DEF CardOK
<1>8. SpendOK'
  <2>1. \A d \in Card : step'[d] \notin Busy /\ step'[d] \notin Unpaid
    BY <1>1, <1>3 DEF Busy, Unpaid, Steps, InvocationTypes
  <2>2. spent' \in Nat /\ workers' \in Nat /\ spent' <= Ceiling + workers' * MaxRounds
        /\ (phase' \in {"assess", "triage"} => spent' = 0)
    BY <1>1, SpentOK DEF SpendOK, InvocationTypes
  <2> QED BY <2>1, <2>2, EmptyDesk
<1>9. ReportOK'
  BY <1>1, <1>3 DEF ReportOK
<1>10. SoloOK'
  BY <1>1, <1>2, <1>3 DEF SoloOK, InvocationTypes, Busy, Reading, Steps, GhostRec, RecordTypes, JournalTypes, Journal, Item, PhaseOK
<1>11. AloneOK'
  BY <1>1, <1>3, EmptyAlone DEF Busy, Steps, InvocationTypes
<1> QED BY <1>4, <1>5, <1>6, <1>7, <1>8, <1>9, <1>10, <1>11 DEF AutopilotInv

LEMMA CleanupInv ==
  ASSUME AutopilotInv, Cleanup
  PROVE  AutopilotInv'
<1> USE DEF Cleanup, Reclaimed, journal, money, talk
<1>1. InvocationTypes /\ RecordTypes /\ WorldTypes /\ SpendOK /\ ReportOK /\ AloneOK /\ SoloOK
  BY DEF AutopilotInv
<1>2. \A d \in Card : PhaseOK(d) /\ BuildOK(d) /\ HeldOK(d) /\ KeptOK(d) /\ MintOK(d) /\ GateOK(d) /\ RowOK(d)
  BY DEF AutopilotInv, CardOK
<1>3. \A d \in Card : step[d] \in {"none", "ended", "died"}
  BY NobodyAtWork
<1>4. InvocationTypes'
  BY <1>1, RunAssumption DEF InvocationTypes, GhostRec, Steps
<1>5. RecordTypes'
  BY <1>1, RunAssumption DEF RecordTypes, JournalTypes, Journal, Item, ItemStates, RowStates, BuildRec, NoBuild, Results
<1>6. WorldTypes'
  <2>1. \A d \in Card : work[d] \in WorkRec /\ Reclaimed(work[d]) \in WorkRec
    BY <1>1 DEF WorldTypes, WorkRec
  <2>2. work' \in [Card -> WorkRec]
    BY <2>1
  <2> QED BY <1>1, <2>2 DEF WorldTypes
<1>7. ASSUME NEW d \in Card PROVE CardOK(d)'
  <2> USE <1>1, <1>2, <1>3 DEF InvocationTypes
  <2>1. PhaseOK(d)'
    BY DEF PhaseOK, Steps
  <2>2. BuildOK(d)'
    BY DEF BuildOK, Early, Passing, NoBuild, Outcomes, GhostRec, PhaseOK
  <2>3. HeldOK(d)'
    BY DEF HeldOK, Building, WithTree, Busy, Steps, WorldTypes, BoardRec, WorkRec
  <2>4. KeptOK(d)'
    <3>1. work'[d].pushed = work[d].pushed /\ work'[d].remote = work[d].remote
      BY DEF WorldTypes, WorkRec
    <3>2. Safe(d)' <=> Safe(d)
      BY <3>1 DEF Safe
    <3> QED BY <3>2 DEF KeptOK
  <2>5. MintOK(d)'
    BY DEF MintOK, GhostRec, Steps
  <2>6. RowOK(d)'
    BY DEF RowOK, Told, PhaseOK, RecordTypes, JournalTypes, Journal, Item, WorldTypes, BoardRec
  <2>7. GateOK(d)'
    BY EmptyGate DEF Busy, Steps
  <2> QED BY <2>1, <2>2, <2>3, <2>4, <2>5, <2>6, <2>7 DEF CardOK
<1>8. SpendOK'
  <2>1. \A d \in Card : step'[d] \notin Busy /\ step'[d] \notin Unpaid
    BY <1>1, <1>3 DEF Busy, Unpaid, Steps, InvocationTypes
  <2>2. spent' \in Nat /\ workers' \in Nat /\ spent' <= Ceiling + workers' * MaxRounds
        /\ (phase' \in {"assess", "triage"} => spent' = 0)
    BY <1>1, SpentOK DEF SpendOK, InvocationTypes
  <2> QED BY <2>1, <2>2, EmptyDesk
<1>9. ReportOK'
  BY <1>1, <1>3 DEF ReportOK
<1>10. SoloOK'
  BY <1>1, <1>2, <1>3 DEF SoloOK, InvocationTypes, Busy, Reading, Steps, GhostRec, RecordTypes, JournalTypes, Journal, Item, PhaseOK
<1>11. AloneOK'
  BY <1>1, <1>3, EmptyAlone DEF Busy, Steps, InvocationTypes
<1> QED BY <1>4, <1>5, <1>6, <1>7, <1>8, <1>9, <1>10, <1>11 DEF AutopilotInv

LEMMA PeerStepInv ==
  ASSUME AutopilotInv, NEW c \in Card, PeerStep(c)
  PROVE  AutopilotInv'
<1> USE DEF PeerStep, invocation, journal, money, talk
<1>1. InvocationTypes /\ RecordTypes /\ WorldTypes /\ SpendOK /\ ReportOK /\ AloneOK /\ SoloOK
  BY DEF AutopilotInv
<1>2. \A d \in Card : PhaseOK(d) /\ BuildOK(d) /\ HeldOK(d) /\ KeptOK(d) /\ MintOK(d) /\ GateOK(d) /\ RowOK(d)
  BY DEF AutopilotInv, CardOK
<1>4. InvocationTypes'
  BY <1>1, RunAssumption DEF InvocationTypes, GhostRec, Steps
<1>5. RecordTypes'
  BY <1>1, RunAssumption DEF RecordTypes, JournalTypes, Journal, Item, ItemStates, RowStates, BuildRec, NoBuild, Results
<1>6. WorldTypes'
  BY <1>1 DEF WorldTypes, BoardRec
<1>7. ASSUME NEW d \in Card PROVE CardOK(d)'
  <2> USE <1>1, <1>2 DEF InvocationTypes
  <2>1. PhaseOK(d)'
    BY DEF PhaseOK, Steps
  <2>2. BuildOK(d)'
    BY DEF BuildOK, Early, Passing, NoBuild, Outcomes, GhostRec, PhaseOK
  <2>3. HeldOK(d)'
    BY DEF HeldOK, Building, WithTree, Busy, Steps, WorldTypes, BoardRec, WorkRec
  <2>4. KeptOK(d)'
    BY DEF KeptOK, Safe, Sent, Recorded, BuildOK, Early, NoBuild, WorldTypes, WorkRec, GhostRec, PhaseOK
  <2>5. MintOK(d)'
    BY DEF MintOK, GhostRec, Steps
  <2>6. RowOK(d)'
    BY DEF RowOK, Told, PhaseOK, RecordTypes, JournalTypes, Journal, Item, WorldTypes, BoardRec
  <2>7. GateOK(d)'
    BY DEF GateOK, WorldTypes, BoardRec
  <2> QED BY <2>1, <2>2, <2>3, <2>4, <2>5, <2>6, <2>7 DEF CardOK
<1>8. SpendOK'
  <2>1. step' = step /\ spent' = spent /\ workers' = workers /\ phase' = phase
    OBVIOUS
  <2> QED BY <1>1, <2>1 DEF SpendOK, At
<1>9. ReportOK'
  BY <1>1 DEF ReportOK
<1>10. SoloOK'
  BY <1>1, <1>2 DEF SoloOK, InvocationTypes, Busy, Reading, Steps, GhostRec, RecordTypes, JournalTypes, Journal, Item, PhaseOK
<1>11. AloneOK'
  BY <1>1 DEF AloneOK, Died
<1> QED BY <1>4, <1>5, <1>6, <1>7, <1>8, <1>9, <1>10, <1>11 DEF AutopilotInv

LEMMA KillSwitchInv ==
  ASSUME AutopilotInv, KillSwitch
  PROVE  AutopilotInv'
<1> USE DEF KillSwitch, invocation, journal, money, talk, world
<1>1. InvocationTypes /\ RecordTypes /\ WorldTypes /\ SpendOK /\ ReportOK /\ AloneOK /\ SoloOK
  BY DEF AutopilotInv
<1>2. \A d \in Card : PhaseOK(d) /\ BuildOK(d) /\ HeldOK(d) /\ KeptOK(d) /\ MintOK(d) /\ GateOK(d) /\ RowOK(d)
  BY DEF AutopilotInv, CardOK
<1>4. InvocationTypes'
  BY <1>1, RunAssumption DEF InvocationTypes, GhostRec, Steps
<1>5. RecordTypes'
  BY <1>1, RunAssumption DEF RecordTypes, JournalTypes, Journal, Item, ItemStates, RowStates, BuildRec, NoBuild, Results
<1>6. WorldTypes'
  BY <1>1 DEF WorldTypes, BoardRec
<1>7. ASSUME NEW d \in Card PROVE CardOK(d)'
  <2> USE <1>1, <1>2 DEF InvocationTypes
  <2>1. PhaseOK(d)'
    BY DEF PhaseOK, Steps
  <2>2. BuildOK(d)'
    BY DEF BuildOK, Early, Passing, NoBuild, Outcomes, GhostRec, PhaseOK
  <2>3. HeldOK(d)'
    BY DEF HeldOK, Building, WithTree, Busy, Steps, WorldTypes, BoardRec, WorkRec
  <2>4. KeptOK(d)'
    BY DEF KeptOK, Safe, Sent, Recorded, BuildOK, Early, NoBuild, WorldTypes, WorkRec, GhostRec, PhaseOK
  <2>5. MintOK(d)'
    BY DEF MintOK, GhostRec, Steps
  <2>6. RowOK(d)'
    BY DEF RowOK, Told, PhaseOK, RecordTypes, JournalTypes, Journal, Item, WorldTypes, BoardRec
  <2>7. GateOK(d)'
    BY DEF GateOK, WorldTypes, BoardRec
  <2> QED BY <2>1, <2>2, <2>3, <2>4, <2>5, <2>6, <2>7 DEF CardOK
<1>8. SpendOK'
  <2>1. step' = step /\ spent' = spent /\ workers' = workers /\ phase' = phase
    OBVIOUS
  <2> QED BY <1>1, <2>1 DEF SpendOK, At
<1>9. ReportOK'
  BY <1>1 DEF ReportOK
<1>10. SoloOK'
  BY <1>1, <1>2 DEF SoloOK, InvocationTypes, Busy, Reading, Steps, GhostRec, RecordTypes, JournalTypes, Journal, Item, PhaseOK
<1>11. AloneOK'
  BY <1>1 DEF AloneOK, Died
<1> QED BY <1>4, <1>5, <1>6, <1>7, <1>8, <1>9, <1>10, <1>11 DEF AutopilotInv

LEMMA CrashInv ==
  ASSUME AutopilotInv, Crash
  PROVE  AutopilotInv'
<1> USE DEF Crash, NoJournal, NoItem, money, world
<1>1. InvocationTypes /\ RecordTypes /\ WorldTypes /\ SpendOK /\ ReportOK /\ AloneOK /\ SoloOK
  BY DEF AutopilotInv
<1>2. \A d \in Card : PhaseOK(d) /\ BuildOK(d) /\ HeldOK(d) /\ KeptOK(d) /\ MintOK(d) /\ GateOK(d) /\ RowOK(d)
  BY DEF AutopilotInv, CardOK
<1>4. InvocationTypes'
  <2>1. [c \in Card |-> IF step[c] = "recordSettlement" THEN ghost.cut[c] + 1 ELSE ghost.cut[c]] \in [Card -> Nat]
    BY <1>1 DEF InvocationTypes, GhostRec
  <2>2. ghost' \in GhostRec
    <3>1. \A f \in [Card -> Nat] : [ghost EXCEPT !.cut = f] \in GhostRec
      BY <1>1 DEF InvocationTypes, GhostRec
    <3> QED BY <2>1, <3>1
  <2>3. crashes' \in 0..MaxCrashes
    BY <1>1, RunAssumption DEF InvocationTypes
  <2> QED BY <1>1, <2>2, <2>3 DEF InvocationTypes, Steps
<1>5. RecordTypes'
  BY <1>1, NoBuildType DEF RecordTypes, JournalTypes, Journal, Item, ItemStates, RowStates
<1>6. WorldTypes'
  BY <1>1 DEF WorldTypes, BoardRec
<1>7. ASSUME NEW d \in Card PROVE CardOK(d)'
  <2> USE <1>1, <1>2 DEF InvocationTypes
  <2>1. PhaseOK(d)'
    BY DEF PhaseOK, Steps
  <2>2. BuildOK(d)'
    BY DEF BuildOK, Early, Passing, NoBuild, Outcomes, GhostRec, PhaseOK
  <2>3. HeldOK(d)'
    BY DEF HeldOK, Building, WithTree, Busy, Steps, WorldTypes, BoardRec, WorkRec
  <2>4. KeptOK(d)'
    BY DEF KeptOK, Safe, Sent, Recorded, BuildOK, Early, NoBuild, WorldTypes, WorkRec, GhostRec, PhaseOK
  <2>5. MintOK(d)'
    BY DEF MintOK, GhostRec, Steps
  <2>6. RowOK(d)'
    BY DEF RowOK, Told, PhaseOK, RecordTypes, JournalTypes, Journal, Item, WorldTypes, BoardRec
  <2>7. GateOK(d)'
    BY EmptyGate DEF Busy, Steps
  <2> QED BY <2>1, <2>2, <2>3, <2>4, <2>5, <2>6, <2>7 DEF CardOK
<1>8. SpendOK'
  <2>1. \A d \in Card : step'[d] \notin Busy /\ step'[d] \notin Unpaid
    BY <1>1 DEF Busy, Unpaid, Steps, InvocationTypes
  <2>2. spent' \in Nat /\ workers' \in Nat /\ spent' <= Ceiling + workers' * MaxRounds
        /\ (phase' \in {"assess", "triage"} => spent' = 0)
    BY <1>1, SpentOK DEF SpendOK, InvocationTypes
  <2> QED BY <2>1, <2>2, EmptyDesk
<1>9. ReportOK'
  BY <1>1 DEF ReportOK
<1>10. SoloOK'
  BY <1>1, <1>2 DEF SoloOK, InvocationTypes, Busy, Reading, Steps, GhostRec, RecordTypes, JournalTypes, Journal, Item, PhaseOK
<1>11. AloneOK'
  BY <1>1, EmptyAlone DEF Busy, Steps, InvocationTypes
<1> QED BY <1>4, <1>5, <1>6, <1>7, <1>8, <1>9, <1>10, <1>11 DEF AutopilotInv

-----------------------------------------------------------------------------
(* The theorems. *)

LEMMA InitInv ==
  ASSUME Init
  PROVE  AutopilotInv
<1> USE DEF Init, NoBuild, NoJournal, NoItem, NoWork, NoPr
<1>1. InvocationTypes
  <2>1. ghost \in GhostRec
    BY DEF GhostRec
  <2>2. crashes \in 0..MaxCrashes
    BY RunAssumption
  <2>3. step \in [Card -> Steps] /\ minted \in [Card -> Nat]
    BY DEF Steps
  <2>4. workers \in Nat \ {0} /\ runs \in Nat /\ spent \in Nat
    BY SMT
  <2>6. stopped \in BOOLEAN
    BY Zenon
  <2>5. scope \subseteq Card /\ settled \subseteq Card /\ phase = "idle"
    OBVIOUS
  <2> QED BY <2>1, <2>2, <2>3, <2>4, <2>5, <2>6 DEF InvocationTypes
<1>2. RecordTypes
  <2> HIDE DEF NoBuild
  <2> QED BY NoBuildType DEF RecordTypes, JournalTypes, Journal, Item, ItemStates, RowStates
<1>3. WorldTypes
  BY DEF WorldTypes, BoardRec, WorkRec, PrRec, Heads
<1>4. ASSUME NEW c \in Card PROVE CardOK(c)
  BY <1>1 DEF CardOK, PhaseOK, BuildOK, HeldOK, KeptOK, MintOK, GateOK, RowOK, Early, Passing, Building, Busy, WithTree, Sent,
              Recorded, Outcomes
<1>5. SpendOK
  <2>1. At(Busy) = {} /\ At(Unpaid) = {}
    BY DEF At, Busy, Unpaid
  <2>2. Cardinality(At(Busy)) = 0 /\ Cardinality(At(Unpaid)) = 0
    BY <2>1, FS_EmptySet
  <2> QED BY <2>2, RunAssumption DEF SpendOK
<1>6. ReportOK /\ AloneOK /\ SoloOK
  BY DEF ReportOK, AloneOK, SoloOK, Busy, Reading
<1> QED BY <1>1, <1>2, <1>3, <1>4, <1>5, <1>6 DEF AutopilotInv

LEMMA StepInv ==
  ASSUME AutopilotInv, [Next]_vars
  PROVE  AutopilotInv'
<1>1. ASSUME NEW resume \in BOOLEAN, RunOnce(resume) PROVE AutopilotInv'
  BY <1>1, RunOnceInv
<1>2. ASSUME NEW stale \in {{}, Card}, NEW v \in Assessments, Assess(stale, v) PROVE AutopilotInv'
  <2>1. stale \in SUBSET Card
    OBVIOUS
  <2> QED BY <1>2, <2>1, AssessInv
<1>3. ASSUME NEW off \in Placements, NEW n \in UNION Range(WorkerPicks), Triage(off, n) PROVE AutopilotInv'
  <2>1. off \in SUBSET Card /\ n \in Nat \ {0}
    BY RunAssumption DEF Range
  <2> QED BY <1>3, <2>1, TriageInv
<1>4. CASE Checkpoint
  BY <1>4, CheckpointInv
<1>5. CASE Abort
  BY <1>5, AbortInv
<1>6. CASE Report
  BY <1>6, ReportInv
<1>7. CASE Cleanup
  BY <1>7, CleanupInv
<1>8. ASSUME NEW c \in Card, Worker(c) PROVE AutopilotInv'
  BY <1>8, WorkerInv
<1>9. ASSUME NEW c \in Card, PeerStep(c) PROVE AutopilotInv'
  BY <1>9, PeerStepInv
<1>10. CASE KillSwitch
  BY <1>10, KillSwitchInv
<1>11. CASE Crash
  BY <1>11, CrashInv
<1>12. CASE UNCHANGED vars
  <2> USE <1>12 DEF vars
  <2>1. (InvocationTypes /\ RecordTypes /\ WorldTypes)'
    BY DEF AutopilotInv, InvocationTypes, RecordTypes, WorldTypes, JournalTypes
  <2>2. ASSUME NEW c \in Card PROVE CardOK(c)'
    <3>1. CardOK(c)
      BY DEF AutopilotInv
    <3> QED BY <3>1 DEF CardOK, PhaseOK, BuildOK, HeldOK, KeptOK, Safe, MintOK, GateOK, RowOK, Told
  <2>3. (SpendOK /\ ReportOK /\ AloneOK /\ SoloOK)'
    BY DEF AutopilotInv, SpendOK, At, ReportOK, AloneOK, Died, SoloOK
  <2> QED BY <2>1, <2>2, <2>3 DEF AutopilotInv
<1> QED BY <1>1, <1>2, <1>3, <1>4, <1>5, <1>6, <1>7, <1>8, <1>9, <1>10, <1>11, <1>12 DEF Next, Invocation

\* The parts of AutopilotIsSound follow from the inductive invariant.
LEMMA InvSound ==
  ASSUME AutopilotInv
  PROVE  AutopilotIsSound
<1>1. InvocationTypes /\ RecordTypes /\ WorldTypes /\ SpendOK /\ ReportOK /\ SoloOK
  BY DEF AutopilotInv
<1>2. \A c \in Card : PhaseOK(c) /\ BuildOK(c) /\ HeldOK(c) /\ KeptOK(c) /\ MintOK(c) /\ GateOK(c) /\ RowOK(c)
  BY DEF AutopilotInv, CardOK
<1>3. TypeOK
  <2>1. \A c \in Card :
            /\ build[c].round \in 0..MaxRounds /\ build[c].cost \in 0..MaxRounds
            /\ build[c].result \in Results /\ build[c].entry \in ItemStates
    BY <1>1 DEF RecordTypes, BuildRec
  <2>2. \A c \in Card : mem[c].state \in ItemStates /\ file[c].state \in ItemStates /\ rows[c] \in Seq(RowStates)
    BY <1>1 DEF RecordTypes, JournalTypes, Journal, Item
  <2>3. \A c \in Card : board[c].holder \in {None, Self, Peer} /\ pr[c].status \in {"none", "open", "merged"}
    BY <1>1 DEF WorldTypes, BoardRec, PrRec
  <2> QED BY <1>1, <2>1, <2>2, <2>3 DEF TypeOK, InvocationTypes
<1>4. BuildsUnderClaim
  BY <1>2 DEF BuildsUnderClaim, HeldOK
<1>5. MintedOnce
  BY <1>1, <1>2 DEF MintedOnce, MintOK, InvocationTypes, GhostRec
<1>6. ASSUME phase = "cleanup", NEW c \in scope
      PROVE  \/ rows[c] = <<"off-node">> /\ mem[c].state = "off-node"
             \/ rows[c] \in {<<"kill-switch">>, <<"budget-hit">>}
             \/ /\ build[c].entry \in Outcomes /\ rows[c] = <<build[c].entry>>
                /\ mem[c].state = build[c].entry /\ session[c] = "ended" /\ Told(c)
  BY <1>1, <1>2, <1>6 DEF PhaseOK, RowOK, InvocationTypes
<1>7. phase = "cleanup" => file = mem /\ pending \subseteq asked
  BY <1>1 DEF ReportOK
<1>8. OneRowPerItem
  <2> SUFFICES ASSUME phase = "cleanup", NEW c \in scope
               PROVE  /\ Len(rows[c]) = 1
                      /\ rows[c][1] \in ItemStates => mem[c].state = rows[c][1] /\ file[c].state = rows[c][1]
                      /\ rows[c][1] \in Done \cup {"finalize-failed", "claim-raced"} => session[c] = "ended"
    BY DEF OneRowPerItem
  <2> QED BY <1>6, <1>7 DEF ItemStates, Done, Outcomes
<1>9. OvershootBounded
  BY <1>1, SpentOK DEF OvershootBounded
<1>10. ReportedToOperator
  <2> SUFFICES ASSUME phase = "cleanup", NEW c \in scope
               PROVE  /\ rows[c] \in {<<"escalated">>, <<"finalize-failed">>} => <<rows[c][1], c>> \in asked
                      /\ rows[c] = <<"finalized">> => board[c].completed \/ <<"merge", c>> \in asked
    BY DEF ReportedToOperator
  <2>1. CASE Told(c) /\ rows[c] = <<build[c].entry>>
    BY <1>7, <2>1 DEF Told
  <2> QED BY <1>6, <2>1
<1>11. PassedWorkKept
  BY <1>2 DEF PassedWorkKept, KeptOK, Safe, Kept, Recorded
<1> QED BY <1>3, <1>4, <1>5, <1>8, <1>9, <1>10, <1>11 DEF AutopilotIsSound

\* Whatever rounds, crashes, failing calls, resumptions, competing claims, kill
\* switches and checks come together: a card is built under this node's claim only,
\* paid once and once more for each settlement whose journal row was lost or could
\* not be read, recorded by one row that agrees with the run journal, reported to
\* the operator, charged within the ceiling's overshoot, and with one worker and a
\* remote passed work is there unless git refused or failed to push it
\* (orchestrator.py, engineering.py, autopilot_cost.py).
THEOREM AutopilotSound == Spec => []AutopilotIsSound
<1>1. Init => AutopilotInv
  BY InitInv
<1>2. AutopilotInv /\ [Next]_vars => AutopilotInv'
  BY StepInv
<1>3. AutopilotInv => AutopilotIsSound
  BY InvSound
<1> QED BY <1>1, <1>2, <1>3, PTL DEF Spec

\* Only gh's merge makes a pull request merged.
LEMMA OnlyMerge ==
  ASSUME AutopilotInv, [Next]_vars, NEW c \in Card, pr[c].status # "merged", pr'[c].status = "merged"
  PROVE  step[c] = "ghMerge"
<1>1. pr \in [Card -> PrRec]
  BY DEF AutopilotInv, WorldTypes
<1>2. ASSUME NEW d \in Card, Worker(d) PROVE step[c] = "ghMerge"
  <2>1. OthersKept(d)
    BY <1>2, WorkerFrame DEF AutopilotInv
  <2>2. c = d
    BY <2>1 DEF OthersKept
  <2>3. CASE pr' = pr
    BY <2>3
  <2>4. CASE \E sent \in Sends, created \in BOOLEAN : SalvageToReview(c, sent, created)
    BY <1>1, <2>4 DEF SalvageToReview, Opened, NoPr
  <2>5. CASE \E ok \in BOOLEAN : OpenPr(c, ok)
    BY <1>1, <2>5 DEF OpenPr, Opened, NoPr
  <2>6. CASE \E q \in Policies, landed, reported \in BOOLEAN : GhMerge(c, q, landed, reported)
    BY <2>6 DEF GhMerge
  <2> QED BY <1>2, <2>2, <2>3, <2>4, <2>5, <2>6 DEF Worker, StopItem, StartItem, Claim, ClaimRaced, RecordClaim,
             MakeWorktree, SetWorktree, EmptyRound, RoundsSpent, RunRaises, GradedRound, DirectRound,
             WriteRunRecord, Account, Escalate, Finalize, FinalizeMissing, FinalizeRaises, RecordSuccess,
             ClearAttempts, ArchiveAttempts, CommitAndPush, Settle, RecordSettlement, HoldForReview,
             PruneForMerge, Complete, WriteEntry, OutcomeRow, world
<1>3. pr' = pr \/ \E d \in Card : Worker(d)
  BY DEF Next, Invocation, RunOnce, Assess, Checkpoint, Triage, Abort, Report, Cleanup, PeerStep, KillSwitch, Crash,
         world, vars
<1> QED BY <1>2, <1>3

\* What a green verdict says of the checks.
LEMMA GreenChecks ==
  ASSUME NEW core, NEW sec, ChecksVerdict(core, sec) = "green"
  PROVE  core # {} /\ {"fail", "pending"} \cap (core \cup sec) = {}
BY DEF ChecksVerdict

\* A pull request is merged without a human only when the twin gate certified the
\* last graded round of its card, in a repository that merges automatically, after
\* a core check was seen and none had failed or was pending, and when the local
\* branch touches no guardrail file that git could name (engineering.py finalize).
THEOREM AutopilotMergesThroughGates == Spec => MergedOnlyThroughGates
<1> DEFINE A == \A c \in Card : pr[c].status # "merged" /\ pr'[c].status = "merged" =>
                    /\ c \in ghost.gated /\ c \in AutoMerge \ DirectCards
                    /\ build[c].checks.core # {}
                    /\ {"fail", "pending"} \cap (build[c].checks.core \cup build[c].checks.sec) = {}
                    /\ work[c].commit /\ work[c].guarded => "diff" \in build[c].lost
<1>1. Init => AutopilotInv
  BY InitInv
<1>2. AutopilotInv /\ [Next]_vars => AutopilotInv'
  BY StepInv
<1>3. AutopilotInv /\ [Next]_vars => A
  <2> SUFFICES ASSUME AutopilotInv, [Next]_vars, NEW c \in Card, pr[c].status # "merged", pr'[c].status = "merged"
               PROVE  /\ c \in ghost.gated /\ c \in AutoMerge \ DirectCards
                      /\ build[c].checks.core # {}
                      /\ {"fail", "pending"} \cap (build[c].checks.core \cup build[c].checks.sec) = {}
                      /\ work[c].commit /\ work[c].guarded => "diff" \in build[c].lost
    OBVIOUS
  <2>1. step[c] = "ghMerge"
    BY OnlyMerge
  <2>2. GateOK(c) /\ BuildOK(c)
    BY DEF AutopilotInv, CardOK
  <2>3. /\ c \in AutoMerge /\ c \notin DirectCards
        /\ ChecksVerdict(build[c].checks.core, build[c].checks.sec) = "green"
        /\ work[c].commit /\ work[c].guarded => "diff" \in build[c].lost
    BY <2>1, <2>2 DEF GateOK
  <2>4. c \in ghost.gated
    BY <2>1, <2>2, <2>3 DEF BuildOK, Passing
  <2> QED BY <2>3, <2>4, GreenChecks
<1> QED BY <1>1, <1>2, <1>3, PTL DEF Spec, MergedOnlyThroughGates

\* A failure is forgotten by ClearAttempts alone.
LEMMA OnlyClearForgets ==
  ASSUME AutopilotInv, [Next]_vars, NEW c \in Card, board[c].failed, ~board'[c].failed
  PROVE  step[c] = "clear"
<1>1. board \in [Card -> BoardRec]
  BY DEF AutopilotInv, WorldTypes
<1>2. ASSUME NEW d \in Card, Worker(d) PROVE step[c] = "clear"
  <2>1. OthersKept(d)
    BY <1>2, WorkerFrame DEF AutopilotInv
  <2>2. c = d
    BY <2>1 DEF OthersKept
  <2>3. CASE Claim(c)
    BY <1>1, <2>3 DEF Claim, BoardRec
  <2>4. CASE EmptyRound(c)
    BY <1>1, <2>4 DEF EmptyRound, Failed, BoardRec
  <2>5. CASE RoundsSpent(c)
    BY <1>1, <2>5 DEF RoundsSpent, Failed, BoardRec
  <2>6. CASE \E ok \in BOOLEAN : DirectRound(c, ok)
    BY <1>1, <2>6 DEF DirectRound, Failed, BoardRec
  <2>7. CASE \E ok \in BOOLEAN : RecordSuccess(c, ok)
    BY <1>1, <2>7 DEF RecordSuccess, Succeeded, BoardRec
  <2>8. CASE Complete(c)
    BY <1>1, <2>8 DEF Complete, BoardRec
  <2>9. CASE \E ok \in BOOLEAN : ClearAttempts(c, ok)
    BY <2>9 DEF ClearAttempts
  <2>10. CASE board' = board
    BY <2>10
  <2> QED BY <1>2, <2>2, <2>3, <2>4, <2>5, <2>6, <2>7, <2>8, <2>9, <2>10 DEF Worker, StopItem, StartItem,
             ClaimRaced, RecordClaim, MakeWorktree, SetWorktree, RunRaises, GradedRound, SalvageToReview,
             WriteRunRecord, Account, Escalate, Finalize, FinalizeMissing, FinalizeRaises, ArchiveAttempts,
             CommitAndPush, Settle, RecordSettlement, OpenPr, HoldForReview, PruneForMerge, GhMerge, WriteEntry,
             OutcomeRow, world
<1>3. ASSUME NEW stale, NEW v, Assess(stale, v) PROVE step[c] = "clear"
  BY <1>1, <1>3 DEF Assess, BoardRec
<1>4. ASSUME NEW d \in Card, PeerStep(d) PROVE step[c] = "clear"
  BY <1>1, <1>4 DEF PeerStep, BoardRec
<1>5. CASE board' = board
  BY <1>5
<1> QED BY <1>2, <1>3, <1>4, <1>5 DEF Next, Invocation, RunOnce, Checkpoint, Triage, Abort, Report, Cleanup,
           KillSwitch, Crash, world, vars

\* A card forgets why it failed only when its passed tree is there to be committed
\* and its success was written to its memory, or the board refused that write; and
\* with one worker a card that the run settled is never built again after a crash
\* (engineering.py finalize, orchestrator.py run_once).
THEOREM AutopilotForgetsNothing == Spec => NothingForgotten
<1> DEFINE A == \A c \in Card : board[c].failed /\ ~board'[c].failed
                    => /\ build[c].result = "pass" /\ work[c].tree
                       /\ board[c].succeeded \/ "success" \in build[c].lost
           B == \A c \in Card : step[c] = "claim" /\ step'[c] = "recordClaim" /\ ghost.solo => c \notin ghost.done
<1>1. Init => AutopilotInv
  BY InitInv
<1>2. AutopilotInv /\ [Next]_vars => AutopilotInv'
  BY StepInv
<1>3. AutopilotInv /\ [Next]_vars => A
  <2> SUFFICES ASSUME AutopilotInv, [Next]_vars, NEW c \in Card, board[c].failed, ~board'[c].failed
               PROVE  /\ build[c].result = "pass" /\ work[c].tree
                      /\ board[c].succeeded \/ "success" \in build[c].lost
    OBVIOUS
  <2>1. step[c] = "clear"
    BY OnlyClearForgets
  <2> QED BY <2>1 DEF AutopilotInv, CardOK, BuildOK, HeldOK, GateOK, Passing, WithTree
<1>4. AutopilotInv /\ [Next]_vars => B
  <2> SUFFICES ASSUME AutopilotInv, [Next]_vars, NEW c \in Card, step[c] = "claim", step'[c] = "recordClaim", ghost.solo
               PROVE  c \notin ghost.done
    OBVIOUS
  <2> QED BY DEF AutopilotInv, SoloOK
<1> QED BY <1>1, <1>2, <1>3, <1>4, PTL DEF Spec, NothingForgotten, FailureMemoryKept, ResumeSkipsSettled

-----------------------------------------------------------------------------
(* The operator's decisions. *)

EntryRec == [qid : Qid, content : Contents, due : Nat, answered : BOOLEAN]

StoreRec == [state : {"absent", "pending", "answered", "expired"}, content : Contents, due : Nat,
             born : Nat, queued : Nat, uses : Nat, cut : Nat]

\* A decision was captured more often, or cut short more often, than answered.
Spare(q) == store[q].uses < store[q].queued + store[q].cut

\* The decision whose answer is in the store and not yet in the manifest.
Settling(q) == reply.step = "save" /\ q = Entry.qid

\* A manifest numbers each decision once, and one that it takes for unanswered may
\* be answered, unless its answer is about to be saved.
Usable(m) ==
    /\ m \in Seq(EntryRec)
    /\ \A i, j \in 1 .. Len(m) : m[i].qid = m[j].qid => i = j
    /\ \A i \in 1 .. Len(m) : ~m[i].answered => Spare(m[i].qid) \/ Settling(m[i].qid)

\* The reply in progress is about an unanswered entry of the generation it names.
ReplyOK ==
    /\ reply.step \in {"idle", "store", "save", "expire", "expired"}
    /\ reply.step # "idle" =>
         /\ Usable(reply.m) /\ reply.n \in 1 .. Len(reply.m) /\ ~reply.m[reply.n].answered
         /\ reply.g = Generation(reply.m) /\ Entry.qid \in Captured(store)
         /\ DOMAIN reply = {"step", "m", "n", "g"}

\* Captured decisions are numbered in the order of their capture.
BornOK ==
    /\ \A q \in Qid \ Captured(store) : store[q].queued = 0 /\ store[q].cut = 0 /\ store[q].uses = 0
    /\ \A q \in Captured(store) : store[q].born \in 1 .. Cardinality(Captured(store))
    /\ \A p, q \in Captured(store) : store[p].born = store[q].born => p = q

\* A pending decision may be answered.
PendingOK == \A q \in Qid : store[q].state = "pending" => Spare(q)

StoreOK == store \in [Qid -> StoreRec] /\ BornOK /\ PendingOK /\ AnsweredOnce

DigestInv == StoreOK /\ now \in Nat /\ Usable(manifest) /\ ReplyOK

\* How many members of a set have a smaller number.
RankBy(S, key, q) == Cardinality({p \in S : key[p] < key[q]})

\* In a finite set of different numbers there is one for each rank.
LEMMA EveryRankIsTaken ==
    ASSUME NEW S, IsFiniteSet(S), NEW key \in [S -> Nat], \A p, q \in S : key[p] = key[q] => p = q,
           NEW rank \in 1 .. Cardinality(S)
    PROVE  \E q \in S : RankBy(S, key, q) = rank - 1
<1> DEFINE below(q) == {p \in S : key[p] < key[q]}
           n == Cardinality(S)
           N == 0 .. n - 1
           f == [q \in S |-> Cardinality(below(q))]
<1>1. n \in Nat BY FS_CardinalityType
<1>2. ASSUME NEW q \in S PROVE IsFiniteSet(below(q)) /\ f[q] \in N
  <2>1. below(q) \in SUBSET S /\ q \notin below(q) BY key[q] \in Nat
  <2>2. IsFiniteSet(below(q)) /\ Cardinality(below(q)) <= n /\ (n = Cardinality(below(q)) => S = below(q))
    BY <2>1, FS_Subset
  <2>3. Cardinality(below(q)) \in Nat BY <2>2, FS_CardinalityType
  <2>4. Cardinality(below(q)) # n BY <2>1, <2>2
  <2> HIDE DEF below
  <2> QED BY <1>1, <2>2, <2>3, <2>4
<1>3. ASSUME NEW p \in S, NEW q \in S, key[p] < key[q] PROVE f[p] < f[q]
  <2>1. below(p) \in SUBSET below(q) /\ p \in below(q) /\ p \notin below(p)
    BY <1>3, \A x \in S : key[x] \in Nat
  <2>2. IsFiniteSet(below(q)) /\ f[p] \in Nat /\ f[q] \in Nat
    <3>1. IsFiniteSet(below(q)) /\ f[p] \in N /\ f[q] \in N BY <1>2
    <3> HIDE DEF f, below
    <3> QED BY <1>1, <3>1
  <2>3. Cardinality(below(p)) <= Cardinality(below(q))
        /\ (Cardinality(below(q)) = Cardinality(below(p)) => below(q) = below(p))
    BY <2>1, <2>2, FS_Subset
  <2>4. Cardinality(below(p)) # Cardinality(below(q)) BY <2>1, <2>3
  <2>5. f[p] = Cardinality(below(p)) /\ f[q] = Cardinality(below(q)) OBVIOUS
  <2> HIDE DEF below, f
  <2> QED BY <2>2, <2>3, <2>4, <2>5
<1>4. f \in [S -> N] BY <1>2
<1>5. ASSUME NEW p \in S, NEW q \in S, f[p] = f[q] PROVE p = q
  <2>1. f[p] \in Nat
    <3>1. f[p] \in N BY <1>2
    <3> HIDE DEF f
    <3> QED BY <1>1, <3>1
  <2>2. ~(key[p] < key[q]) /\ ~(key[q] < key[p])
    <3> HIDE DEF f
    <3> QED BY <1>3, <1>5, <2>1
  <2>3. key[p] \in Nat /\ key[q] \in Nat OBVIOUS
  <2>4. key[p] = key[q] BY <2>2, <2>3
  <2> QED BY <2>4
<1>6. f \in Injection(S, N)
  <2> HIDE DEF f
  <2> QED BY <1>4, <1>5 DEF Injection, IsInjective
<1>7. IsFiniteSet(N) /\ Cardinality(N) = n
  <2> HIDE DEF n
  <2>1. 0 \in Int /\ n - 1 \in Int BY <1>1
  <2>2. IsFiniteSet(0 .. n - 1) /\ Cardinality(0 .. n - 1) = IF 0 > n - 1 THEN 0 ELSE n - 1 - 0 + 1
    BY <2>1, FS_Interval
  <2> QED BY <1>1, <2>2
<1>8. f \in Surjection(S, N)
  <2> HIDE DEF f, N
  <2> QED BY <1>6, <1>7, FS_Injection DEF n
<1>9. rank - 1 \in N BY <1>1
<1>10. PICK q \in S : f[q] = rank - 1
  <2> HIDE DEF f, N
  <2> QED BY <1>8, <1>9 DEF Surjection
<1> QED BY <1>10 DEF RankBy

\* A rebuilt manifest numbers the pending decisions, each once, as they are shown.
LEMMA BuiltManifest ==
    ASSUME IsFiniteSet(Qid), NEW s \in [Qid -> StoreRec],
           \A p, q \in Captured(s) : s[p].born = s[q].born => p = q
    PROVE  /\ BuildManifest(s) \in Seq(EntryRec)
           /\ \A i, j \in 1 .. Len(BuildManifest(s)) :
                BuildManifest(s)[i].qid = BuildManifest(s)[j].qid => i = j
           /\ \A i \in 1 .. Len(BuildManifest(s)) : s[BuildManifest(s)[i].qid].state = "pending"
<1>1. PICK open : open = {q \in Qid : s[q].state = "pending"} OBVIOUS
<1> DEFINE b == [q \in open |-> s[q].born]
           earlier(q) == {p \in open : s[p].born < s[q].born}
           item(i) == CHOOSE q \in open : Cardinality(earlier(q)) = i - 1
           n == Cardinality(open)
           m == [i \in 1 .. n |->
                  [qid |-> item(i), content |-> s[item(i)].content, due |-> s[item(i)].due, answered |-> FALSE]]
<1>2. IsFiniteSet(open) /\ n \in Nat
  <2>1. open \in SUBSET Qid BY <1>1
  <2> QED BY <2>1, FS_Subset, FS_CardinalityType
<1>3. b \in [open -> Nat] /\ \A p, q \in open : b[p] = b[q] => p = q
  <2>1. \A q \in open : q \in Captured(s) /\ s[q] \in StoreRec BY <1>1 DEF Captured
  <2>2. \A q \in open : s[q].born \in Nat BY <2>1 DEF StoreRec
  <2> QED BY <2>1, <2>2
<1>4. ASSUME NEW i \in 1 .. n PROVE item(i) \in open /\ Cardinality(earlier(item(i))) = i - 1
  <2>1. \A q \in open : RankBy(open, b, q) = Cardinality(earlier(q))
    <3>1. \A q \in open : {p \in open : b[p] < b[q]} = earlier(q) OBVIOUS
    <3> QED BY <3>1 DEF RankBy
  <2>2. \E q \in open : RankBy(open, b, q) = i - 1
    <3>1. i \in 1 .. Cardinality(open) OBVIOUS
    <3> HIDE DEF b, earlier, n
    <3> QED BY <1>2, <1>3, <3>1, EveryRankIsTaken
  <2>3. \E q \in open : Cardinality(earlier(q)) = i - 1 BY <2>1, <2>2
  <2> HIDE DEF earlier
  <2> QED BY <2>3
<1>5. BuildManifest(s) = m BY <1>1 DEF BuildManifest
<1>6. ASSUME NEW i \in 1 .. n PROVE m[i] \in EntryRec /\ m[i].qid = item(i)
  <2>1. item(i) \in open BY <1>4
  <2> HIDE DEF item
  <2>2. item(i) \in Qid BY <1>1, <2>1
  <2>3. s[item(i)] \in StoreRec BY <2>2
  <2>4. s[item(i)].content \in Contents /\ s[item(i)].due \in Nat BY <2>3 DEF StoreRec
  <2> QED BY <2>2, <2>4 DEF EntryRec
<1>7. m \in Seq(EntryRec) /\ Len(m) = n
  <2>1. m \in [1 .. n -> EntryRec] BY <1>6
  <2> HIDE DEF m
  <2> QED BY <1>2, <2>1
<1>8. ASSUME NEW i \in 1 .. n, NEW j \in 1 .. n, m[i].qid = m[j].qid PROVE i = j
  <2>1. item(i) = item(j) BY <1>6, <1>8
  <2>2. Cardinality(earlier(item(i))) = i - 1 /\ Cardinality(earlier(item(j))) = j - 1 BY <1>4
  <2> HIDE DEF item, earlier, m
  <2>3. i - 1 = j - 1 BY <2>1, <2>2
  <2> QED BY <1>2, <2>3
<1>9. ASSUME NEW i \in 1 .. n PROVE s[m[i].qid].state = "pending"
  <2>1. m[i].qid \in open BY <1>4, <1>6
  <2> HIDE DEF m
  <2> QED BY <1>1, <2>1
<1> HIDE DEF m, n
<1> QED BY <1>5, <1>7, <1>8, <1>9

\* A manifest stays usable when what may be answered stays so.
LEMMA UsableStays ==
    ASSUME NEW m, Usable(m), \A q \in Qid : Spare(q) \/ Settling(q) => Spare(q)' \/ Settling(q)'
    PROVE  Usable(m)'
<1>1. \A i \in 1 .. Len(m) : m[i].qid \in Qid
  <2>1. m \in Seq(EntryRec) BY DEF Usable
  <2>2. \A i \in 1 .. Len(m) : m[i] \in EntryRec BY <2>1
  <2> QED BY <2>2 DEF EntryRec
<1> QED BY <1>1 DEF Usable

\* The fields of the store are numbers.
LEMMA StoreNumbers ==
    ASSUME store \in [Qid -> StoreRec], NEW q \in Qid
    PROVE  /\ store[q] \in StoreRec /\ store[q].queued \in Nat /\ store[q].uses \in Nat
           /\ store[q].cut \in Nat /\ store[q].born \in Nat /\ store[q].content \in Contents
<1>1. store[q] \in StoreRec OBVIOUS
<1> QED BY <1>1 DEF StoreRec

\* Captured decisions are as many as there are, and one more with a new one.
LEMMA CapturedIsFinite ==
    ASSUME IsFiniteSet(Qid), NEW s
    PROVE  IsFiniteSet(Captured(s)) /\ Cardinality(Captured(s)) \in Nat
<1>1. Captured(s) \in SUBSET Qid BY DEF Captured
<1> QED BY <1>1, FS_Subset, FS_CardinalityType

\* Queueing a decision, for the first time or again.
LEMMA QueuedKeeps ==
    ASSUME IsFiniteSet(Qid), Ttl \in Nat, now \in Nat, StoreOK, NEW q \in Qid, NEW c \in Contents,
           store' = QueuedIn(store, q, c)
    PROVE  /\ StoreOK' /\ \A p \in Qid : Spare(p) => Spare(p)'
           /\ \A p \in Qid : store'[p].uses = store[p].uses /\ store'[p].queued >= store[p].queued
           /\ store'[q].queued > 0
<1>1. PICK born : born = IF q \in Captured(store) THEN store[q].born ELSE 1 + Cardinality(Captured(store))
  OBVIOUS
<1>2. PICK r : r = [state |-> "pending", content |-> c, due |-> now + Ttl, born |-> born,
                    queued |-> store[q].queued + 1, uses |-> store[q].uses, cut |-> store[q].cut]
  OBVIOUS
<1>3. store \in [Qid -> StoreRec] BY DEF StoreOK
<1>4. /\ IsFiniteSet(Captured(store)) /\ Cardinality(Captured(store)) \in Nat
  BY CapturedIsFinite
<1>5. /\ store[q].queued \in Nat /\ store[q].uses \in Nat /\ store[q].cut \in Nat /\ store[q].born \in Nat
  BY <1>3, StoreNumbers
<1>6. born \in Nat BY <1>1, <1>4, <1>5
<1>7. r \in StoreRec BY <1>2, <1>5, <1>6 DEF StoreRec
<1>8. store' = [store EXCEPT ![q] = r] BY <1>1, <1>2 DEF QueuedIn
<1>9. store' \in [Qid -> StoreRec] /\ store'[q] = r /\ \A p \in Qid : p # q => store'[p] = store[p]
  BY <1>3, <1>7, <1>8
<1>10. /\ r.state = "pending" /\ r.born = born /\ r.queued = store[q].queued + 1
       /\ r.uses = store[q].uses /\ r.cut = store[q].cut
  BY <1>2
<1>11. Captured(store') = Captured(store) \cup {q}
  BY <1>9, <1>10 DEF Captured
<1>12. store[q].uses <= store[q].queued + store[q].cut BY DEF StoreOK, AnsweredOnce
<1>13. Spare(q)' BY <1>5, <1>9, <1>10, <1>12 DEF Spare
<1>14. \A p \in Qid : Spare(p) => Spare(p)' BY <1>9, <1>13 DEF Spare
<1>15. /\ \A p \in Qid : store'[p].uses = store[p].uses /\ store'[p].queued >= store[p].queued
       /\ store'[q].queued > 0
  <2>1. \A p \in Qid : store[p].queued \in Nat BY <1>3, StoreNumbers
  <2> QED BY <1>5, <1>9, <1>10, <2>1
<1>16. PendingOK'
  <2>1. SUFFICES ASSUME NEW p \in Qid, store'[p].state = "pending" PROVE Spare(p)' BY DEF PendingOK
  <2>2. CASE p = q BY <1>13, <2>2
  <2>3. CASE p # q
    <3>1. store[p].state = "pending" BY <1>9, <2>1, <2>3
    <3>2. Spare(p) BY <3>1 DEF StoreOK, PendingOK
    <3> QED BY <1>14, <3>2
  <2> QED BY <2>2, <2>3
<1>17. AnsweredOnce'
  <2>1. SUFFICES ASSUME NEW p \in Qid PROVE store'[p].uses <= store'[p].queued + store'[p].cut
    BY DEF AnsweredOnce
  <2>2. CASE p = q BY <1>5, <1>9, <1>10, <1>12, <2>2
  <2>3. CASE p # q BY <1>9, <2>3 DEF StoreOK, AnsweredOnce
  <2> QED BY <2>2, <2>3
<1>18. BornOK'
  <2>1. PICK k : k = Cardinality(Captured(store)) OBVIOUS
  <2>2. PICK k2 : k2 = Cardinality(Captured(store')) OBVIOUS
  <2>3. /\ k \in Nat /\ k2 = IF q \in Captured(store) THEN k ELSE k + 1
    <3>1. Cardinality(Captured(store) \cup {q}) =
            IF q \in Captured(store) THEN Cardinality(Captured(store)) ELSE Cardinality(Captured(store)) + 1
      BY <1>4, FS_AddElement
    <3> QED BY <1>4, <1>11, <2>1, <2>2, <3>1
  <2>4. \A p \in Captured(store) : store[p].born \in 1 .. k BY <2>1 DEF StoreOK, BornOK
  <2>5. born \in 1 .. k2 BY <1>1, <2>1, <2>3, <2>4
  <2>6. \A p \in Captured(store') : store'[p].born \in 1 .. k2
    <3>1. SUFFICES ASSUME NEW p \in Captured(store) \cup {q} PROVE store'[p].born \in 1 .. k2 BY <1>11
    <3>2. CASE p = q BY <1>9, <1>10, <2>5, <3>2
    <3>3. CASE p # q
      <4>1. p \in Captured(store) /\ p \in Qid BY <3>1, <3>3 DEF Captured
      <4>2. store'[p].born = store[p].born BY <1>9, <3>3, <4>1
      <4> QED BY <2>3, <2>4, <4>1, <4>2
    <3> QED BY <3>2, <3>3
  <2>7. ASSUME NEW p \in Captured(store), p # q PROVE store'[p].born = store[p].born /\ born # store[p].born
    <3>1. p \in Qid BY DEF Captured
    <3>2. store'[p].born = store[p].born BY <1>9, <2>7, <3>1
    <3>3. CASE q \in Captured(store)
      <4>1. born = store[q].born BY <1>1, <3>3
      <4> QED BY <2>7, <3>2, <3>3, <4>1 DEF StoreOK, BornOK
    <3>4. CASE q \notin Captured(store)
      <4>1. born = 1 + k BY <1>1, <2>1, <3>4
      <4> QED BY <2>3, <2>4, <3>2, <4>1
    <3> QED BY <3>3, <3>4
  <2>8. ASSUME NEW p1 \in Captured(store'), NEW p2 \in Captured(store'), store'[p1].born = store'[p2].born
        PROVE  p1 = p2
    <3>1. p1 \in Captured(store) \cup {q} /\ p2 \in Captured(store) \cup {q} BY <1>11
    <3>2. CASE p1 # q /\ p2 # q
      <4>1. store[p1].born = store[p2].born BY <2>7, <2>8, <3>1, <3>2
      <4> QED BY <3>1, <3>2, <4>1 DEF StoreOK, BornOK
    <3>3. CASE p1 = q /\ p2 # q
      <4>1. store'[p1].born = born BY <1>9, <1>10, <3>3
      <4> QED BY <2>7, <2>8, <3>1, <3>3, <4>1
    <3>4. CASE p1 # q /\ p2 = q
      <4>1. store'[p2].born = born BY <1>9, <1>10, <3>4
      <4> QED BY <2>7, <2>8, <3>1, <3>4, <4>1
    <3> QED BY <3>2, <3>3, <3>4
  <2>9. ASSUME NEW p \in Qid \ Captured(store')
        PROVE store'[p].queued = 0 /\ store'[p].cut = 0 /\ store'[p].uses = 0
    <3>1. p \in Qid \ Captured(store) /\ p # q BY <1>11
    <3>2. store'[p] = store[p] BY <1>9, <3>1
    <3> QED BY <3>1, <3>2 DEF StoreOK, BornOK
  <2>10. Captured(store)' = Captured(store') BY DEF Captured
  <2> QED BY <2>2, <2>6, <2>8, <2>9, <2>10 DEF BornOK
<1> QED BY <1>9, <1>14, <1>15, <1>16, <1>17, <1>18 DEF StoreOK

\* A change of one captured decision leaves the order of capture.
LEMMA BornStays ==
    ASSUME BornOK, NEW e \in Captured(store), store'[e].born = store[e].born, store'[e].state # "absent",
           \A p \in Qid : p # e => store'[p] = store[p]
    PROVE  BornOK'
<1>1. Captured(store') = Captured(store) /\ e \in Qid BY DEF Captured
<1>2. Captured(store)' = Captured(store') BY DEF Captured
<1>3. \A p \in Captured(store) : store'[p].born = store[p].born BY DEF Captured
<1>4. \A p \in Qid \ Captured(store) : store'[p] = store[p] BY <1>1
<1> QED BY <1>1, <1>2, <1>3, <1>4 DEF BornOK

\* The entry a reply is about.
LEMMA EntryFacts ==
    ASSUME DigestInv, reply.step # "idle"
    PROVE  /\ Entry \in EntryRec /\ Entry.qid \in Qid /\ Entry.content \in Contents
           /\ reply.m \in Seq(EntryRec) /\ reply.n \in 1 .. Len(reply.m)
           /\ Spare(Entry.qid) \/ reply.step = "save"
           /\ Entry.qid \in Captured(store)
<1>1. Usable(reply.m) /\ reply.n \in 1 .. Len(reply.m) /\ ~Entry.answered
  BY DEF DigestInv, ReplyOK, Entry
<1>2. reply.m \in Seq(EntryRec) BY <1>1 DEF Usable
<1>3. Entry \in EntryRec BY <1>1, <1>2 DEF Entry
<1>4. Entry.qid \in Qid /\ Entry.content \in Contents BY <1>3 DEF EntryRec
<1>5. Spare(Entry.qid) \/ reply.step = "save" BY <1>1 DEF Usable, Entry, Settling
<1>6. Entry.qid \in Captured(store) BY DEF DigestInv, ReplyOK
<1> QED BY <1>1, <1>2, <1>3, <1>4, <1>5, <1>6

\* A rebuilt manifest is usable.
LEMMA BuiltIsUsable ==
    ASSUME IsFiniteSet(Qid), StoreOK
    PROVE  Usable(BuildManifest(store))
<1>1. \A p, q \in Captured(store) : store[p].born = store[q].born => p = q BY DEF StoreOK, BornOK
<1>2. store \in [Qid -> StoreRec] BY DEF StoreOK
<1>3. PICK m : m = BuildManifest(store) OBVIOUS
<1>4. /\ m \in Seq(EntryRec) /\ \A i, j \in 1 .. Len(m) : m[i].qid = m[j].qid => i = j
      /\ \A i \in 1 .. Len(m) : store[m[i].qid].state = "pending"
  BY <1>1, <1>2, <1>3, BuiltManifest
<1>5. \A i \in 1 .. Len(m) : m[i].qid \in Qid
  <2>1. \A i \in 1 .. Len(m) : m[i] \in EntryRec BY <1>4
  <2> QED BY <2>1 DEF EntryRec
<1>6. Usable(m) BY <1>4, <1>5 DEF Usable, StoreOK, PendingOK
<1> QED BY <1>3, <1>6

\* The reply in progress stays what it was when nobody touches it.
LEMMA ReplyStays ==
    ASSUME ReplyOK, reply' = reply, Captured(store) \subseteq Captured(store'),
           \A q \in Qid : Spare(q) \/ Settling(q) => Spare(q)' \/ Settling(q)'
    PROVE  ReplyOK'
<1>1. CASE reply.step = "idle" BY <1>1 DEF ReplyOK
<1>2. CASE reply.step # "idle"
  <2>1. PICK m : m = reply.m OBVIOUS
  <2>2. Usable(m)' BY <1>2, <2>1, UsableStays DEF ReplyOK
  <2>3. Usable(reply.m)' BY <2>1, <2>2
  <2>4. Entry' = Entry /\ Captured(store)' = Captured(store') BY DEF Entry, Captured
  <2> QED BY <1>2, <2>3, <2>4 DEF ReplyOK
<1> QED BY <1>1, <1>2

LEMMA QueueStep ==
    ASSUME IsFiniteSet(Qid), Ttl \in Nat, DigestInv, NEW q \in Qid, NEW c \in Contents,
           store' = QueuedIn(store, q, c), now' = now, reply' = reply,
           manifest' = manifest \/ manifest' = BuildManifest(store')
    PROVE  DigestInv'
<1>1. StoreOK' /\ \A p \in Qid : Spare(p) => Spare(p)' BY QueuedKeeps DEF DigestInv
<1>2. \A p \in Qid : Settling(p) => Settling(p)' BY DEF Settling, Entry
<1>3. \A p \in Qid : Spare(p) \/ Settling(p) => Spare(p)' \/ Settling(p)' BY <1>1, <1>2
<1>4. Captured(store) \subseteq Captured(store')
  <2>1. store \in [Qid -> StoreRec] BY DEF DigestInv, StoreOK
  <2>2. \A p \in Qid : store'[p] = store[p] \/ store'[p].state = "pending"
    <3>1. store'[q].state = "pending" /\ \A p \in Qid : p # q => store'[p] = store[p]
      BY <2>1 DEF QueuedIn
    <3> QED BY <3>1
  <2> QED BY <2>2 DEF Captured
<1>5. ReplyOK' BY <1>3, <1>4, ReplyStays DEF DigestInv
<1>6. Usable(manifest)'
  <2>1. CASE manifest' = manifest
    <3>1. PICK m : m = manifest OBVIOUS
    <3>2. Usable(m)' BY <1>3, <3>1, UsableStays DEF DigestInv
    <3> QED BY <2>1, <3>1, <3>2
  <2>2. CASE manifest' = BuildManifest(store')
    <3>1. (IsFiniteSet(Qid) /\ StoreOK => Usable(BuildManifest(store)))' BY BuiltIsUsable, PTL
    <3>2. Usable(BuildManifest(store))' BY <1>1, <3>1
    <3>3. BuildManifest(store)' = BuildManifest(store') BY DEF BuildManifest
    <3>4. manifest' = BuildManifest(store)' BY <2>2, <3>3
    <3> QED BY <3>2, <3>4 DEF Usable
  <2> QED BY <2>1, <2>2
<1> QED BY <1>1, <1>5, <1>6 DEF DigestInv

LEMMA SendDigestStep ==
    ASSUME IsFiniteSet(Qid), DigestInv, SendDigest
    PROVE  DigestInv'
<1>1. store' = store /\ reply' = reply /\ now' = now /\ manifest' = BuildManifest(store) BY DEF SendDigest
<1>2. StoreOK' BY <1>1 DEF DigestInv, StoreOK, BornOK, Captured, PendingOK, AnsweredOnce, Spare
<1>3. \A p \in Qid : Spare(p) \/ Settling(p) => Spare(p)' \/ Settling(p)' BY <1>1 DEF Spare, Settling, Entry
<1>4. ReplyOK' BY <1>1, <1>3, ReplyStays DEF DigestInv
<1>5. PICK m : m = BuildManifest(store) OBVIOUS
<1>6. Usable(m) BY <1>5, BuiltIsUsable DEF DigestInv
<1>7. Usable(m)' BY <1>3, <1>6, UsableStays
<1> QED BY <1>1, <1>2, <1>4, <1>5, <1>7 DEF DigestInv

LEMMA AnswerLoadStep ==
    ASSUME DigestInv, NEW g, NEW n, AnswerLoad(g, n)
    PROVE  DigestInv'
<1>1. /\ store' = store /\ manifest' = manifest /\ now' = now /\ reply.step = "idle"
      /\ Generation(manifest) = g /\ n \in DOMAIN manifest /\ ~manifest[n].answered
  BY DEF AnswerLoad
<1>2. /\ reply'.step \in {"store", "expire"} /\ reply'.m = manifest /\ reply'.n = n /\ reply'.g = g
      /\ DOMAIN reply' = {"step", "m", "n", "g"}
  BY DEF AnswerLoad
<1>3. StoreOK' BY <1>1 DEF DigestInv, StoreOK, BornOK, Captured, PendingOK, AnsweredOnce, Spare
<1>4. \A p \in Qid : Spare(p) \/ Settling(p) => Spare(p)' BY <1>1 DEF Spare, Settling
<1>5. PICK m : m = manifest OBVIOUS
<1>6. Usable(m) /\ Usable(m)' BY <1>4, <1>5, UsableStays DEF DigestInv
<1>7. n \in 1 .. Len(m) /\ m[n].qid \in Qid
  <2>1. m \in Seq(EntryRec) BY <1>6 DEF Usable
  <2>2. n \in 1 .. Len(m) BY <1>1, <1>5, <2>1
  <2>3. m[n] \in EntryRec BY <2>1, <2>2
  <2> QED BY <2>2, <2>3 DEF EntryRec
<1>8. m[n].qid \in Captured(store)
  <2>1. Spare(m[n].qid) BY <1>1, <1>5, <1>6, <1>7 DEF Usable, Settling
  <2> QED BY <1>7, <2>1 DEF Spare, DigestInv, StoreOK, BornOK
<1>9. Entry' = m[n] /\ Captured(store)' = Captured(store) BY <1>1, <1>2, <1>5 DEF Entry, Captured
<1>10. ReplyOK' BY <1>1, <1>2, <1>5, <1>6, <1>7, <1>8, <1>9 DEF ReplyOK
<1> QED BY <1>1, <1>3, <1>5, <1>6, <1>10 DEF DigestInv

\* The store takes the answer, and the manifest is about to.
LEMMA AnswerStoreStep ==
    ASSUME DigestInv, AnswerStore
    PROVE  /\ DigestInv'
           /\ \A q \in Qid : store'[q].uses > store[q].uses => reply.g[reply.n] = <<q, store'[q].content>>
           /\ \A q \in Qid : store'[q].queued = store[q].queued
<1>1. reply.step = "store" /\ manifest' = manifest /\ now' = now BY DEF AnswerStore
<1>2. PICK e : e = Entry.qid OBVIOUS
<1>3. /\ e \in Qid /\ Entry.content \in Contents /\ e \in Captured(store) /\ Spare(e)
      /\ reply.m \in Seq(EntryRec) /\ reply.n \in 1 .. Len(reply.m)
  BY <1>1, <1>2, EntryFacts
<1>4. store \in [Qid -> StoreRec] BY DEF DigestInv, StoreOK
<1>5. store' = [store EXCEPT ![e].state = "answered", ![e].content = Entry.content, ![e].uses = @ + 1]
  BY <1>2 DEF AnswerStore
<1>6. /\ store[e] \in StoreRec /\ store[e].queued \in Nat /\ store[e].uses \in Nat /\ store[e].cut \in Nat
  BY <1>3, <1>4, StoreNumbers
<1>7. /\ store'[e] = [store[e] EXCEPT !.state = "answered", !.content = Entry.content, !.uses = store[e].uses + 1]
      /\ \A p \in Qid : p # e => store'[p] = store[p]
  BY <1>3, <1>4, <1>5
<1>8. /\ store'[e] \in StoreRec /\ store'[e].state = "answered" /\ store'[e].content = Entry.content
      /\ store'[e].uses = store[e].uses + 1 /\ store'[e].queued = store[e].queued
      /\ store'[e].cut = store[e].cut /\ store'[e].born = store[e].born
  <2>1. PICK u \in Nat : u = store[e].uses + 1 BY <1>6
  <2>2. PICK c \in Contents : c = Entry.content BY <1>3
  <2>3. store'[e] = [store[e] EXCEPT !.state = "answered", !.content = c, !.uses = u] BY <1>7, <2>1, <2>2
  <2>4. store[e] \in StoreRec BY <1>6
  <2>5. /\ store'[e] \in StoreRec /\ store'[e].state = "answered" /\ store'[e].content = c
        /\ store'[e].uses = u /\ store'[e].queued = store[e].queued
        /\ store'[e].cut = store[e].cut /\ store'[e].born = store[e].born
    BY <2>3, <2>4 DEF StoreRec
  <2> QED BY <2>1, <2>2, <2>5
<1>9. store' \in [Qid -> StoreRec]
  <2>1. DOMAIN store' = Qid /\ store' = [p \in Qid |-> store'[p]] BY <1>4, <1>5
  <2> QED BY <1>4, <1>7, <1>8, <2>1
<1>10. BornOK' BY <1>3, <1>7, <1>8, BornStays DEF DigestInv, StoreOK
<1>11. \A p \in Qid : p # e => (Spare(p) => Spare(p)') BY <1>7 DEF Spare
<1>12. PendingOK' BY <1>7, <1>8, <1>11 DEF DigestInv, StoreOK, PendingOK
<1>13. AnsweredOnce'
  <2>1. store'[e].uses <= store'[e].queued + store'[e].cut BY <1>3, <1>6, <1>8 DEF Spare
  <2> QED BY <1>7, <2>1 DEF DigestInv, StoreOK, AnsweredOnce
<1>14. /\ DOMAIN reply' = DOMAIN reply /\ reply'.step = "save" /\ reply'.m = reply.m /\ reply'.n = reply.n /\ reply'.g = reply.g
  <2>1. reply' = [reply EXCEPT !.step = "save"] BY DEF AnswerStore
  <2>2. DOMAIN reply = {"step", "m", "n", "g"} BY <1>1 DEF DigestInv, ReplyOK
  <2> QED BY <2>1, <2>2
<1>15. Entry' = Entry BY <1>14 DEF Entry
<1>16. \A p \in Qid : Spare(p) \/ Settling(p) => Spare(p)' \/ Settling(p)'
  <2>1. \A p \in Qid : ~Settling(p) BY <1>1 DEF Settling
  <2>2. Settling(e)' BY <1>2, <1>14, <1>15 DEF Settling
  <2> QED BY <1>11, <2>1, <2>2
<1>17. ReplyOK'
  <2>1. PICK m : m = reply.m OBVIOUS
  <2>2. Usable(m)' BY <1>1, <1>16, <2>1, UsableStays DEF DigestInv, ReplyOK
  <2>3. Captured(store)' = Captured(store)
    <3>1. e \in Captured(store) /\ e \in Captured(store') BY <1>3, <1>8 DEF Captured
    <3> QED BY <1>7, <3>1 DEF Captured
  <2>4. Usable(reply.m)' BY <1>14, <2>1, <2>2
  <2>5. /\ reply.n \in 1 .. Len(reply.m) /\ ~reply.m[reply.n].answered
        /\ reply.g = Generation(reply.m) /\ Entry.qid \in Captured(store)
        /\ DOMAIN reply = {"step", "m", "n", "g"}
    BY <1>1 DEF DigestInv, ReplyOK
  <2>6. Generation(reply.m)' = Generation(reply.m) BY <1>14 DEF Generation
  <2> QED BY <1>14, <1>15, <2>3, <2>4, <2>5, <2>6 DEF ReplyOK
<1>18. PICK m : m = manifest OBVIOUS
<1>19. Usable(m)' BY <1>16, <1>18, UsableStays DEF DigestInv
<1>20. Usable(manifest)' BY <1>1, <1>18, <1>19
<1>21. DigestInv' BY <1>1, <1>9, <1>10, <1>12, <1>13, <1>17, <1>20 DEF DigestInv, StoreOK
<1>22. ASSUME NEW q \in Qid, store'[q].uses > store[q].uses PROVE reply.g[reply.n] = <<q, store'[q].content>>
  <2>1. store[q].uses \in Nat BY <1>4, StoreNumbers
  <2>2. q = e BY <1>7, <1>22, <2>1
  <2>3. reply.g = Generation(reply.m) BY <1>1 DEF DigestInv, ReplyOK
  <2>4. reply.g[reply.n] = <<Entry.qid, Entry.content>> BY <1>3, <2>3 DEF Generation, Entry
  <2> QED BY <1>2, <1>8, <2>2, <2>4
<1>23. \A q \in Qid : store'[q].queued = store[q].queued BY <1>7, <1>8
<1> QED BY <1>21, <1>22, <1>23

\* The manifest follows the store, as it was read.
LEMMA AnswerSaveStep ==
    ASSUME DigestInv, AnswerSave
    PROVE  DigestInv'
<1>1. reply.step = "save" /\ store' = store /\ now' = now /\ reply' = NoReply
      /\ manifest' = [reply.m EXCEPT ![reply.n].answered = TRUE]
  BY DEF AnswerSave
<1>2. PICK m, n : m = reply.m /\ n = reply.n OBVIOUS
<1>3. Usable(m) /\ n \in 1 .. Len(m) /\ Entry = m[n] /\ m \in Seq(EntryRec)
  BY <1>1, <1>2 DEF DigestInv, ReplyOK, Entry, Usable
<1>4. PICK m2 : m2 = [m EXCEPT ![n].answered = TRUE] OBVIOUS
<1>5. m2 \in Seq(EntryRec) /\ Len(m2) = Len(m)
  <2>1. m[n] \in EntryRec BY <1>3
  <2>2. [m[n] EXCEPT !.answered = TRUE] \in EntryRec BY <2>1 DEF EntryRec
  <2>3. m2 = [m EXCEPT ![n] = [m[n] EXCEPT !.answered = TRUE]] BY <1>3, <1>4
  <2> QED BY <1>3, <2>2, <2>3
<1>6. \A i \in 1 .. Len(m) : m2[i].qid = m[i].qid /\ (i # n => m2[i] = m[i])
  <2>1. m[n] \in EntryRec BY <1>3
  <2>2. [m[n] EXCEPT !.answered = TRUE].qid = m[n].qid BY <2>1 DEF EntryRec
  <2> QED BY <1>3, <1>4, <2>2
<1>7. m2[n].answered = TRUE
  <2>1. m[n] \in EntryRec BY <1>3
  <2>2. [m[n] EXCEPT !.answered = TRUE].answered = TRUE BY <2>1 DEF EntryRec
  <2> QED BY <1>3, <1>4, <2>2
<1>8. \A i \in 1 .. Len(m) : ~m2[i].answered => Spare(m[i].qid)
  <2>1. SUFFICES ASSUME NEW i \in 1 .. Len(m), ~m2[i].answered PROVE Spare(m[i].qid) OBVIOUS
  <2>2. i # n BY <1>7, <2>1
  <2>3. ~m[i].answered BY <1>6, <2>1, <2>2
  <2>4. m[i].qid # Entry.qid BY <1>3, <2>2 DEF Usable
  <2> QED BY <1>3, <2>3, <2>4 DEF Usable, Settling
<1>9. \A q : Spare(q)' = Spare(q) BY <1>1 DEF Spare
<1>10. Usable(m2)' BY <1>3, <1>5, <1>6, <1>8, <1>9 DEF Usable
<1>11. Usable(manifest)' BY <1>1, <1>2, <1>4, <1>10
<1>12. ReplyOK' BY <1>1 DEF ReplyOK, NoReply
<1>13. StoreOK' BY <1>1 DEF DigestInv, StoreOK, BornOK, Captured, PendingOK, AnsweredOnce, Spare
<1> QED BY <1>1, <1>11, <1>12, <1>13 DEF DigestInv

LEMMA ExpireSaveStep ==
    ASSUME DigestInv, ExpireSave
    PROVE  DigestInv'
<1>1. reply.step = "expire" /\ store' = store /\ now' = now /\ manifest' = reply.m BY DEF ExpireSave
<1>2. /\ DOMAIN reply' = DOMAIN reply /\ reply'.step = "expired" /\ reply'.m = reply.m /\ reply'.n = reply.n /\ reply'.g = reply.g
  <2>1. reply' = [reply EXCEPT !.step = "expired"] BY DEF ExpireSave
  <2>2. DOMAIN reply = {"step", "m", "n", "g"} BY <1>1 DEF DigestInv, ReplyOK
  <2> QED BY <2>1, <2>2
<1>3. StoreOK' BY <1>1 DEF DigestInv, StoreOK, BornOK, Captured, PendingOK, AnsweredOnce, Spare
<1>4. \A p \in Qid : Spare(p) \/ Settling(p) => Spare(p)' BY <1>1 DEF Spare, Settling
<1>5. PICK m : m = reply.m OBVIOUS
<1>6. Usable(m)' BY <1>1, <1>4, <1>5, UsableStays DEF DigestInv, ReplyOK
<1>7. Usable(manifest)' /\ Usable(reply.m)' BY <1>1, <1>2, <1>5, <1>6
<1>8. /\ reply.n \in 1 .. Len(reply.m) /\ ~reply.m[reply.n].answered
      /\ reply.g = Generation(reply.m) /\ Entry.qid \in Captured(store)
      /\ DOMAIN reply = {"step", "m", "n", "g"}
  BY <1>1 DEF DigestInv, ReplyOK
<1>9. Entry' = Entry /\ Captured(store)' = Captured(store) /\ Generation(reply.m)' = Generation(reply.m)
  BY <1>1, <1>2 DEF Entry, Captured, Generation
<1>10. ReplyOK' BY <1>2, <1>7, <1>8, <1>9 DEF ReplyOK
<1> QED BY <1>1, <1>3, <1>7, <1>10 DEF DigestInv

LEMMA ExpireStoreStep ==
    ASSUME DigestInv, ExpireStore
    PROVE  /\ DigestInv'
           /\ \A q \in Qid : store'[q].uses = store[q].uses /\ store'[q].queued = store[q].queued
<1>1. reply.step = "expired" /\ manifest' = manifest /\ now' = now /\ reply' = NoReply BY DEF ExpireStore
<1>2. PICK e : e = Entry.qid OBVIOUS
<1>3. e \in Qid /\ Entry.content \in Contents /\ e \in Captured(store) BY <1>1, <1>2, EntryFacts
<1>4. store \in [Qid -> StoreRec] BY DEF DigestInv, StoreOK
<1>5. store' = [store EXCEPT ![e].state = "expired", ![e].content = Entry.content]
  BY <1>2 DEF ExpireStore
<1>6. store[e] \in StoreRec BY <1>3, <1>4
<1>7. /\ store'[e] = [store[e] EXCEPT !.state = "expired", !.content = Entry.content]
      /\ \A p \in Qid : p # e => store'[p] = store[p]
  BY <1>3, <1>4, <1>5
<1>8. /\ store'[e] \in StoreRec /\ store'[e].state = "expired"
      /\ store'[e].uses = store[e].uses /\ store'[e].queued = store[e].queued
      /\ store'[e].cut = store[e].cut /\ store'[e].born = store[e].born
  BY <1>3, <1>6, <1>7 DEF StoreRec
<1>9. store' \in [Qid -> StoreRec]
  <2>1. DOMAIN store' = Qid /\ store' = [p \in Qid |-> store'[p]] BY <1>4, <1>5
  <2> QED BY <1>4, <1>7, <1>8, <2>1
<1>10. BornOK' BY <1>3, <1>7, <1>8, BornStays DEF DigestInv, StoreOK
<1>11. \A p \in Qid : Spare(p) <=> Spare(p)' BY <1>7, <1>8 DEF Spare
<1>12. PendingOK' BY <1>7, <1>8, <1>11 DEF DigestInv, StoreOK, PendingOK
<1>13. AnsweredOnce' BY <1>7, <1>8 DEF DigestInv, StoreOK, AnsweredOnce
<1>14. \A p \in Qid : Spare(p) \/ Settling(p) => Spare(p)' BY <1>1, <1>11 DEF Settling
<1>15. PICK m : m = manifest OBVIOUS
<1>16. Usable(m)' BY <1>14, <1>15, UsableStays DEF DigestInv
<1>17. Usable(manifest)' BY <1>1, <1>15, <1>16
<1>18. ReplyOK' BY <1>1 DEF ReplyOK, NoReply
<1>19. \A q \in Qid : store'[q].uses = store[q].uses /\ store'[q].queued = store[q].queued BY <1>7, <1>8
<1> QED BY <1>1, <1>9, <1>10, <1>12, <1>13, <1>17, <1>18, <1>19 DEF DigestInv, StoreOK

LEMMA ResolverCrashStep ==
    ASSUME DigestInv, ResolverCrash
    PROVE  /\ DigestInv'
           /\ \A q \in Qid : store'[q].uses = store[q].uses /\ store'[q].queued = store[q].queued
<1>1. reply.step # "idle" /\ manifest' = manifest /\ now' = now /\ reply' = NoReply BY DEF ResolverCrash
<1>2. ReplyOK' BY <1>1 DEF ReplyOK, NoReply
<1>3. PICK m : m = manifest OBVIOUS
<1>4. CASE reply.step # "save"
  <2>1. store' = store BY <1>4 DEF ResolverCrash
  <2>2. StoreOK' BY <2>1 DEF DigestInv, StoreOK, BornOK, Captured, PendingOK, AnsweredOnce, Spare
  <2>3. \A p \in Qid : Spare(p) \/ Settling(p) => Spare(p)' BY <1>4, <2>1 DEF Spare, Settling
  <2>4. Usable(m)' BY <1>3, <2>3, UsableStays DEF DigestInv
  <2> QED BY <1>1, <1>2, <1>3, <2>1, <2>2, <2>4 DEF DigestInv
<1>5. CASE reply.step = "save"
  <2>1. PICK e : e = Entry.qid OBVIOUS
  <2>2. e \in Qid /\ e \in Captured(store) BY <1>1, <2>1, EntryFacts
  <2>3. store \in [Qid -> StoreRec] BY DEF DigestInv, StoreOK
  <2>4. store' = [store EXCEPT ![e].cut = @ + 1] BY <1>5, <2>1 DEF ResolverCrash
  <2>5. /\ store[e] \in StoreRec /\ store[e].queued \in Nat /\ store[e].uses \in Nat /\ store[e].cut \in Nat
    BY <2>2, <2>3, StoreNumbers
  <2>6. PICK u \in Nat : u = store[e].cut + 1 BY <2>5
  <2>7. store'[e] = [store[e] EXCEPT !.cut = u] /\ \A p \in Qid : p # e => store'[p] = store[p]
    BY <2>2, <2>3, <2>4, <2>6
  <2>8. /\ store'[e] \in StoreRec /\ store'[e].state = store[e].state
        /\ store'[e].uses = store[e].uses /\ store'[e].queued = store[e].queued
        /\ store'[e].cut = u /\ store'[e].born = store[e].born
    <3>1. store[e] \in StoreRec BY <2>5
    <3> QED BY <2>7, <3>1 DEF StoreRec
  <2>9. store' \in [Qid -> StoreRec]
    <3>1. DOMAIN store' = Qid /\ store' = [p \in Qid |-> store'[p]] BY <2>3, <2>4
    <3> QED BY <2>3, <2>7, <2>8, <3>1
  <2>10. BornOK'
    <3>1. store'[e].state # "absent" BY <2>2, <2>8 DEF Captured
    <3> QED BY <2>2, <2>7, <2>8, <3>1, BornStays DEF DigestInv, StoreOK
  <2>11. store[e].uses <= store[e].queued + store[e].cut BY <2>2 DEF DigestInv, StoreOK, AnsweredOnce
  <2>12. Spare(e)' BY <2>5, <2>6, <2>8, <2>11 DEF Spare
  <2>13. \A p \in Qid : Spare(p) => Spare(p)' BY <2>7, <2>12 DEF Spare
  <2>14. PendingOK' BY <2>7, <2>8, <2>13 DEF DigestInv, StoreOK, PendingOK
  <2>15. AnsweredOnce'
    <3>1. store'[e].uses <= store'[e].queued + store'[e].cut BY <2>5, <2>6, <2>8, <2>11
    <3> QED BY <2>7, <3>1 DEF DigestInv, StoreOK, AnsweredOnce
  <2>16. \A p \in Qid : Spare(p) \/ Settling(p) => Spare(p)' BY <2>1, <2>12, <2>13 DEF Settling
  <2>17. Usable(m)' BY <1>3, <2>16, UsableStays DEF DigestInv
  <2>18. \A q \in Qid : store'[q].uses = store[q].uses /\ store'[q].queued = store[q].queued BY <2>7, <2>8
  <2> QED BY <1>1, <1>2, <1>3, <2>9, <2>10, <2>14, <2>15, <2>17, <2>18 DEF DigestInv, StoreOK
<1> QED BY <1>4, <1>5

\* A step that leaves the digest's files and the reply alone.
LEMMA DigestStays ==
    ASSUME DigestInv, store' = store, manifest' = manifest, reply' = reply, now' \in Nat
    PROVE  DigestInv'
<1>1. StoreOK' BY DEF DigestInv, StoreOK, BornOK, Captured, PendingOK, AnsweredOnce, Spare
<1>2. \A p \in Qid : Spare(p) \/ Settling(p) => Spare(p)' \/ Settling(p)' BY DEF Spare, Settling, Entry
<1>3. ReplyOK' BY <1>2, ReplyStays DEF DigestInv
<1>4. PICK m : m = manifest OBVIOUS
<1>5. Usable(m)' BY <1>2, <1>4, UsableStays DEF DigestInv
<1> QED BY <1>1, <1>3, <1>4, <1>5 DEF DigestInv

\* What one step may do to the store.
StoreKeeps ==
    /\ \A q \in Qid : store'[q].uses > store[q].uses => reply.g[reply.n] = <<q, store'[q].content>>
    /\ \A q \in Qid : store'[q].queued >= store[q].queued

LEMMA DigestStep ==
    ASSUME DigestAssumption, DigestInv, Digest
    PROVE  DigestInv' /\ StoreKeeps
<1> USE DEF StoreKeeps
<1>1. IsFiniteSet(Qid) /\ Ttl \in Nat BY DEF DigestAssumption
<1>2. \A q \in Qid : store[q].uses \in Nat /\ store[q].queued \in Nat
  BY StoreNumbers DEF DigestInv, StoreOK
<1>3. ASSUME NEW q \in Qid, NEW c \in Contents, QueueDecision(q, c) PROVE DigestInv' /\ StoreKeeps
  <2>1. store' = QueuedIn(store, q, c) /\ manifest' = manifest /\ reply' = reply /\ now' = now
    BY <1>3 DEF QueueDecision
  <2>2. DigestInv' BY <1>1, <2>1, QueueStep
  <2>3. \A p \in Qid : store'[p].uses = store[p].uses /\ store'[p].queued >= store[p].queued
    BY <1>1, <2>1, QueuedKeeps DEF DigestInv
  <2> QED BY <1>2, <2>2, <2>3
<1>4. CASE SendDigest
  <2>1. store' = store BY <1>4 DEF SendDigest
  <2> QED BY <1>1, <1>2, <1>4, <2>1, SendDigestStep
<1>5. ASSUME NEW g, NEW n, AnswerLoad(g, n) PROVE DigestInv' /\ StoreKeeps
  <2>1. store' = store BY <1>5 DEF AnswerLoad
  <2> QED BY <1>2, <1>5, <2>1, AnswerLoadStep
<1>6. CASE AnswerStore BY <1>2, <1>6, AnswerStoreStep
<1>7. CASE AnswerSave
  <2>1. store' = store BY <1>7 DEF AnswerSave
  <2> QED BY <1>2, <1>7, <2>1, AnswerSaveStep
<1>8. CASE ExpireSave
  <2>1. store' = store BY <1>8 DEF ExpireSave
  <2> QED BY <1>2, <1>8, <2>1, ExpireSaveStep
<1>9. CASE ExpireStore BY <1>2, <1>9, ExpireStoreStep
<1>10. CASE ResolverCrash BY <1>2, <1>10, ResolverCrashStep
<1>11. CASE Tick
  <2>1. store' = store /\ manifest' = manifest /\ reply' = reply /\ now' \in Nat
    BY <1>11 DEF Tick, DigestInv
  <2> QED BY <1>2, <2>1, DigestStays
<1> QED BY <1>3, <1>4, <1>5, <1>6, <1>7, <1>8, <1>9, <1>10, <1>11 DEF Digest, Resolver

LEMMA DigestStart ==
    ASSUME DigestAssumption, DigestInit
    PROVE  DigestInv
<1>1. PICK c \in Contents : c = CHOOSE x \in Contents : TRUE BY DEF DigestAssumption
<1>2. store = [q \in Qid |-> [state |-> "absent", content |-> c, due |-> 0,
                              born |-> 0, queued |-> 0, uses |-> 0, cut |-> 0]]
  BY <1>1 DEF DigestInit
<1>3. store \in [Qid -> StoreRec] BY <1>2 DEF StoreRec
<1>4. Captured(store) = {} BY <1>2 DEF Captured
<1>5. BornOK BY <1>2, <1>4 DEF BornOK
<1>6. PendingOK /\ AnsweredOnce BY <1>2 DEF PendingOK, AnsweredOnce
<1>7. Usable(manifest) BY DEF DigestInit, Usable
<1>8. ReplyOK BY DEF DigestInit, ReplyOK, NoReply
<1> QED BY <1>3, <1>5, <1>6, <1>7, <1>8 DEF DigestInv, StoreOK, DigestInit

-----------------------------------------------------------------------------
(* The board. *)

Title == HandTitles \cup UNION {Range(t) : t \in Splits}
ChildRec == [parent : Epic \cup {NoOne}, title : Title, run : Nat, staged : BOOLEAN]

BoardTypes ==
    /\ cards \subseteq ChildRec /\ IsFiniteSet(cards)
    /\ parked \subseteq Epic /\ todo \subseteq Epic /\ decisions \subseteq Epic
    /\ budget \in 0 .. MaxBudget /\ triages \in Nat /\ deaths \in Nat
    /\ epicGhost = [released |-> epicGhost.released, settled |-> epicGhost.settled]

\* The children of earlier runs were on the board when the run loaded it; the
\* epics of the run's own children are no longer to be assessed.
ViewOK ==
    \A c \in cards : c.run # 0 =>
        /\ c.run <= triages
        /\ c.run < triages => \E d \in view.cards : d.parent = c.parent
        /\ c.run = triages => c.parent \notin todo

\* The epic being split had no children when the run began with it; the titles still
\* to be created are different from each other and from those created already.
SplitOK ==
    split # NoSplit =>
        /\ split = [epic |-> split.epic, titles |-> split.titles, left |-> split.left, made |-> split.made]
        /\ split.epic \in Epic \ todo /\ split.titles \in Splits
        /\ split.left \subseteq DOMAIN split.titles
        /\ \A i, j \in split.left : Norm(split.titles[i]) = Norm(split.titles[j]) => i = j
        /\ \A c \in cards : c.parent = split.epic /\ c.run # 0
             => c.run = triages /\ \A i \in split.left : Norm(c.title) # Norm(split.titles[i])
        /\ \A c \in split.made : \A i \in split.left : Norm(c.title) # Norm(split.titles[i])
        /\ split.made # {} => \E c \in cards : c.parent = split.epic

MadeIn(r) == {c \in cards : c.run = r}

\* What the run has created and may still create.
BudgetOK ==
    /\ IsFiniteSet(split.left) /\ IsFiniteSet(split.made)
    /\ todo # {} \/ split # NoSplit =>
        triages > 0 /\ Cardinality(MadeIn(triages)) + budget <= MaxBudget + Cardinality(split.made)
    /\ Cardinality(split.made) + Cardinality(split.left) <= budget

\* Only a release takes a child off its staging.
StagedOK == \A c \in cards : c.run # 0 /\ ~c.staged => <<c.parent, c.title>> \in epicGhost.released

BoardInv ==
    /\ BoardTypes /\ ViewOK /\ SplitOK /\ BudgetOK /\ StagedOK
    /\ SplitOnce /\ RunBudgetHolds /\ BuiltAfterRelease /\ ParkedWithChildren /\ RefusedReachesOperator

LEMMA BoardStart ==
    ASSUME EpicAssumption, EpicsInit
    PROVE  BoardInv
<1> USE DEF EpicsInit
<1>1. IsFiniteSet({}) /\ Cardinality({}) = 0 BY FS_EmptySet
<1>2. split = NoSplit /\ split.left = {} /\ split.made = {} /\ todo = {} BY DEF NoSplit
<1>3. BoardTypes BY <1>1 DEF BoardTypes, EpicAssumption
<1>4. BudgetOK BY <1>1, <1>2 DEF BudgetOK
<1>5. ViewOK /\ SplitOK /\ StagedOK /\ SplitOnce /\ BuiltAfterRelease /\ ParkedWithChildren
  BY <1>2 DEF ViewOK, SplitOK, StagedOK, SplitOnce, BuiltAfterRelease, ParkedWithChildren
<1>6. RunBudgetHolds BY DEF RunBudgetHolds
<1>7. RefusedReachesOperator BY DEF RefusedReachesOperator
<1> QED BY <1>3, <1>4, <1>5, <1>6, <1>7 DEF BoardInv

\* The children of a run are finitely many.
LEMMA MadeIsFinite ==
    ASSUME BoardTypes, NEW r
    PROVE  IsFiniteSet(MadeIn(r)) /\ Cardinality(MadeIn(r)) \in Nat
<1>1. MadeIn(r) \in SUBSET cards BY DEF MadeIn
<1> QED BY <1>1, FS_Subset, FS_CardinalityType DEF BoardTypes

\* No run has yet created children with the number of the next run.
LEMMA StartTriageStep ==
    ASSUME EpicAssumption, BoardInv, NEW picked \in SUBSET Epic, StartTriage(picked)
    PROVE  BoardInv'
<1> USE DEF BoardInv
<1>1. /\ split = NoSplit /\ todo = {} /\ triages' = triages + 1 /\ todo' = picked /\ budget' = MaxBudget
      /\ cards' = cards /\ parked' = parked /\ split' = split /\ decisions' = decisions /\ deaths' = deaths
      /\ view' = [cards |-> cards, parked |-> parked] /\ chosen' = {} /\ store' = store
      /\ epicGhost' = [epicGhost EXCEPT !.settled = {}]
  BY DEF StartTriage, Idle, epicBoard, digest
<1>2. /\ epicGhost'.released = epicGhost.released /\ epicGhost'.settled = {}
      /\ epicGhost' = [released |-> epicGhost'.released, settled |-> epicGhost'.settled]
  BY <1>1 DEF BoardTypes
<1>3. triages \in Nat /\ MaxBudget \in Nat /\ \A c \in cards : c.run \in Nat BY DEF BoardTypes, ChildRec, EpicAssumption
<1>4. BoardTypes' BY <1>1, <1>2, <1>3 DEF BoardTypes
<1>5. \A c \in cards : c.run <= triages BY <1>3 DEF ViewOK
<1>6. ViewOK' BY <1>1, <1>3, <1>5 DEF ViewOK
<1>7. SplitOK' BY <1>1 DEF SplitOK
<1>8. \A c \in cards : c.run # triages' BY <1>1, <1>3, <1>5
<1>9. Cardinality({}) = 0 /\ IsFiniteSet({}) BY FS_EmptySet
<1>10. MadeIn(triages)' = {} /\ {c \in cards' : c.run = triages'} = {} BY <1>1, <1>8 DEF MadeIn
<1>11. split.left = {} /\ split.made = {} BY <1>1 DEF NoSplit
<1>12. BudgetOK'
  <2>1. Cardinality(MadeIn(triages)') = 0 /\ Cardinality(split'.made) = 0 /\ Cardinality(split'.left) = 0
    BY <1>1, <1>9, <1>10, <1>11
  <2>2. IsFiniteSet(split'.left) /\ IsFiniteSet(split'.made) BY <1>1, <1>9, <1>11
  <2> QED BY <1>1, <1>3, <2>1, <2>2 DEF BudgetOK
<1>13. StagedOK' /\ SplitOnce' /\ BuiltAfterRelease' /\ ParkedWithChildren'
  BY <1>1, <1>2 DEF StagedOK, SplitOnce, BuiltAfterRelease, ParkedWithChildren
<1>14. RunBudgetHolds'
  <2> SUFFICES ASSUME NEW r \in 1 .. triages' PROVE Cardinality({c \in cards' : c.run = r}) <= MaxBudget
    BY DEF RunBudgetHolds
  <2>1. CASE r = triages'
    <3>1. PICK made : made = {c \in cards' : c.run = r} OBVIOUS
    <3>2. made = {} BY <1>1, <1>8, <2>1, <3>1
    <3>3. Cardinality(made) <= MaxBudget BY <1>3, <1>9, <3>2
    <3> QED BY <3>1, <3>3
  <2>2. CASE r # triages'
    <3>1. r \in 1 .. triages BY <1>1, <1>3, <2>2
    <3> QED BY <1>1, <3>1 DEF RunBudgetHolds
  <2> QED BY <2>1, <2>2
<1>15. RefusedReachesOperator' BY <1>2 DEF RefusedReachesOperator
<1> QED BY <1>4, <1>6, <1>7, <1>12, <1>13, <1>14, <1>15

\* Assessing an epic without splitting it.
LEMMA AssessEpicStep ==
    ASSUME EpicAssumption, BoardInv, NEW e \in Epic, NEW v, NEW g, NEW t, AssessEpic(e, v, g, t)
    PROVE  BoardInv'
<1> USE DEF BoardInv
<1>1. /\ split = NoSplit /\ e \in todo /\ todo' = todo \ {e} /\ budget' = budget /\ triages' = triages
      /\ cards' = cards /\ parked' = parked /\ split' = split /\ deaths' = deaths
      /\ view' = view /\ chosen' = chosen /\ store' = store
      /\ epicGhost' = [epicGhost EXCEPT !.settled = @ \cup {<<e, Skipped(e, v, g)>>}]
      /\ decisions' = IF Skipped(e, v, g) THEN decisions ELSE decisions \cup {e}
  BY DEF AssessEpic, epicBoard, digest
<1>2. /\ epicGhost'.released = epicGhost.released
      /\ epicGhost'.settled = epicGhost.settled \cup {<<e, Skipped(e, v, g)>>}
      /\ epicGhost' = [released |-> epicGhost'.released, settled |-> epicGhost'.settled]
  BY <1>1 DEF BoardTypes
<1>3. decisions \subseteq decisions' /\ decisions' \subseteq Epic BY <1>1 DEF BoardTypes
<1>4. BoardTypes' BY <1>1, <1>2, <1>3 DEF BoardTypes
<1>5. ViewOK' BY <1>1 DEF ViewOK
<1>6. SplitOK' BY <1>1 DEF SplitOK
<1>7. BudgetOK'
  <2>1. MadeIn(triages)' = MadeIn(triages) BY <1>1 DEF MadeIn
  <2>2. todo' # {} => todo # {} BY <1>1
  <2> QED BY <1>1, <2>1, <2>2 DEF BudgetOK
<1>8. StagedOK' /\ SplitOnce' /\ BuiltAfterRelease' /\ ParkedWithChildren' /\ RunBudgetHolds'
  BY <1>1, <1>2 DEF StagedOK, SplitOnce, BuiltAfterRelease, ParkedWithChildren, RunBudgetHolds
<1>9. RefusedReachesOperator'
  <2>1. Skipped(e, v, g) \in BOOLEAN BY DEF Skipped
  <2> SUFFICES ASSUME deaths' = 0, NEW x \in Epic, <<x, FALSE>> \in epicGhost'.settled, x \notin parked'
               PROVE  x \in decisions' \/ store'[x].queued > 0
    BY DEF RefusedReachesOperator
  <2>2. CASE <<x, FALSE>> \in epicGhost.settled BY <1>1, <1>3, <2>2 DEF RefusedReachesOperator
  <2>3. CASE <<x, FALSE>> = <<e, Skipped(e, v, g)>>
    <3>1. x = e /\ Skipped(e, v, g) = FALSE BY <2>3
    <3>2. decisions' = decisions \cup {e} BY <1>1, <3>1
    <3> QED BY <3>1, <3>2
  <2> QED BY <1>2, <2>2, <2>3
<1> QED BY <1>4, <1>5, <1>6, <1>7, <1>8, <1>9

\* What a split creates: titles the run has not seen, none twice.
LEMMA FreshTitles ==
    ASSUME NEW titles, titles \in Seq(Range(titles)), NEW known
    PROVE  /\ Fresh(titles, known) \subseteq 1 .. Len(titles)
           /\ IsFiniteSet(Fresh(titles, known)) /\ Cardinality(Fresh(titles, known)) <= Len(titles)
           /\ \A i, j \in Fresh(titles, known) : Norm(titles[i]) = Norm(titles[j]) => i = j
<1>1. Len(titles) \in Nat /\ DOMAIN titles = 1 .. Len(titles) OBVIOUS
<1>2. Fresh(titles, known) \in SUBSET (1 .. Len(titles)) BY <1>1 DEF Fresh
<1>3. IsFiniteSet(1 .. Len(titles)) /\ Cardinality(1 .. Len(titles)) = Len(titles)
  <2>1. PICK n \in Nat : n = Len(titles) BY <1>1
  <2>2. IsFiniteSet(1 .. n) /\ Cardinality(1 .. n) = IF 1 > n THEN 0 ELSE n - 1 + 1 BY FS_Interval
  <2> QED BY <2>1, <2>2
<1>4. IsFiniteSet(Fresh(titles, known)) /\ Cardinality(Fresh(titles, known)) <= Cardinality(1 .. Len(titles))
  BY <1>2, <1>3, FS_Subset
<1>5. ASSUME NEW i \in Fresh(titles, known), NEW j \in Fresh(titles, known), Norm(titles[i]) = Norm(titles[j])
      PROVE  i = j
  <2>1. i \in Nat /\ j \in Nat BY <1>1, <1>2
  <2>2. ~(i < j) /\ ~(j < i) BY <1>5 DEF Fresh
  <2> QED BY <2>1, <2>2
<1> QED BY <1>2, <1>3, <1>4, <1>5

\* An epic with children is not split again.
LEMMA BeginSplitStep ==
    ASSUME EpicAssumption, BoardInv, NEW e \in Epic, NEW v, NEW g, NEW t \in Splits, BeginSplit(e, v, g, t)
    PROVE  BoardInv'
<1> USE DEF BoardInv
<1>1. /\ split = NoSplit /\ e \in todo /\ todo' = todo \ {e} /\ budget' = budget /\ triages' = triages
      /\ cards' = cards /\ parked' = parked /\ deaths' = deaths /\ decisions' = decisions
      /\ view' = view /\ chosen' = chosen /\ store' = store /\ epicGhost' = epicGhost
      /\ split' = [epic |-> e, titles |-> t, left |-> Fresh(t, SeenTitles(e)), made |-> {}]
      /\ ~Skipped(e, v, g) /\ ~Refused(e, t)
  BY DEF BeginSplit, epicBoard, digest
<1>2. PICK known : known = SeenTitles(e) OBVIOUS
<1>3. t \in Seq(Range(t)) BY DEF EpicAssumption
<1>4. Len(t) \in Nat /\ DOMAIN t = 1 .. Len(t) BY <1>3
<1>5. PICK left : left = Fresh(t, known) OBVIOUS
<1>6. /\ left \subseteq DOMAIN t /\ IsFiniteSet(left) /\ Cardinality(left) <= Len(t)
      /\ \A i, j \in left : Norm(t[i]) = Norm(t[j]) => i = j
  BY <1>3, <1>4, <1>5, FreshTitles
<1>7. split' = [epic |-> e, titles |-> t, left |-> left, made |-> {}] BY <1>1, <1>2, <1>5
<1>8. split'.epic = e /\ split'.titles = t /\ split'.left = left /\ split'.made = {} BY <1>7
<1>9. \A c \in cards : c.run \in Nat BY DEF BoardTypes, ChildRec
<1>10. \A c \in cards : c.parent = e => c.run = 0
  <2>1. \A d \in view.cards : d.parent # e BY <1>1 DEF Skipped, ExistingChildren, ParentIs
  <2> QED BY <1>1, <1>9, <2>1 DEF ViewOK, BoardTypes
<1>11. SplitOK' BY <1>1, <1>6, <1>7, <1>8, <1>10 DEF SplitOK
<1>12. BoardTypes' BY <1>1 DEF BoardTypes
<1>13. ViewOK' BY <1>1 DEF ViewOK
<1>14. BudgetOK'
  <2>1. MadeIn(triages)' = MadeIn(triages) BY <1>1 DEF MadeIn
  <2>2. split.made = {} /\ Cardinality({}) = 0 /\ IsFiniteSet({}) BY <1>1, FS_EmptySet DEF NoSplit
  <2>3. Len(t) <= budget /\ budget \in Nat BY <1>1, <1>4 DEF Refused, BoardTypes, EpicAssumption
  <2>4. Cardinality(left) \in Nat BY <1>6, FS_CardinalityType
  <2>5. triages > 0 /\ Cardinality(MadeIn(triages)) + budget <= MaxBudget + Cardinality({})
    BY <1>1, <2>2 DEF BudgetOK
  <2> QED BY <1>1, <1>4, <1>6, <1>8, <2>1, <2>2, <2>3, <2>4, <2>5 DEF BudgetOK
<1>15. StagedOK' /\ SplitOnce' /\ BuiltAfterRelease' /\ ParkedWithChildren' /\ RunBudgetHolds'
       /\ RefusedReachesOperator'
  BY <1>1 DEF StagedOK, SplitOnce, BuiltAfterRelease, ParkedWithChildren, RunBudgetHolds, RefusedReachesOperator
<1> QED BY <1>11, <1>12, <1>13, <1>14, <1>15

\* A child is created once, staged, and within what the run may still create.
LEMMA CreateChildStep ==
    ASSUME EpicAssumption, BoardInv, NEW i \in split.left, CreateChild(i)
    PROVE  BoardInv'
<1> USE DEF BoardInv
<1>1. PICK new : new = NewChild(i) OBVIOUS
<1>2. /\ todo' = todo /\ budget' = budget /\ triages' = triages
      /\ cards' = cards \cup {new} /\ parked' = parked /\ deaths' = deaths /\ decisions' = decisions
      /\ view' = view /\ chosen' = chosen /\ store' = store /\ epicGhost' = epicGhost
      /\ split' = [split EXCEPT !.left = @ \ {i}, !.made = @ \cup {new}]
  BY <1>1 DEF CreateChild, digest
<1>3. split # NoSplit BY DEF NoSplit
<1>4. PICK e, t, left, made : split = [epic |-> e, titles |-> t, left |-> left, made |-> made]
  BY <1>3 DEF SplitOK
<1>5. split.epic = e /\ split.titles = t /\ split.left = left /\ split.made = made /\ i \in left BY <1>4
<1>6. split' = [epic |-> e, titles |-> t, left |-> left \ {i}, made |-> made \cup {new}] BY <1>2, <1>4
<1>7. split'.epic = e /\ split'.titles = t /\ split'.left = left \ {i} /\ split'.made = made \cup {new} BY <1>6
<1>8. /\ new.parent = e /\ new.title = t[i] /\ new.run = triages /\ new.staged = TRUE
      /\ new = [parent |-> e, title |-> t[i], run |-> triages, staged |-> TRUE]
  BY <1>1, <1>5 DEF NewChild
<1>9. /\ e \in Epic /\ e \notin todo /\ t \in Splits /\ left \subseteq DOMAIN t
      /\ \A j, k \in left : Norm(t[j]) = Norm(t[k]) => j = k
      /\ \A c \in cards : c.parent = e /\ c.run # 0
           => c.run = triages /\ \A j \in left : Norm(c.title) # Norm(t[j])
      /\ \A c \in made : \A j \in left : Norm(c.title) # Norm(t[j])
  BY <1>3, <1>5 DEF SplitOK
<1>10. new \in ChildRec
  <2>1. t[i] \in Range(t) BY <1>5, <1>9 DEF Range
  <2>2. t[i] \in Title BY <1>9, <2>1 DEF Title
  <2>3. triages \in Nat BY DEF BoardTypes
  <2> QED BY <1>8, <1>9, <2>2, <2>3 DEF ChildRec
<1>11. IsFiniteSet(cards') BY <1>2, FS_AddElement DEF BoardTypes
<1>12. BoardTypes' BY <1>2, <1>10, <1>11 DEF BoardTypes
<1>13. triages \in Nat BY DEF BoardTypes
<1>14. ViewOK' BY <1>2, <1>8, <1>9, <1>13 DEF ViewOK
<1>15. SplitOK'
  <2>1. split' = [epic |-> split'.epic, titles |-> split'.titles, left |-> split'.left, made |-> split'.made]
    BY <1>6, <1>7
  <2>2. split'.epic \in Epic \ todo' /\ split'.titles \in Splits /\ split'.left \subseteq DOMAIN split'.titles
    BY <1>2, <1>7, <1>9
  <2>3. \A j, k \in left \ {i} : Norm(t[j]) = Norm(t[k]) => j = k BY <1>9
  <2>4. \A c \in cards' : c.parent = e /\ c.run # 0
          => c.run = triages /\ \A j \in left \ {i} : Norm(c.title) # Norm(t[j])
    BY <1>2, <1>5, <1>8, <1>9
  <2>5. \A c \in made \cup {new} : \A j \in left \ {i} : Norm(c.title) # Norm(t[j]) BY <1>5, <1>8, <1>9
  <2>6. \E c \in cards' : c.parent = e BY <1>2, <1>8
  <2> QED BY <1>2, <1>7, <2>1, <2>2, <2>3, <2>4, <2>5, <2>6 DEF SplitOK
<1>16. new \notin made BY <1>5, <1>8, <1>9
<1>17. PICK m \in Nat, l \in Nat, n \in Nat :
        /\ m = Cardinality(made) /\ l = Cardinality(left) /\ n = Cardinality(MadeIn(triages))
        /\ IsFiniteSet(made) /\ IsFiniteSet(left) /\ IsFiniteSet(MadeIn(triages))
  BY <1>5, MadeIsFinite, FS_CardinalityType DEF BudgetOK
<1>18. Cardinality(made \cup {new}) = m + 1 /\ IsFiniteSet(made \cup {new})
  BY <1>16, <1>17, FS_AddElement
<1>19. Cardinality(left \ {i}) = l - 1 /\ IsFiniteSet(left \ {i})
  BY <1>5, <1>17, FS_RemoveElement
<1>20. MadeIn(triages)' = MadeIn(triages) \cup {new} BY <1>2, <1>8 DEF MadeIn
<1>21. PICK n1 \in Nat : n1 = Cardinality(MadeIn(triages)') /\ n1 <= n + 1
  <2>1. IsFiniteSet(MadeIn(triages) \cup {new}) /\ Cardinality(MadeIn(triages) \cup {new}) \in {n, n + 1}
    BY <1>17, FS_AddElement
  <2> QED BY <1>17, <1>20, <2>1
<1>22. PICK b \in Nat : b = budget /\ n + b <= MaxBudget + m /\ m + l <= b
  BY <1>3, <1>5, <1>17 DEF BudgetOK, BoardTypes, EpicAssumption
<1>23. BudgetOK'
  <2>1. triages > 0 BY <1>3 DEF BudgetOK
  <2>2. n1 + b <= MaxBudget + (m + 1) /\ (m + 1) + (l - 1) <= b BY <1>21, <1>22 DEF EpicAssumption
  <2>3. IsFiniteSet(split'.left) /\ IsFiniteSet(split'.made) BY <1>7, <1>18, <1>19
  <2>4. Cardinality(split'.made) = m + 1 /\ Cardinality(split'.left) = l - 1 BY <1>7, <1>18, <1>19
  <2> QED BY <1>2, <1>21, <1>22, <2>1, <2>2, <2>3, <2>4 DEF BudgetOK
<1>24. l # 0 BY <1>5, <1>17, FS_EmptySet
<1>25. RunBudgetHolds'
  <2> SUFFICES ASSUME NEW r \in 1 .. triages' PROVE Cardinality({c \in cards' : c.run = r}) <= MaxBudget
    BY DEF RunBudgetHolds
  <2>1. CASE r = triages
    <3>1. PICK S : S = {c \in cards' : c.run = r} OBVIOUS
    <3>2. S = MadeIn(triages)' BY <1>2, <2>1, <3>1 DEF MadeIn
    <3>3. n + 1 <= MaxBudget BY <1>22, <1>24 DEF EpicAssumption
    <3>4. Cardinality(S) <= MaxBudget BY <1>21, <3>2, <3>3 DEF EpicAssumption
    <3> QED BY <3>1, <3>4
  <2>2. CASE r # triages
    <3>1. {c \in cards' : c.run = r} = {c \in cards : c.run = r} BY <1>2, <1>8, <2>2
    <3> QED BY <1>2, <3>1 DEF RunBudgetHolds
  <2> QED BY <2>1, <2>2
<1>26. SplitOnce'
  <2> SUFFICES ASSUME NEW c \in cards', NEW d \in cards', c.parent = d.parent, c.run # 0, d.run # 0
               PROVE  c.run = d.run /\ (Norm(c.title) = Norm(d.title) => c = d)
    BY DEF SplitOnce
  <2>1. CASE c \in cards /\ d \in cards BY <2>1 DEF SplitOnce
  <2>2. CASE c = new /\ d \in cards BY <1>5, <1>8, <1>9, <2>2
  <2>3. CASE d = new /\ c \in cards BY <1>5, <1>8, <1>9, <2>3
  <2> QED BY <1>2, <2>1, <2>2, <2>3
<1>27. StagedOK' BY <1>2, <1>8 DEF StagedOK
<1>28. ParkedWithChildren' BY <1>2 DEF ParkedWithChildren, ParentIs
<1>29. BuiltAfterRelease' /\ RefusedReachesOperator' BY <1>2 DEF BuiltAfterRelease, RefusedReachesOperator
<1> QED BY <1>12, <1>14, <1>15, <1>23, <1>25, <1>26, <1>27, <1>28, <1>29

\* The run pays for the children and parks the epic.
LEMMA EndSplitStep ==
    ASSUME EpicAssumption, BoardInv, EndSplit
    PROVE  BoardInv'
<1> USE DEF BoardInv
<1>1. /\ todo' = todo /\ triages' = triages /\ cards' = cards /\ deaths' = deaths /\ decisions' = decisions
      /\ view' = view /\ chosen' = chosen /\ store' = store /\ split' = NoSplit
      /\ split.epic # NoOne /\ budget' = budget - Cardinality(split.made)
      /\ parked' = IF split.made # {} THEN parked \cup {split.epic} ELSE parked
      /\ epicGhost' = [epicGhost EXCEPT !.settled = @ \cup {<<split.epic, split.made = {}>>}]
  BY DEF EndSplit, digest
<1>2. split # NoSplit BY <1>1 DEF NoSplit
<1>3. /\ epicGhost'.released = epicGhost.released
      /\ epicGhost'.settled = epicGhost.settled \cup {<<split.epic, split.made = {}>>}
      /\ epicGhost' = [released |-> epicGhost'.released, settled |-> epicGhost'.settled]
  BY <1>1 DEF BoardTypes
<1>4. split.epic \in Epic /\ (split.made # {} => \E c \in cards : c.parent = split.epic) BY <1>2 DEF SplitOK
<1>5. PICK m \in Nat, l \in Nat, n \in Nat, b \in Nat :
        /\ m = Cardinality(split.made) /\ l = Cardinality(split.left) /\ n = Cardinality(MadeIn(triages))
        /\ b = budget
  BY MadeIsFinite, FS_CardinalityType DEF BudgetOK, BoardTypes, EpicAssumption
<1>6. m + l <= b /\ n + b <= MaxBudget + m /\ triages > 0 /\ b <= MaxBudget
  BY <1>2, <1>5 DEF BudgetOK, BoardTypes, EpicAssumption
<1>7. budget' = b - m /\ budget' \in 0 .. MaxBudget BY <1>1, <1>5, <1>6 DEF EpicAssumption
<1>8. parked' \subseteq Epic /\ parked \subseteq parked' BY <1>1, <1>4 DEF BoardTypes
<1>9. BoardTypes' BY <1>1, <1>3, <1>7, <1>8 DEF BoardTypes
<1>10. ViewOK' BY <1>1 DEF ViewOK
<1>11. SplitOK' BY <1>1 DEF SplitOK
<1>12. BudgetOK'
  <2>1. split'.left = {} /\ split'.made = {} /\ Cardinality({}) = 0 /\ IsFiniteSet({})
    BY <1>1, FS_EmptySet DEF NoSplit
  <2>2. MadeIn(triages)' = MadeIn(triages) BY <1>1 DEF MadeIn
  <2>3. Cardinality(MadeIn(triages)') = n BY <1>5, <2>2
  <2>4. Cardinality(split'.made) = 0 /\ Cardinality(split'.left) = 0 BY <2>1
  <2> QED BY <1>1, <1>6, <1>7, <2>1, <2>3, <2>4 DEF BudgetOK, EpicAssumption
<1>13. StagedOK' /\ SplitOnce' /\ BuiltAfterRelease' /\ RunBudgetHolds'
  BY <1>1, <1>3 DEF StagedOK, SplitOnce, BuiltAfterRelease, RunBudgetHolds
<1>14. ParkedWithChildren' BY <1>1, <1>4 DEF ParkedWithChildren, ParentIs
<1>15. RefusedReachesOperator'
  <2> SUFFICES ASSUME deaths' = 0, NEW x \in Epic, <<x, FALSE>> \in epicGhost'.settled, x \notin parked'
               PROVE  x \in decisions' \/ store'[x].queued > 0
    BY DEF RefusedReachesOperator
  <2>1. CASE <<x, FALSE>> \in epicGhost.settled BY <1>1, <1>8, <2>1 DEF RefusedReachesOperator
  <2>2. CASE <<x, FALSE>> = <<split.epic, split.made = {}>>
    <3>1. x = split.epic /\ (split.made = {}) = FALSE BY <2>2
    <3>2. parked' = parked \cup {split.epic} BY <1>1, <3>1
    <3> QED BY <3>1, <3>2
  <2> QED BY <1>3, <2>1, <2>2
<1> QED BY <1>9, <1>10, <1>11, <1>12, <1>13, <1>14, <1>15

\* What the board's own steps leave of the decisions.
LEMMA ReportOneStep ==
    ASSUME EpicAssumption, DigestAssumption, BoardInv, DigestInv, NEW e \in Epic, ReportOne(e)
    PROVE  BoardInv' /\ DigestInv' /\ \A q \in Qid : store'[q].uses = store[q].uses
<1> USE DEF BoardInv
<1>1. PICK c \in Contents : c = CHOOSE x \in Contents : TRUE BY DEF DigestAssumption
<1>2. e \in Qid /\ IsFiniteSet(Qid) /\ Ttl \in Nat BY DEF EpicAssumption, DigestAssumption
<1>3. /\ store' = QueuedIn(store, e, c) /\ now' = now /\ reply' = reply
      /\ manifest' = manifest \/ manifest' = BuildManifest(store')
  BY <1>1 DEF ReportOne
<1>4. DigestInv' BY <1>2, <1>3, QueueStep
<1>5. /\ \A q \in Qid : store'[q].uses = store[q].uses /\ store'[q].queued >= store[q].queued
      /\ store'[e].queued > 0
  BY <1>2, <1>3, QueuedKeeps DEF DigestInv
<1>6. /\ todo' = todo /\ triages' = triages /\ cards' = cards /\ deaths' = deaths
      /\ view' = view /\ chosen' = chosen /\ split' = split /\ budget' = budget
      /\ parked' = parked /\ epicGhost' = epicGhost /\ decisions' = decisions \ {e}
  BY DEF ReportOne, epicBoard
<1>7. BoardTypes' BY <1>6 DEF BoardTypes
<1>8. ViewOK' BY <1>6 DEF ViewOK
<1>9. SplitOK' BY <1>6 DEF SplitOK
<1>10. BudgetOK' BY <1>6 DEF BudgetOK, MadeIn
<1>11. StagedOK' /\ SplitOnce' /\ BuiltAfterRelease' /\ RunBudgetHolds' /\ ParkedWithChildren'
  BY <1>6 DEF StagedOK, SplitOnce, BuiltAfterRelease, RunBudgetHolds, ParkedWithChildren
<1>12. RefusedReachesOperator'
  <2> SUFFICES ASSUME deaths' = 0, NEW x \in Epic, <<x, FALSE>> \in epicGhost'.settled, x \notin parked'
               PROVE  x \in decisions' \/ store'[x].queued > 0
    BY DEF RefusedReachesOperator
  <2>1. x \in decisions \/ store[x].queued > 0 BY <1>6 DEF RefusedReachesOperator
  <2>2. x \in Qid BY DEF EpicAssumption
  <2>3. store[x].queued \in Nat /\ store'[x].queued \in Nat /\ store'[x].queued >= store[x].queued
    <3>1. store \in [Qid -> StoreRec] /\ store' \in [Qid -> StoreRec] BY <1>4 DEF DigestInv, StoreOK
    <3>2. store[x] \in StoreRec /\ store'[x] \in StoreRec BY <2>2, <3>1
    <3> QED BY <1>5, <2>2, <3>2 DEF StoreRec
  <2>4. CASE x = e BY <1>5, <2>4
  <2>5. CASE x # e BY <1>6, <2>1, <2>3, <2>5
  <2> QED BY <2>4, <2>5
<1> QED BY <1>4, <1>5, <1>7, <1>8, <1>9, <1>10, <1>11, <1>12

\* A run that dies forgets what it was doing, not what it wrote.
LEMMA TriageDiesStep ==
    ASSUME EpicAssumption, BoardInv, TriageDies
    PROVE  BoardInv'
<1> USE DEF BoardInv
<1>1. /\ todo' = {} /\ triages' = triages /\ cards' = cards /\ deaths' = deaths + 1 /\ decisions' = {}
      /\ view' = view /\ chosen' = chosen /\ split' = NoSplit /\ budget' = budget
      /\ parked' = parked /\ epicGhost' = epicGhost
  BY DEF TriageDies, epicBoard
<1>2. BoardTypes' /\ deaths' # 0 BY <1>1 DEF BoardTypes
<1>3. ViewOK' BY <1>1 DEF ViewOK
<1>4. SplitOK' BY <1>1 DEF SplitOK
<1>5. BudgetOK'
  <2>1. split'.left = {} /\ split'.made = {} /\ Cardinality({}) = 0 /\ IsFiniteSet({})
    BY <1>1, FS_EmptySet DEF NoSplit
  <2>2. Cardinality(split'.made) = 0 /\ Cardinality(split'.left) = 0 /\ budget \in Nat
    BY <2>1 DEF BoardTypes, EpicAssumption
  <2> QED BY <1>1, <2>1, <2>2 DEF BudgetOK
<1>6. StagedOK' /\ SplitOnce' /\ BuiltAfterRelease' /\ RunBudgetHolds' /\ ParkedWithChildren'
  BY <1>1 DEF StagedOK, SplitOnce, BuiltAfterRelease, RunBudgetHolds, ParkedWithChildren
<1>7. RefusedReachesOperator' BY <1>2 DEF RefusedReachesOperator
<1> QED BY <1>2, <1>3, <1>4, <1>5, <1>6, <1>7

\* A released child is the child it was, off its staging.
Released(c, e) == IF ParentIs(c, e) THEN [c EXCEPT !.staged = FALSE] ELSE c

LEMMA ReleasedChild ==
    ASSUME NEW c \in ChildRec, NEW e
    PROVE  /\ Released(c, e) \in ChildRec /\ Released(c, e).parent = c.parent
           /\ Released(c, e).title = c.title /\ Released(c, e).run = c.run
           /\ c.parent # e => Released(c, e) = c
<1>1. PICK p \in Epic \cup {NoOne}, t \in Title, r \in Nat, s \in BOOLEAN :
        c = [parent |-> p, title |-> t, run |-> r, staged |-> s]
  BY DEF ChildRec
<1>2. CASE c.parent = e
  <2>1. Released(c, e) = [parent |-> p, title |-> t, run |-> r, staged |-> FALSE]
    BY <1>1, <1>2 DEF Released, ParentIs
  <2>2. Released(c, e) \in ChildRec BY <2>1 DEF ChildRec
  <2> QED BY <1>1, <1>2, <2>1, <2>2
<1>3. CASE c.parent # e
  <2>1. Released(c, e) = c BY <1>3 DEF Released, ParentIs
  <2> QED BY <1>3, <2>1
<1> QED BY <1>2, <1>3

\* A release changes no child's epic, title or run, and adds none to a run.
LEMMA ReleaseEpicStep ==
    ASSUME EpicAssumption, BoardInv, NEW e \in Epic, ReleaseEpic(e)
    PROVE  BoardInv'
<1> USE DEF BoardInv
<1>1. /\ todo' = todo /\ triages' = triages /\ deaths' = deaths /\ decisions' = decisions
      /\ view' = view /\ chosen' = chosen /\ split' = split /\ budget' = budget
      /\ parked' = parked /\ store' = store
      /\ epicGhost' = [epicGhost EXCEPT !.released =
                         @ \cup {<<c.parent, c.title>> : c \in {d \in cards : ParentIs(d, e)}}]
  BY DEF ReleaseEpic, triage, digest
<1>2. cards' = {Released(c, e) : c \in cards} BY DEF ReleaseEpic, Released
<1>3. /\ epicGhost'.settled = epicGhost.settled
      /\ epicGhost' = [released |-> epicGhost'.released, settled |-> epicGhost'.settled]
      /\ epicGhost.released \subseteq epicGhost'.released
      /\ \A c \in cards : c.parent = e => <<c.parent, c.title>> \in epicGhost'.released
  BY <1>1 DEF BoardTypes, ParentIs
<1>4. \A c \in cards : /\ Released(c, e) \in ChildRec /\ Released(c, e).parent = c.parent
                       /\ Released(c, e).title = c.title /\ Released(c, e).run = c.run
                       /\ c.parent # e => Released(c, e) = c
  BY ReleasedChild DEF BoardTypes
<1>5. \A d \in cards' : \E c \in cards : d = Released(c, e) BY <1>2
<1>6. \A c \in cards : Released(c, e) \in cards' BY <1>2
<1>7. ASSUME NEW S, IsFiniteSet(S), NEW T, T = {Released(c, e) : c \in S}
      PROVE  IsFiniteSet(T) /\ Cardinality(T) <= Cardinality(S)
  <2> DEFINE f == [c \in S |-> Released(c, e)]
  <2>1. f \in [S -> T] /\ \A t \in T : \E c \in S : f[c] = t BY <1>7
  <2>2. f \in Surjection(S, T)
    <3> HIDE DEF f
    <3> QED BY <2>1 DEF Surjection
  <2> HIDE DEF f
  <2> QED BY <1>7, <2>2, FS_Surjection
<1>8. BoardTypes'
  <2>1. IsFiniteSet(cards') BY <1>2, <1>7 DEF BoardTypes
  <2>2. cards' \subseteq ChildRec BY <1>4, <1>5
  <2> QED BY <1>1, <1>3, <2>1, <2>2 DEF BoardTypes
<1>9. ASSUME NEW r, NEW T, T = {c \in cards' : c.run = r}
      PROVE  Cardinality(T) \in Nat /\ Cardinality(T) <= Cardinality(MadeIn(r))
  <2>1. T = {Released(c, e) : c \in MadeIn(r)} BY <1>2, <1>4, <1>9 DEF MadeIn
  <2>2. IsFiniteSet(MadeIn(r)) BY MadeIsFinite
  <2>3. PICK S : S = MadeIn(r) OBVIOUS
  <2>4. IsFiniteSet(T) /\ Cardinality(T) <= Cardinality(S) BY <1>7, <2>1, <2>2, <2>3
  <2> QED BY <2>3, <2>4, FS_CardinalityType
<1>10. ViewOK' BY <1>1, <1>4, <1>5 DEF ViewOK
<1>11. SplitOK'
  <2>1. CASE split = NoSplit BY <1>1, <2>1 DEF SplitOK
  <2>2. CASE split # NoSplit
    <3>1. \A d \in cards' : d.parent = split.epic /\ d.run # 0
            => d.run = triages /\ \A i \in split.left : Norm(d.title) # Norm(split.titles[i])
      BY <1>4, <1>5, <2>2 DEF SplitOK
    <3>2. split.made # {} => \E d \in cards' : d.parent = split.epic BY <1>4, <1>6, <2>2 DEF SplitOK
    <3> QED BY <1>1, <2>2, <3>1, <3>2 DEF SplitOK
  <2> QED BY <2>1, <2>2
<1>12. BudgetOK'
  <2>1. PICK T : T = {c \in cards' : c.run = triages} OBVIOUS
  <2>2. MadeIn(triages)' = T BY <1>1, <2>1 DEF MadeIn
  <2>3. PICK n1 \in Nat, n \in Nat : n1 = Cardinality(T) /\ n = Cardinality(MadeIn(triages)) /\ n1 <= n
    BY <1>9, <2>1, MadeIsFinite
  <2>4. PICK m \in Nat, b \in Nat : m = Cardinality(split.made) /\ b = budget
    BY FS_CardinalityType DEF BudgetOK, BoardTypes, EpicAssumption
  <2>5. todo # {} \/ split # NoSplit => triages > 0 /\ n + b <= MaxBudget + m
    BY <2>3, <2>4 DEF BudgetOK
  <2>6. todo # {} \/ split # NoSplit => triages > 0 /\ n1 + b <= MaxBudget + m
    BY <2>3, <2>5 DEF EpicAssumption
  <2>7. Cardinality(MadeIn(triages)') = n1 BY <2>2, <2>3
  <2> QED BY <1>1, <2>4, <2>6, <2>7 DEF BudgetOK
<1>13. RunBudgetHolds'
  <2> SUFFICES ASSUME NEW r \in 1 .. triages' PROVE Cardinality({c \in cards' : c.run = r}) <= MaxBudget
    BY DEF RunBudgetHolds
  <2>1. PICK T : T = {c \in cards' : c.run = r} OBVIOUS
  <2>2. Cardinality(T) \in Nat /\ Cardinality(T) <= Cardinality(MadeIn(r)) BY <1>9, <2>1
  <2>3. Cardinality(MadeIn(r)) <= MaxBudget BY <1>1 DEF MadeIn, RunBudgetHolds
  <2>4. Cardinality(MadeIn(r)) \in Nat BY MadeIsFinite
  <2>5. Cardinality(T) <= MaxBudget BY <2>2, <2>3, <2>4 DEF EpicAssumption
  <2> QED BY <2>1, <2>5
<1>14. SplitOnce'
  <2> SUFFICES ASSUME NEW c \in cards', NEW d \in cards', c.parent = d.parent, c.run # 0, d.run # 0
               PROVE  c.run = d.run /\ (Norm(c.title) = Norm(d.title) => c = d)
    BY DEF SplitOnce
  <2>1. PICK c0 \in cards, d0 \in cards : c = Released(c0, e) /\ d = Released(d0, e) BY <1>5
  <2>2. c.parent = c0.parent /\ c.run = c0.run /\ c.title = c0.title BY <1>4, <2>1
  <2>3. d.parent = d0.parent /\ d.run = d0.run /\ d.title = d0.title BY <1>4, <2>1
  <2>4. c0.run = d0.run /\ (Norm(c0.title) = Norm(d0.title) => c0 = d0) BY <2>2, <2>3 DEF SplitOnce
  <2> QED BY <2>1, <2>2, <2>3, <2>4
<1>15. StagedOK'
  <2> SUFFICES ASSUME NEW d \in cards', d.run # 0, ~d.staged
               PROVE  <<d.parent, d.title>> \in epicGhost'.released
    BY DEF StagedOK
  <2>1. PICK c \in cards : d = Released(c, e) BY <1>5
  <2>2. d.parent = c.parent /\ d.title = c.title /\ d.run = c.run BY <1>4, <2>1
  <2>3. CASE c.parent = e BY <1>3, <2>2, <2>3
  <2>4. CASE c.parent # e
    <3>1. d = c BY <1>4, <2>1, <2>4
    <3> QED BY <1>3, <3>1 DEF StagedOK
  <2> QED BY <2>3, <2>4
<1>16. BuiltAfterRelease' BY <1>1, <1>3 DEF BuiltAfterRelease
<1>17. ParkedWithChildren' BY <1>1, <1>4, <1>6 DEF ParkedWithChildren, ParentIs
<1>18. RefusedReachesOperator' BY <1>1, <1>3 DEF RefusedReachesOperator
<1> QED BY <1>8, <1>10, <1>11, <1>12, <1>13, <1>14, <1>15, <1>16, <1>17, <1>18

\* People's cards count for no run.
LEMMA HandCardStep ==
    ASSUME EpicAssumption, BoardInv, NEW e \in Epic \cup {NoOne}, NEW title \in HandTitles, HandCard(e, title)
    PROVE  BoardInv'
<1> USE DEF BoardInv
<1>1. PICK new : new = [parent |-> e, title |-> title, run |-> 0, staged |-> FALSE] OBVIOUS
<1>2. /\ todo' = todo /\ triages' = triages /\ deaths' = deaths /\ decisions' = decisions
      /\ view' = view /\ chosen' = chosen /\ split' = split /\ budget' = budget
      /\ parked' = parked /\ store' = store /\ epicGhost' = epicGhost /\ cards' = cards \cup {new}
  BY <1>1 DEF HandCard, triage, digest
<1>3. new \in ChildRec /\ new.run = 0 BY <1>1 DEF ChildRec, Title
<1>4. IsFiniteSet(cards') BY <1>2, FS_AddElement DEF BoardTypes
<1>5. BoardTypes' BY <1>2, <1>3, <1>4 DEF BoardTypes
<1>6. ViewOK' BY <1>2, <1>3 DEF ViewOK
<1>7. SplitOK' BY <1>2, <1>3 DEF SplitOK
<1>8. \A r : r # 0 => {c \in cards' : c.run = r} = {c \in cards : c.run = r} BY <1>2, <1>3
<1>9. BudgetOK'
  <2>1. triages > 0 => MadeIn(triages)' = MadeIn(triages) BY <1>2, <1>3 DEF MadeIn
  <2> QED BY <1>2, <2>1 DEF BudgetOK
<1>10. RunBudgetHolds'
  <2> SUFFICES ASSUME NEW r \in 1 .. triages' PROVE Cardinality({c \in cards' : c.run = r}) <= MaxBudget
    BY DEF RunBudgetHolds
  <2>1. r \in 1 .. triages /\ r # 0 BY <1>2 DEF BoardTypes
  <2> QED BY <1>8, <2>1 DEF RunBudgetHolds
<1>11. SplitOnce' BY <1>2, <1>3 DEF SplitOnce
<1>12. StagedOK' BY <1>2, <1>3 DEF StagedOK
<1>13. ParkedWithChildren' BY <1>2 DEF ParkedWithChildren, ParentIs
<1>14. BuiltAfterRelease' /\ RefusedReachesOperator' BY <1>2 DEF BuiltAfterRelease, RefusedReachesOperator
<1> QED BY <1>5, <1>6, <1>7, <1>9, <1>10, <1>11, <1>12, <1>13, <1>14

\* A build run selects released children and people's cards.
LEMMA SelectChildStep ==
    ASSUME BoardInv, NEW c \in cards, SelectChild(c)
    PROVE  BoardInv'
<1> USE DEF BoardInv
<1>1. /\ todo' = todo /\ triages' = triages /\ deaths' = deaths /\ decisions' = decisions
      /\ view' = view /\ split' = split /\ budget' = budget /\ cards' = cards
      /\ parked' = parked /\ store' = store /\ epicGhost' = epicGhost
      /\ chosen' = {<<c.parent, c.title, c.run>>} /\ ~c.staged
  BY DEF SelectChild, epicBoard, triage, digest
<1>2. BoardTypes' /\ ViewOK' /\ SplitOK' BY <1>1 DEF BoardTypes, ViewOK, SplitOK
<1>3. BudgetOK' BY <1>1 DEF BudgetOK, MadeIn
<1>4. BuiltAfterRelease' BY <1>1 DEF BuiltAfterRelease, StagedOK
<1>5. StagedOK' /\ SplitOnce' /\ RunBudgetHolds' /\ ParkedWithChildren' /\ RefusedReachesOperator'
  BY <1>1 DEF StagedOK, SplitOnce, RunBudgetHolds, ParkedWithChildren, RefusedReachesOperator
<1> QED BY <1>2, <1>3, <1>4, <1>5

\* Steps of the decisions alone leave the board as it is.
LEMMA BoardStays ==
    ASSUME EpicAssumption, BoardInv, store \in [Qid -> StoreRec], store' \in [Qid -> StoreRec],
           \A q \in Qid : store'[q].queued >= store[q].queued,
           UNCHANGED <<epicBoard, triage, chosen, triages, deaths, epicGhost>>
    PROVE  BoardInv'
<1> USE DEF BoardInv
<1>1. /\ todo' = todo /\ triages' = triages /\ deaths' = deaths /\ decisions' = decisions
      /\ view' = view /\ split' = split /\ budget' = budget /\ cards' = cards
      /\ parked' = parked /\ epicGhost' = epicGhost /\ chosen' = chosen
  BY DEF epicBoard, triage
<1>2. BoardTypes' /\ ViewOK' /\ SplitOK' BY <1>1 DEF BoardTypes, ViewOK, SplitOK
<1>3. BudgetOK' BY <1>1 DEF BudgetOK, MadeIn
<1>4. StagedOK' /\ SplitOnce' /\ RunBudgetHolds' /\ ParkedWithChildren' /\ BuiltAfterRelease'
  BY <1>1 DEF StagedOK, SplitOnce, RunBudgetHolds, ParkedWithChildren, BuiltAfterRelease
<1>5. RefusedReachesOperator'
  <2> SUFFICES ASSUME deaths' = 0, NEW x \in Epic, <<x, FALSE>> \in epicGhost'.settled, x \notin parked'
               PROVE  x \in decisions' \/ store'[x].queued > 0
    BY DEF RefusedReachesOperator
  <2>1. x \in decisions \/ store[x].queued > 0 BY <1>1 DEF RefusedReachesOperator
  <2>2. x \in Qid BY DEF EpicAssumption
  <2>3. store[x] \in StoreRec /\ store'[x] \in StoreRec BY <2>2
  <2>4. store[x].queued \in Nat /\ store'[x].queued \in Nat /\ store'[x].queued >= store[x].queued
    BY <2>2, <2>3 DEF StoreRec
  <2> QED BY <1>1, <2>1, <2>4
<1> QED BY <1>2, <1>3, <1>4, <1>5

\* A step of the board leaves the decisions alone or captures one.
Answered ==
    \A q \in Qid : store'[q].uses > store[q].uses => reply.g[reply.n] = <<q, store'[q].content>>

LEMMA EpicsStep ==
    ASSUME EpicAssumption, DigestAssumption, BoardInv, DigestInv, [EpicsNext]_epicVars
    PROVE  BoardInv' /\ DigestInv' /\ Answered
<1>1. store \in [Qid -> StoreRec] BY DEF DigestInv, StoreOK
<1>2. \A q \in Qid : store[q].uses \in Nat /\ store[q].queued \in Nat
  BY StoreNumbers DEF DigestInv, StoreOK
<1>3. ASSUME BoardInv', UNCHANGED digest PROVE BoardInv' /\ DigestInv' /\ Answered
  <2>1. store' = store /\ manifest' = manifest /\ reply' = reply /\ now' = now BY <1>3 DEF digest
  <2>2. DigestInv'
    <3>1. now' \in Nat BY <2>1 DEF DigestInv
    <3> QED BY <2>1, <3>1, DigestStays
  <2> QED BY <1>2, <1>3, <2>1, <2>2 DEF Answered
<1>4. ASSUME NEW picked \in (SUBSET Epic) \ {{}}, StartTriage(picked) PROVE BoardInv' /\ UNCHANGED digest
  BY <1>4, StartTriageStep DEF StartTriage
<1>5. ASSUME NEW e \in Epic, NEW v, NEW g, NEW t \in Splits, AssessEpic(e, v, g, t) \/ BeginSplit(e, v, g, t)
      PROVE  BoardInv' /\ UNCHANGED digest
  <2>1. CASE AssessEpic(e, v, g, t) BY <2>1, AssessEpicStep DEF AssessEpic
  <2>2. CASE BeginSplit(e, v, g, t) BY <2>2, BeginSplitStep DEF BeginSplit
  <2> QED BY <1>5, <2>1, <2>2
<1>6. ASSUME NEW i \in split.left, CreateChild(i) PROVE BoardInv' /\ UNCHANGED digest
  BY <1>6, CreateChildStep DEF CreateChild
<1>7. CASE EndSplit
  <2>1. BoardInv' /\ UNCHANGED digest BY <1>7, EndSplitStep DEF EndSplit
  <2> QED BY <1>3, <2>1
<1>8. CASE TriageDies
  <2>1. BoardInv' /\ UNCHANGED digest BY <1>8, TriageDiesStep DEF TriageDies
  <2> QED BY <1>3, <2>1
<1>9. ASSUME NEW e \in Epic, ReportOne(e) PROVE BoardInv' /\ DigestInv' /\ Answered
  <2>1. BoardInv' /\ DigestInv' /\ \A q \in Qid : store'[q].uses = store[q].uses BY <1>9, ReportOneStep
  <2> QED BY <1>2, <2>1 DEF Answered
<1>10. ASSUME NEW e \in Epic, ReleaseEpic(e) PROVE BoardInv' /\ UNCHANGED digest
  BY <1>10, ReleaseEpicStep DEF ReleaseEpic
<1>11. ASSUME NEW e \in Epic \cup {NoOne}, NEW t \in HandTitles, HandCard(e, t) PROVE BoardInv' /\ UNCHANGED digest
  BY <1>11, HandCardStep DEF HandCard
<1>12. ASSUME NEW c \in cards, SelectChild(c) PROVE BoardInv' /\ UNCHANGED digest
  BY <1>12, SelectChildStep DEF SelectChild
<1>13. CASE Epics
  BY <1>3, <1>4, <1>5, <1>6, <1>7, <1>8, <1>9, <1>10, <1>11, <1>12, <1>13 DEF Epics
<1>14. CASE Decisions
  <2>1. Digest /\ UNCHANGED <<epicBoard, triage, chosen, triages, deaths, epicGhost>> BY <1>14 DEF Decisions
  <2>2. DigestInv' /\ StoreKeeps BY <2>1, DigestStep
  <2>3. store' \in [Qid -> StoreRec] /\ \A q \in Qid : store'[q].queued >= store[q].queued
    BY <2>2 DEF DigestInv, StoreOK, StoreKeeps
  <2>4. BoardInv' BY <1>1, <2>1, <2>3, BoardStays
  <2> QED BY <2>2, <2>4 DEF StoreKeeps, Answered
<1>15. CASE UNCHANGED epicVars
  <2>1. UNCHANGED digest /\ store' = store /\ UNCHANGED <<epicBoard, triage, chosen, triages, deaths, epicGhost>>
    BY <1>15 DEF epicVars, digest, epicBoard, triage
  <2>2. \A q \in Qid : store'[q].queued >= store[q].queued BY <1>2, <2>1
  <2>3. BoardInv' BY <1>1, <2>1, <2>2, BoardStays
  <2> QED BY <1>3, <2>1, <2>3
<1> QED BY <1>13, <1>14, <1>15 DEF EpicsNext

LEMMA BoardAlways == EpicsSpec => [](BoardInv /\ DigestInv)
<1>1. EpicsInit => BoardInv /\ DigestInv
  <2>1. EpicsInit => DigestInit BY DEF EpicsInit
  <2> QED BY <2>1, BoardStart, DigestStart, EpicAssumption, DigestAssumption
<1>2. BoardInv /\ DigestInv /\ [EpicsNext]_epicVars => (BoardInv /\ DigestInv)'
  BY EpicsStep, EpicAssumption, DigestAssumption
<1> QED BY <1>1, <1>2, PTL DEF EpicsSpec

\* Autocode orchestrator.py and digest.py: for every number of epics, proposals,
\* runs and deaths, an epic is split once, within the run's budget, is built after
\* its release and parked with its children; what was refused reaches the
\* operator, and a decision is answered once.
THEOREM BoardStaysSound == EpicsSpec => []BoardIsSound
<1>1. ASSUME BoardInv, DigestInv PROVE BoardIsSound
  <2>1. EpicsTypeOK
    <3>1. \A c \in cards : c.parent \in Epic \cup {NoOne} /\ c.run \in 0..triages /\ c.staged \in BOOLEAN
      <4> SUFFICES ASSUME NEW c \in cards
                   PROVE  c.parent \in Epic \cup {NoOne} /\ c.run \in 0..triages /\ c.staged \in BOOLEAN
        OBVIOUS
      <4>1. c \in ChildRec /\ triages \in Nat BY <1>1 DEF BoardInv, BoardTypes
      <4>2. c.parent \in Epic \cup {NoOne} /\ c.run \in Nat /\ c.staged \in BOOLEAN BY <4>1 DEF ChildRec
      <4>3. c.run <= triages BY <1>1, <4>1, <4>2 DEF BoardInv, ViewOK
      <4> QED BY <4>1, <4>2, <4>3
    <3>2. \A q \in Qid : store[q].state \in {"absent", "pending", "answered", "expired"}
      <4>1. \A q \in Qid : store[q] \in StoreRec BY <1>1 DEF DigestInv, StoreOK
      <4> QED BY <4>1 DEF StoreRec
    <3>3. parked \subseteq Epic /\ todo \subseteq Epic /\ decisions \subseteq Epic
          /\ budget \in Nat /\ budget <= MaxBudget
      BY <1>1, EpicAssumption DEF BoardInv, BoardTypes, EpicAssumption
    <3>4. reply.step \in {"idle", "store", "save", "expire", "expired"} BY <1>1 DEF DigestInv, ReplyOK
    <3> QED BY <3>1, <3>2, <3>3, <3>4 DEF EpicsTypeOK
  <2> QED BY <1>1, <2>1 DEF BoardIsSound, BoardInv, DigestInv, StoreOK
<1> QED BY <1>1, BoardAlways, PTL

\* Autocode resolver.py answer: whatever the board and the other decisions do in
\* between, an answer is recorded for the decision and the content that stood at
\* the replied number in the digest the operator was shown.
THEOREM AnswersStayAsShown == EpicsSpec => AnswersWhatWasShown
<1>1. BoardInv /\ DigestInv /\ [EpicsNext]_epicVars => [Answered]_digest
  BY EpicsStep, EpicAssumption, DigestAssumption
<1> QED BY <1>1, BoardAlways, PTL DEF EpicsSpec, AnswersWhatWasShown, Answered
=============================================================================
