----------------------------- MODULE AutocodeEpics -----------------------------
(***************************************************************************)
(* Splitting epics (autocode orchestrator.py phase0_assess,                 *)
(* _decompose_card, release_epic, phase1_triage, phase3_report and          *)
(* grounding.py) over a board that humans edit, in runs that may die between*)
(* two children, with the decisions going to the digest.                    *)
(***************************************************************************)
EXTENDS DecisionDigest

CONSTANTS
    Epic,
    RepoOf,             \* [Epic -> BOOLEAN]: exactly one repo tag
    DepthOf,            \* [Epic -> Nat]: decomp_depth
    Grounds,            \* what grounding may find for an epic
    Splits,             \* what the harness may propose: sequences of titles
    HandTitles,         \* titles of cards humans add
    Coherent,           \* the titles that fit the repository's language
    MaxDepth, MaxChildren, MaxBudget,
    MaxTriages, MaxDeaths

ASSUME EpicAssumption ==
    /\ RepoOf \in [Epic -> BOOLEAN] /\ DepthOf \in [Epic -> Nat]
    /\ {MaxDepth, MaxChildren, MaxBudget, MaxTriages, MaxDeaths} \subseteq Nat
    /\ Epic \subseteq Qid /\ \A t \in Splits : t \in Seq(Range(t))

VARIABLES
    cards,      \* child cards: [parent, title, run, staged]; run 0 is a human
    parked,     \* epics marked decomposed
    view,       \* the run's copy of cards and parked epics
    todo,       \* epics the run has still to assess
    split,      \* the epic being split: the titles proposed, the places left, the cards made
    budget,     \* children this run may still create
    decisions,  \* the run's decisions, in memory
    chosen,     \* the child a build run has selected since the last triage
    triages, deaths,
    epicGhost       \* released: children a human released; settled: epics this run dealt with

epicBoard == <<cards, parked>>
triage == <<view, todo, split, budget, decisions>>
epicVars == <<digest, cards, parked, view, todo, split, budget, decisions, chosen, triages, deaths, epicGhost>>

NoOne == "none"
NoSplit == [epic |-> NoOne, titles |-> <<>>, left |-> {}, made |-> {}]
Norm(title) == title[1]         \* _norm_title: titles are <<words, spelling>>

EpicsInit ==
    /\ DigestInit
    /\ cards = {} /\ parked = {} /\ view = [cards |-> {}, parked |-> {}]
    /\ todo = {} /\ split = NoSplit /\ budget = 0 /\ decisions = {} /\ chosen = {}
    /\ triages = 0 /\ deaths = 0
    /\ epicGhost = [released |-> {}, settled |-> {}]

Idle == todo = {} /\ split = NoSplit /\ decisions = {}

\* ground_card: a dirty tree or a missing repository grounds nothing.
Concreteness(g) == IF g.grounded /\ g.named > 0 THEN <<g.resolved, g.named>> ELSE <<1, 1>>

\* The concreteness gate turns a valid verdict on a card that resolves too few of
\* the artifacts it names, and is not about new ones, into a split (the floor is
\* 0.34).
TooVague(g) ==
    LET c == Concreteness(g)
    IN  g.grounded /\ 100 * c[1] < 34 * c[2] /\ ~(g.create /\ g.resolved = 0)

EpicVerdict(v, g) == IF v = "valid" /\ TooVague(g) THEN "decompose" ELSE v

\* A scoped run loads the board once, with a fresh budget.
StartTriage(picked) ==
    /\ Idle /\ triages < MaxTriages
    /\ triages' = triages + 1
    /\ view' = [cards |-> cards, parked |-> parked]
    /\ todo' = picked /\ budget' = MaxBudget
    /\ epicGhost' = [epicGhost EXCEPT !.settled = {}]
    /\ chosen' = {}
    /\ UNCHANGED <<digest, epicBoard, split, decisions, deaths>>

ParentIs(c, e) == c.parent = e

ExistingChildren_Ignored(e) == {}

ExistingChildren(e) == {c \in view.cards : ParentIs(c, e)}

\* The coherence gate: one foreign-language child makes the split untrustworthy.
Incoherent(titles) == ~(Range(titles) \subseteq Coherent)

\* A decision instead of a split: no repository, the depth ceiling, no or too
\* many proposals, an incoherent proposal, the run's budget.
Refused(e, titles) ==
    \/ ~RepoOf[e]
    \/ DepthOf[e] >= MaxDepth
    \/ titles = <<>> \/ Len(titles) > MaxChildren
    \/ Incoherent(titles)
    \/ Len(titles) > budget

Skipped(e, v, g) == e \in view.parked \/ EpicVerdict(v, g) # "decompose" \/ ExistingChildren(e) # {}

\* Assess one epic: nothing to split, or a split that ends in a decision.
AssessEpic(e, v, g, titles) ==
    /\ e \in todo /\ split = NoSplit
    /\ Skipped(e, v, g) \/ Refused(e, titles)
    /\ todo' = todo \ {e}
    /\ decisions' = IF Skipped(e, v, g) THEN decisions ELSE decisions \cup {e}
    /\ epicGhost' = [epicGhost EXCEPT !.settled = @ \cup {<<e, Skipped(e, v, g)>>}]
    /\ UNCHANGED <<digest, epicBoard, view, split, budget, chosen, triages, deaths>>

\* Children are skipped when the run's view, or this split, has the title under
\* this epic or on a card without a parent.
SeenTitles(e) == {Norm(c.title) : c \in {d \in view.cards : d.parent \in {e, NoOne}}}

Fresh(titles, known) ==
    {i \in DOMAIN titles : /\ Norm(titles[i]) \notin known
                           /\ \A j \in DOMAIN titles : j < i => Norm(titles[j]) # Norm(titles[i])}

BeginSplit(e, v, g, titles) ==
    /\ e \in todo /\ split = NoSplit
    /\ ~Skipped(e, v, g) /\ ~Refused(e, titles)
    /\ todo' = todo \ {e}
    /\ split' = [epic |-> e, titles |-> titles, left |-> Fresh(titles, SeenTitles(e)), made |-> {}]
    /\ UNCHANGED <<digest, epicBoard, view, budget, decisions, chosen, triages, deaths, epicGhost>>

\* Born staged; the id is a function of epic and title.
NewChild(i) == [parent |-> split.epic, title |-> split.titles[i], run |-> triages, staged |-> TRUE]

CreateChild(i) ==
    /\ i \in split.left /\ \A j \in split.left : i <= j
    /\ cards' = cards \cup {NewChild(i)}
    /\ split' = [split EXCEPT !.left = @ \ {i}, !.made = @ \cup {NewChild(i)}]
    /\ UNCHANGED <<digest, parked, view, todo, budget, decisions, chosen, triages, deaths, epicGhost>>

\* Charge the budget and park the epic when it has got children.
EndSplit ==
    /\ split.epic # NoOne /\ split.left = {}
    /\ budget' = budget - Cardinality(split.made)
    /\ parked' = IF split.made # {} THEN parked \cup {split.epic} ELSE parked
    /\ epicGhost' = [epicGhost EXCEPT !.settled = @ \cup {<<split.epic, split.made = {}>>}]
    /\ split' = NoSplit
    /\ UNCHANGED <<digest, cards, view, todo, decisions, chosen, triages, deaths>>

\* phase3_report: one decision after the other, then the manifest.
ReportOne(e) ==
    /\ todo = {} /\ split = NoSplit /\ e \in decisions /\ MayQueue(e)
    /\ store' = QueuedIn(store, e, CHOOSE c \in Contents : TRUE)
    /\ decisions' = decisions \ {e}
    /\ manifest' = IF decisions' = {} THEN BuildManifest(store') ELSE manifest
    /\ UNCHANGED <<seen, reply, now, epicBoard, view, todo, split, budget, chosen, triages, deaths, epicGhost>>

TriageDies ==
    /\ ~Idle /\ deaths < MaxDeaths
    /\ deaths' = deaths + 1
    /\ todo' = {} /\ split' = NoSplit /\ decisions' = {}
    /\ UNCHANGED <<digest, epicBoard, view, budget, chosen, triages, epicGhost>>

\* release_epic: a human promotes the staged children of an epic.
ReleaseEpic(e) ==
    /\ \E c \in cards : ParentIs(c, e) /\ c.staged
    /\ cards' = {IF ParentIs(c, e) THEN [c EXCEPT !.staged = FALSE] ELSE c : c \in cards}
    /\ epicGhost' = [epicGhost EXCEPT !.released = @ \cup {<<c.parent, c.title>> : c \in {d \in cards : ParentIs(d, e)}}]
    /\ UNCHANGED <<digest, parked, triage, chosen, triages, deaths>>

\* A human adds a card by hand, under an epic or without a parent.
HandCard(e, title) ==
    /\ \A c \in cards : c.run # 0
    /\ cards' = cards \cup {[parent |-> e, title |-> title, run |-> 0, staged |-> FALSE]}
    /\ UNCHANGED <<digest, parked, triage, chosen, triages, deaths, epicGhost>>

\* phase1_triage of a build run: a staged child is hidden and untriaged.
SelectChild(c) ==
    /\ Idle /\ reply = NoReply /\ c \in cards /\ ~c.staged /\ chosen = {}
    /\ chosen' = {<<c.parent, c.title, c.run>>}
    /\ UNCHANGED <<digest, epicBoard, triage, triages, deaths, epicGhost>>

Epics ==
    \/ \E picked \in (SUBSET Epic) \ {{}} : StartTriage(picked)
    \/ \E e \in Epic, v \in {"valid", "decompose"}, g \in Grounds, t \in Splits :
            AssessEpic(e, v, g, t) \/ BeginSplit(e, v, g, t)
    \/ (\E i \in split.left : CreateChild(i)) \/ EndSplit \/ TriageDies
    \/ \E e \in Epic : ReportOne(e) \/ ReleaseEpic(e)
    \/ \E e \in Epic \cup {NoOne}, t \in HandTitles : HandCard(e, t)
    \/ \E c \in cards : SelectChild(c)

Decisions ==
    /\ Digest
    /\ UNCHANGED <<epicBoard, triage, chosen, triages, deaths, epicGhost>>

EpicsNext == Epics \/ Decisions

EpicsSpec == EpicsInit /\ [][EpicsNext]_epicVars

----------------------------------------------------------------------------
(* Properties. *)

EpicsTypeOK ==
    /\ parked \subseteq Epic /\ todo \subseteq Epic /\ decisions \subseteq Epic
    /\ budget \in Nat /\ budget <= MaxBudget
    /\ \A c \in cards : c.parent \in Epic \cup {NoOne} /\ c.run \in 0..triages /\ c.staged \in BOOLEAN
    /\ reply.step \in {"idle", "store", "save", "expire", "expired"}
    /\ \A q \in Qid : store[q].state \in {"absent", "pending", "answered", "expired"}

\* orchestrator.py _decompose_card: whatever crashes, is resumed or added by hand,
\* the children the autopilot creates under an epic come from one split, no two
\* of them with the same normalised title.
SplitOnce ==
    \A c, d \in cards :
        c.parent = d.parent /\ c.run # 0 /\ d.run # 0
            => c.run = d.run /\ (Norm(c.title) = Norm(d.title) => c = d)

\* orchestrator.py phase0_assess: the children one run creates, over all its
\* epics, stay within the run's budget.
RunBudgetHolds == \A r \in 1..triages : Cardinality({c \in cards : c.run = r}) <= MaxBudget

\* orchestrator.py release_epic: a child the autopilot created is built only
\* after a human released its epic.
BuiltAfterRelease ==
    \A x \in chosen : x[3] # 0 => <<x[1], x[2]>> \in epicGhost.released

\* orchestrator.py _decompose_card: an epic is parked only when its children are
\* on the board; a run that was not cut short leaves an epic that it could not
\* split with the operator.
ParkedWithChildren == \A e \in parked : \E c \in cards : ParentIs(c, e)

\* orchestrator.py phase3_report: until the run's decisions reach the store they
\* are kept; an epic that was refused is in the run's memory or was queued.
RefusedReachesOperator ==
    deaths = 0 =>
        \A e \in Epic : <<e, FALSE>> \in epicGhost.settled /\ e \notin parked
            => e \in decisions \/ store[e].queued > 0

\* The board and the decision store, with runs that die half-way, people who add
\* cards and replies that are cut short: an epic is split once, within the budget,
\* is built after its release and parked with its children; what was refused
\* reaches the operator, and a decision is answered once.
BoardIsSound ==
    /\ EpicsTypeOK /\ SplitOnce /\ RunBudgetHolds /\ BuiltAfterRelease
    /\ ParkedWithChildren /\ RefusedReachesOperator /\ AnsweredOnce
=============================================================================
