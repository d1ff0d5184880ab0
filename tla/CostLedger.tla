------------------------------- MODULE CostLedger -------------------------------
(***************************************************************************)
(* execute_dispatch() (autocode/agentrun_bridge.py) over the cost ledger,   *)
(* the settlement journal and the cap alerts of autocode/autopilot_cost.py, *)
(* the rows the orchestrator adds to the same ledger, and the correction    *)
(* ledger_correction.py publishes.  Dispatches run in several processes;    *)
(* agent_run's lease lets one dispatch of a card run at a time.  The        *)
(* sandboxed run, the grade, git and the wallet are external: they end      *)
(* well, end badly or raise.                                                *)
(***************************************************************************)
EXTENDS Naturals, Sequences, FiniteSets, RunningTotals

CONSTANTS
    Dispatch,
    CardOf,          \* [Dispatch -> card]
    FixtureCard,     \* the card test suites dispatch; a real one may have its name
    Workers,         \* dispatches that run at a time
    Builders,        \* builds an orchestrator run has under way at a time
    Cap,             \* caps.max_usd_per_day
    Price,           \* what a run may cost
    MaxDay,          \* bound on the days
    MaxMishaps,      \* bound on the calls that raise, lost writes and deaths
    MaxTestRows,     \* bound on the rows of test suites
    MaxEngineRuns    \* bound on the orchestrator's runs

ASSUME CostAssumption ==
    /\ IsFiniteSet(Dispatch) /\ DOMAIN CardOf = Dispatch
    /\ Workers \in Nat /\ Builders \in Nat /\ Cap \in Nat \ {0} /\ MaxDay \in Nat \ {0} /\ MaxMishaps \in Nat
    /\ Price \subseteq Nat /\ \E p \in Price : \A q \in Price : q <= p

VARIABLES
    day,             \* today
    costRows,        \* ledger.jsonl
    settlements,     \* settlements.jsonl: the cards
    sentinels,       \* days with an alert sentinel
    alerts,          \* [1 .. MaxDay -> SUBSET {"sent", "failed"}]: how its alerts ended
    dispatch,        \* [Dispatch -> [step, today, pre, cost, pr, grade]]
    minted,          \* [card -> Nat]: settlements in the wallet
    mishaps,
    lapses,          \* [card -> Nat]: dispatches that died, lost their row or could not read
    misread,         \* looks at the cap that could not read the ledger
    engine           \* [runs, building, spent, past]: the orchestrator's CapLedger

costVars == <<day, costRows, settlements, sentinels, alerts, dispatch, minted, lapses, misread, mishaps, engine>>

Cards == {CardOf[d] : d \in Dispatch}
Days == 1 .. MaxDay

-----------------------------------------------------------------------------
(* autopilot_cost.py *)

Mishap(happens) == IF happens THEN mishaps < MaxMishaps /\ mishaps' = mishaps + 1 ELSE UNCHANGED mishaps

RowsOn(d) == {i \in DOMAIN costRows : costRows[i].day = d}

(* What the rows numbered I add up to. *)
CostOf(I) == SumOf([i \in 1 .. Len(costRows) |-> IF i \in I THEN costRows[i].cost ELSE 0])

DayTotal(d) == CostOf(RowsOn(d))

(* What those of one writer add up to on a day. *)
TotalBy(d, who) == CostOf({i \in RowsOn(d) : costRows[i].by = who})

(* A row and whose it is; run is the form of its run id: "airun" and the    *)
(* card, a time stamp, or one of the names the orchestrator's tests use.    *)
LedgerRow(card, cost, run, who) == [day |-> day, card |-> card, cost |-> cost, run |-> run, by |-> who]

(* record_run(); a write that fails is swallowed. *)
RecordRun(row, written) == costRows' = IF written THEN Append(costRows, row) ELSE costRows

AlreadySettled(card) == card \in settlements

-----------------------------------------------------------------------------
(* execute_dispatch() *)

Ended == {"refused", "finished", "dead"}

InFlight(d) == dispatch[d].step \notin Ended \cup {"idle"}

(* The run's result goes with the call. *)
Goes(d, step) ==
    dispatch' = [dispatch EXCEPT ![d] =
        IF step \in Ended THEN [@ EXCEPT !.step = step, !.cost = 0, !.pr = FALSE, !.grade = FALSE]
        ELSE [@ EXCEPT !.step = step]]

MayStart(d) ==
    /\ dispatch[d].step = "idle"
    /\ Cardinality({e \in Dispatch : InFlight(e)}) < Workers
    /\ \A e \in Dispatch : InFlight(e) => CardOf[e] # CardOf[d]

(* The card, its one repository label and the policies; any of them refuses *)
(* before anything is spent.                                                *)
RefuseByPolicy(d) ==
    /\ MayStart(d) /\ Goes(d, "refused")
    /\ UNCHANGED <<day, costRows, settlements, sentinels, alerts, minted, lapses, misread, mishaps, engine>>

(* The cap, against what the ledger says of today. *)
Capped(pre) == pre >= Cap

(* A ledger that cannot be read counts as an empty one. *)
ReadCap(d, readable) ==
    /\ MayStart(d)
    /\ LET pre == IF readable THEN DayTotal(day) ELSE 0
       IN  dispatch' = [dispatch EXCEPT ![d] = [@ EXCEPT !.step = IF Capped(pre) THEN "alert" ELSE "run",
                                                         !.today = day, !.pre = pre]]
    /\ misread' = IF readable THEN misread ELSE misread + 1
    /\ Mishap(~readable)
    /\ UNCHANGED <<day, costRows, settlements, sentinels, alerts, minted, lapses, engine>>

(* The sandboxed run and the independent grade. *)
RunEnds(d, cost, passed, grade) ==
    /\ dispatch[d].step = "run"
    /\ dispatch' = [dispatch EXCEPT ![d] = [@ EXCEPT !.step = IF passed THEN "finalize" ELSE "record",
                                                     !.cost = cost, !.grade = grade]]
    /\ UNCHANGED <<day, costRows, settlements, sentinels, alerts, minted, lapses, misread, mishaps, engine>>

(* One of them raises: the outermost handler refuses, and what the run cost *)
(* is in no ledger.                                                         *)
RunRaises(d) ==
    /\ dispatch[d].step = "run" /\ Goes(d, "refused")
    /\ Mishap(TRUE)
    /\ UNCHANGED <<day, costRows, settlements, sentinels, alerts, minted, lapses, misread, engine>>

Finalize(d, pr) ==
    /\ dispatch[d].step = "finalize"
    /\ dispatch' = [dispatch EXCEPT ![d].step = "record", ![d].pr = pr]
    /\ UNCHANGED <<day, costRows, settlements, sentinels, alerts, minted, lapses, misread, mishaps, engine>>

FinalizeRaises(d) ==
    /\ dispatch[d].step = "finalize" /\ Goes(d, "refused")
    /\ Mishap(TRUE)
    /\ UNCHANGED <<day, costRows, settlements, sentinels, alerts, minted, lapses, misread, engine>>

(* _record_cost_and_check_caps() *)
Record(d, written) ==
    /\ dispatch[d].step = "record"
    /\ RecordRun(LedgerRow(CardOf[d], dispatch[d].cost, "airun", "bridge"), written)
    /\ Goes(d, "alert")
    /\ Mishap(~written)
    /\ UNCHANGED <<day, settlements, sentinels, alerts, minted, lapses, misread, engine>>

(* Where a dispatch goes on once the caps are checked. *)
AfterCaps(d) ==
    IF dispatch[d].pr /\ dispatch[d].grade THEN "settle"
    ELSE IF dispatch[d].pr THEN "finished" ELSE "refused"

DayCost(d) == dispatch[d].pre + dispatch[d].cost

(* check_and_alert_caps(): look, alert, mark; the alert of the token cap    *)
(* works alike.  Whether sk-alert got the message out is not looked at.     *)
CheckCaps(d, sent) ==
    /\ dispatch[d].step = "alert"
    /\ IF Capped(DayCost(d)) /\ dispatch[d].today \notin sentinels
         THEN /\ alerts' = [alerts EXCEPT ![dispatch[d].today] = @ \cup {IF sent THEN "sent" ELSE "failed"}]
              /\ Goes(d, "mark") /\ Mishap(~sent)
         ELSE Goes(d, AfterCaps(d)) /\ UNCHANGED <<alerts, mishaps>>
    /\ UNCHANGED <<day, costRows, settlements, sentinels, minted, lapses, misread, engine>>

(* A sentinel that cannot be written is missing. *)
MarkAlerted(d, written) ==
    /\ dispatch[d].step = "mark" /\ Goes(d, AfterCaps(d))
    /\ sentinels' = IF written THEN sentinels \cup {dispatch[d].today} ELSE sentinels
    /\ Mishap(~written)
    /\ UNCHANGED <<day, costRows, settlements, alerts, minted, lapses, misread, engine>>

(* One settlement for each card; a journal that cannot be read says "not    *)
(* settled".  (Mutant: nobody looks.)                                       *)
CheckSettled_Never(d, readable) ==
    /\ dispatch[d].step = "settle" /\ Goes(d, "mint")
    /\ UNCHANGED <<day, costRows, settlements, sentinels, alerts, minted, lapses, misread, mishaps, engine>>

CheckSettled(d, readable) ==
    /\ dispatch[d].step = "settle"
    /\ Goes(d, IF readable /\ AlreadySettled(CardOf[d]) THEN "finished" ELSE "mint")
    /\ lapses' = IF readable THEN lapses ELSE [lapses EXCEPT ![CardOf[d]] = @ + 1]
    /\ Mishap(~readable)
    /\ UNCHANGED <<day, costRows, settlements, sentinels, alerts, minted, misread, engine>>

(* joules.settle() says whether the wallet took it; the bridge goes on to   *)
(* record_settlement() either way.                                          *)
Settle(d, taken) ==
    /\ dispatch[d].step = "mint" /\ Goes(d, "journal")
    /\ minted' = IF taken THEN [minted EXCEPT ![CardOf[d]] = @ + 1] ELSE minted
    /\ Mishap(~taken)
    /\ UNCHANGED <<day, costRows, settlements, sentinels, alerts, lapses, misread, engine>>

(* A row that is lost, as one that follows another's unfinished one is. *)
RecordSettlement(d, written) ==
    /\ dispatch[d].step = "journal" /\ Goes(d, "finished")
    /\ settlements' = IF written THEN settlements \cup {CardOf[d]} ELSE settlements
    /\ lapses' = IF written THEN lapses ELSE [lapses EXCEPT ![CardOf[d]] = @ + 1]
    /\ Mishap(~written)
    /\ UNCHANGED <<day, costRows, sentinels, alerts, minted, misread, engine>>

-----------------------------------------------------------------------------
Die(d) ==
    /\ InFlight(d) /\ Goes(d, "dead")
    /\ lapses' = [lapses EXCEPT ![CardOf[d]] = @ + 1]
    /\ Mishap(TRUE)
    /\ UNCHANGED <<day, costRows, settlements, sentinels, alerts, minted, misread, engine>>

NextDay ==
    /\ day < MaxDay /\ day' = day + 1
    /\ UNCHANGED <<costRows, settlements, sentinels, alerts, dispatch, minted, lapses, misread, mishaps, engine>>

(* A suite without isolation appends its rows (they cost nothing) until     *)
(* assert_not_production_ledger_in_test() refuses them: the bridge's tests  *)
(* make a run id as the bridge does, the orchestrator's have names.         *)
TestRow(run) ==
    /\ Cardinality({i \in DOMAIN costRows : costRows[i].by = "suite"}) < MaxTestRows
    /\ costRows' = Append(costRows, LedgerRow(FixtureCard, 0, run, "suite"))
    /\ UNCHANGED <<day, settlements, sentinels, alerts, dispatch, minted, lapses, misread, mishaps, engine>>

-----------------------------------------------------------------------------
(* The orchestrator: phase2_swarm() asks its own CapLedger, which every run *)
(* begins at zero, before each build; the row comes after the build.        *)

(* A run that died left its builds in no ledger. *)
EngineRunBegins ==
    /\ engine.runs < MaxEngineRuns
    /\ engine' = [runs |-> engine.runs + 1, building |-> 0, spent |-> 0, past |-> engine.past + engine.spent]
    /\ UNCHANGED <<day, costRows, settlements, sentinels, alerts, dispatch, minted, lapses, misread, mishaps>>

Exceeded(spent) == spent > Cap

EngineTakes ==
    /\ engine.runs > 0 /\ engine.building < Builders /\ ~Exceeded(engine.spent)
    /\ engine' = [engine EXCEPT !.building = @ + 1]
    /\ UNCHANGED <<day, costRows, settlements, sentinels, alerts, dispatch, minted, lapses, misread, mishaps>>

EngineBuilt(card, cost, written) ==
    /\ engine.building > 0
    /\ engine' = [engine EXCEPT !.building = @ - 1, !.spent = @ + cost]
    /\ RecordRun(LedgerRow(card, cost, "stamp", "engine"), written)
    /\ Mishap(~written)
    /\ UNCHANGED <<day, settlements, sentinels, alerts, dispatch, minted, lapses, misread>>

EngineNext ==
    \/ EngineRunBegins \/ EngineTakes
    \/ \E card \in Cards, cost \in Price, written \in BOOLEAN : EngineBuilt(card, cost, written)

-----------------------------------------------------------------------------
(* correct_ledger() of ledger_correction.py: totals of each day and of all. *)

(* A fixture's card and a fixture's run id: one of the names, or the        *)
(* bridge's form with that card in it.                                      *)
IsFixtureRow(r) == r.card = FixtureCard /\ r.run \in {"name", "airun"}

(* A day's runs and cost as the rows numbered I have them. *)
Tally(I) == [runs |-> Cardinality(I), cost |-> CostOf(I)]

CorrectedOn(d) == Tally({i \in RowsOn(d) : ~IsFixtureRow(costRows[i])})

-----------------------------------------------------------------------------
CostInit ==
    /\ day = 1 /\ costRows = <<>> /\ settlements = {} /\ sentinels = {}
    /\ alerts = [d \in Days |-> {}]
    /\ dispatch = [d \in Dispatch |-> [step |-> "idle", today |-> 1, pre |-> 0, cost |-> 0,
                                       pr |-> FALSE, grade |-> FALSE]]
    /\ minted = [c \in Cards |-> 0] /\ lapses = [c \in Cards |-> 0] /\ mishaps = 0
    /\ misread = 0 /\ engine = [runs |-> 0, building |-> 0, spent |-> 0, past |-> 0]

DispatchNext(d) ==
    \/ RefuseByPolicy(d)
    \/ RunRaises(d)
    \/ \E cost \in Price, v \in {<<FALSE, FALSE>>, <<TRUE, FALSE>>, <<TRUE, TRUE>>} : RunEnds(d, cost, v[1], v[2])
    \/ \E pr \in BOOLEAN : Finalize(d, pr)
    \/ FinalizeRaises(d)
    \/ \E done \in BOOLEAN :
         \/ ReadCap(d, done) \/ Record(d, done) \/ CheckCaps(d, done) \/ MarkAlerted(d, done)
         \/ CheckSettled(d, done) \/ Settle(d, done) \/ RecordSettlement(d, done)
    \/ Die(d)

CostNext ==
    \/ \E d \in Dispatch : DispatchNext(d)
    \/ EngineNext \/ NextDay
    \/ \E run \in {"name", "airun"} : TestRow(run)

CostSpec == CostInit /\ [][CostNext]_costVars

-----------------------------------------------------------------------------
(* Properties. *)

CostTypeOK ==
    /\ day \in Days /\ sentinels \subseteq Days /\ settlements \subseteq Cards
    /\ \A i \in DOMAIN costRows : costRows[i].day \in Days
    /\ \A d \in Dispatch : dispatch[d].today <= day /\ dispatch[d].pre \in Nat

Dearest == CHOOSE p \in Price : \A q \in Price : q <= p

(* The cap is looked at before a run and its cost is known after it: what   *)
(* the bridge has in the ledger for a day passes the cap by less than the   *)
(* runs that may be under way at once, also across midnight, and one more   *)
(* for each look that could not read the ledger.  The rest of a day is the  *)
(* orchestrator's, whose cap holds for each of its runs: it starts at zero. *)
OvershootIsBounded ==
    /\ \A d \in Days : TotalBy(d, "bridge") < Cap + (Workers + misread) * Dearest
    /\ \A d \in Days : DayTotal(d) <= TotalBy(d, "bridge") + engine.past + engine.spent
    /\ engine.spent <= Cap + Builders * Dearest

(* A day's alert is suppressed only after one was tried: no death leaves    *)
(* the sentinel without a call of sk-alert, and for whoever was refused by  *)
(* the cap there was one.  That the call succeeded is not looked at: after  *)
(* a failed one the sentinel silences the day.                              *)
SuppressedWasTried ==
    /\ \A d \in sentinels : alerts[d] # {}
    /\ \A d \in Dispatch :
         dispatch[d].step = "refused" /\ Capped(dispatch[d].pre) => alerts[dispatch[d].today] # {}

(* A card is settled once, however often it is dispatched; each death or    *)
(* lost journal row between the wallet and the journal, and each look at a  *)
(* journal that could not be read, adds at most one.                        *)
SettledOncePerCard ==
    \A c \in Cards : minted[c] <= 1 + lapses[c]

(* The corrected totals are those of a ledger no suite ever wrote to, less  *)
(* the bridge's own runs of a card that has the fixture's name: their run   *)
(* id is of the bridge's form, so the name alone removes them.              *)
CorrectionDropsTestsOnly ==
    \A d \in Days :
        LET genuine == {i \in RowsOn(d) : costRows[i].by # "suite"}
            lookalike == {i \in genuine : costRows[i].by = "bridge" /\ costRows[i].card = FixtureCard}
        IN  CorrectedOn(d) = Tally(genuine \ lookalike)

(* The daily books of dispatches that race, fail and die: the cap is passed *)
(* by what was under way at most, nobody is held back by it without a call  *)
(* to the operator, a card is settled once but for what was lost, and the   *)
(* correction removes what looks like a test row only.                      *)
CostIsBounded ==
    /\ CostTypeOK /\ OvershootIsBounded /\ SuppressedWasTried
    /\ SettledOncePerCard /\ CorrectionDropsTestsOnly
=============================================================================
