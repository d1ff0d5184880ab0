------------------------------ MODULE JouleWallet ------------------------------
(***************************************************************************)
(* settle() and settle_lock() (autocode/joules.py) over one agent's wallet, *)
(* and the correction wallet_correction.py publishes for the fixture mints  *)
(* that test suites left in it.  The wallet itself (skcapstone, external)   *)
(* loads a snapshot of the balance when it is opened; each mint and spend   *)
(* appends a row to the journal and then writes the snapshot.  Settlements  *)
(* run in several processes; a settlement that waits too long for the lock  *)
(* goes on without it.                                                      *)
(***************************************************************************)
EXTENDS Integers, Sequences, RunningTotals

CONSTANTS
    Settler,         \* settlements, each with a process of its own
    Earns,           \* [Settler -> Nat]: joules it mints
    Costs,           \* [Settler -> Nat]: joules its tokens cost
    Namesake,        \* settlements of a card that has the fixture's name
    Hanging,         \* settlements that may stop for good at any point
    FixtureAmount,
    MaxFixtures,     \* bound on the fixture mints
    NoOne

ASSUME WalletAssumption ==
    /\ Earns \in [Settler -> Nat] /\ Costs \in [Settler -> Nat]
    /\ Namesake \subseteq Settler /\ Hanging \subseteq Settler
    /\ FixtureAmount \in Nat \ {0} /\ MaxFixtures \in Nat /\ NoOne \notin Settler

VARIABLES
    snapshot,        \* the balance in the state file
    rowsOf,          \* transactions.jsonl
    holder,          \* who has the lock
    settler,         \* [Settler -> [step, balance]]: balance is the one in its memory
    unlocked,        \* settlements that went on without the lock or were cut off
    fixtures,        \* fixture mints so far
    guarded          \* the guard against tests has landed

walletVars == <<snapshot, rowsOf, holder, settler, unlocked, fixtures, guarded>>

-----------------------------------------------------------------------------
(* settle_lock() *)

Ask(s) ==
    /\ settler[s].step = "idle" /\ (s \in Namesake => guarded)
    /\ settler' = [settler EXCEPT ![s].step = "wait"]
    /\ UNCHANGED <<snapshot, rowsOf, holder, unlocked, fixtures, guarded>>

(* (Mutant: a lock of the wallet object, which nobody else holds.) *)
LockIsFree_Own == TRUE

LockIsFree == holder = NoOne

TakeLock(s) ==
    /\ settler[s].step = "wait" /\ LockIsFree
    /\ holder' = s
    /\ settler' = [settler EXCEPT ![s].step = "open"]
    /\ UNCHANGED <<snapshot, rowsOf, unlocked, fixtures, guarded>>

(* The lock is still held at the deadline, or its file cannot be opened.    *)
(* (Mutant: no timeout.)                                                    *)
TimeOut_Never(s) == FALSE /\ UNCHANGED walletVars

TimeOut(s) ==
    /\ settler[s].step = "wait"
    /\ unlocked' = unlocked \cup {s}
    /\ settler' = [settler EXCEPT ![s].step = "open"]
    /\ UNCHANGED <<snapshot, rowsOf, holder, fixtures, guarded>>

-----------------------------------------------------------------------------
(* settle() *)

OpenWallet(s) ==
    /\ settler[s].step = "open"
    /\ settler' = [settler EXCEPT ![s] = [step |-> "opened", balance |-> snapshot]]
    /\ UNCHANGED <<snapshot, rowsOf, holder, unlocked, fixtures, guarded>>

Row(s, kind, amount, want, balance) ==
    [kind |-> kind, amount |-> amount, want |-> want, balance |-> balance,
     marked |-> kind = "mint" /\ s \in Namesake /\ amount = FixtureAmount,
     late |-> guarded, fixture |-> FALSE]

(* A mint or a spend: the row, then the snapshot. *)
Post(s, from, to, kind, amount, want, balance) ==
    /\ settler[s].step = from
    /\ rowsOf' = IF amount = 0 THEN rowsOf ELSE Append(rowsOf, Row(s, kind, amount, want, balance))
    /\ settler' = [settler EXCEPT ![s] = [step |-> to, balance |-> balance]]
    /\ UNCHANGED <<snapshot, holder, unlocked, fixtures, guarded>>

Mint(s) == Post(s, "opened", "minted", "mint", Earns[s], Earns[s], settler[s].balance + Earns[s])

(* The debit is capped at the balance. *)
Actual(s) == IF Costs[s] < settler[s].balance THEN Costs[s] ELSE settler[s].balance

Spend(s) == Post(s, "saved", "spent", "spend", Actual(s), Costs[s], settler[s].balance - Actual(s))

Save(s) ==
    /\ settler[s].step \in {"minted", "spent"}
    /\ snapshot' = settler[s].balance
    /\ settler' = [settler EXCEPT ![s].step = IF @ = "minted" THEN "saved" ELSE "closing"]
    /\ UNCHANGED <<rowsOf, holder, unlocked, fixtures, guarded>>

Release(s) == holder' = IF holder = s THEN NoOne ELSE holder

Close(s) ==
    /\ settler[s].step = "closing" /\ Release(s)
    /\ settler' = [settler EXCEPT ![s].step = "recorded"]
    /\ UNCHANGED <<snapshot, rowsOf, unlocked, fixtures, guarded>>

(* The wallet raises and settle() swallows it, or the process dies: either  *)
(* way the lock is free again.                                              *)
CutShort(s) ==
    /\ settler[s].step \in {"open", "opened", "minted", "saved", "spent"} /\ Release(s)
    /\ unlocked' = unlocked \cup {s}
    /\ settler' = [settler EXCEPT ![s].step = "failed"]
    /\ UNCHANGED <<snapshot, rowsOf, fixtures, guarded>>

-----------------------------------------------------------------------------
(* A suite settles its fixture card into this wallet until                  *)
(* assert_not_production_wallet_in_test() is there to refuse it.            *)
FixtureMint ==
    /\ ~guarded /\ fixtures < MaxFixtures /\ holder = NoOne
    /\ fixtures' = fixtures + 1
    /\ snapshot' = snapshot + FixtureAmount
    /\ rowsOf' = Append(rowsOf, [kind |-> "mint", amount |-> FixtureAmount, want |-> FixtureAmount,
                                 balance |-> snapshot + FixtureAmount, marked |-> TRUE,
                                 late |-> FALSE, fixture |-> TRUE])
    /\ UNCHANGED <<holder, settler, unlocked, guarded>>

GuardLands ==
    /\ ~guarded /\ guarded' = TRUE
    /\ UNCHANGED <<snapshot, rowsOf, holder, settler, unlocked, fixtures>>

-----------------------------------------------------------------------------
(* correct_ledger() of wallet_correction.py, over the rows as they are. *)

IsFabricated(r) == r.kind = "mint" /\ r.marked /\ ~r.late

(* What the fabricated mints up to each row add up to. *)
Cumulative ==
    Totals([i \in 1 .. Len(rowsOf) |-> IF IsFabricated(rowsOf[i]) THEN rowsOf[i].amount ELSE 0])

Recorded(i) == IF i = 0 THEN 0 ELSE rowsOf[i].balance

Corrected(i) == Recorded(i) - Cumulative[i]

Delta(r) == IF r.kind = "mint" THEN r.amount ELSE 0 - r.amount

Anomalies == {i \in DOMAIN rowsOf : rowsOf[i].balance # Recorded(i - 1) + Delta(rowsOf[i])}

SpendsOnFixtures == {i \in DOMAIN rowsOf : rowsOf[i].kind # "mint" /\ Corrected(i) < 0}

-----------------------------------------------------------------------------
WalletInit ==
    /\ snapshot = 0 /\ rowsOf = <<>> /\ holder = NoOne
    /\ settler = [s \in Settler |-> [step |-> "idle", balance |-> 0]]
    /\ unlocked = {} /\ fixtures = 0 /\ guarded = FALSE

SettlerNext(s) ==
    Ask(s) \/ TakeLock(s) \/ TimeOut(s) \/ OpenWallet(s) \/ Mint(s) \/ Spend(s) \/ Save(s) \/ Close(s)

WalletNext ==
    \/ \E s \in Settler : SettlerNext(s) \/ CutShort(s)
    \/ FixtureMint \/ GuardLands

WalletSpec == WalletInit /\ [][WalletNext]_walletVars

-----------------------------------------------------------------------------
(* Properties. *)

(* What a row leaves of a balance in a wallet that never gets the fixture   *)
(* mints; its spends are capped as settle() caps them.                      *)
HonestAfter(balance, r) ==
    IF r.fixture THEN balance
    ELSE IF r.kind = "mint" THEN balance + r.amount
    ELSE IF r.want < balance THEN balance - r.want ELSE 0

Inside(s) == settler[s].step \in {"open", "opened", "minted", "saved", "spent"}

WalletTypeOK ==
    /\ snapshot \in Nat /\ fixtures \in 0 .. MaxFixtures
    /\ holder \in Settler \cup {NoOne}
    /\ \A s \in Settler : settler[s].balance \in Nat
    /\ \A i \in DOMAIN rowsOf : rowsOf[i].amount \in Nat \ {0}

(* The lock "protects the read": as long as nobody timed out or was cut     *)
(* off, concurrent settlements lose no update.  Each row of the journal goes *)
(* on from the balance of the row before it, whoever wrote that, and the    *)
(* snapshot is what they add up to whenever no settlement is under way.     *)
NoUpdateIsLost ==
    unlocked = {} =>
        /\ Anomalies = {}
        /\ (\A s \in Settler : ~Inside(s)) => snapshot = Recorded(Len(rowsOf))

(* "corrected_balance is what balance_after would have been had the fixture *)
(* mints never been written": row by row the corrected balances are those   *)
(* of a wallet without them, unless the correction counts spends that       *)
(* needed the fixtures' joules.                                             *)
CorrectionIsExact ==
    unlocked = {} /\ SpendsOnFixtures = {} =>
        \A i \in DOMAIN rowsOf : Corrected(i) = HonestAfter(Corrected(i - 1), rowsOf[i])

(* "Waiting forever would hang a build behind a stale lock": a settlement   *)
(* ends even when the holder of the lock never does.                        *)
SettlementsEnd ==
    \A s \in Settler \ Hanging :
        settler[s].step = "wait" ~> settler[s].step \in {"recorded", "failed"}

(* The wallet's three accounts agree: balance, journal and the published    *)
(* correction, with concurrent settlements as long as the lock held.        *)
WalletIsExact == WalletTypeOK /\ NoUpdateIsLost /\ CorrectionIsExact
=============================================================================
