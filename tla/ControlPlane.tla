----------------------------- MODULE ControlPlane -----------------------------
(***************************************************************************)
(* The Atlas control plane: the append-only command/receipt mailbox         *)
(* (control.py, ControlJournal), the skcode-hostd route that submits        *)
(* commands and applies the session ones (daemon.py, atlas_control), and    *)
(* the swarm owners that poll, claim and apply the others                   *)
(* (arena/atlas_control.py, SwarmAtlasControlOwner).                        *)
(*                                                                         *)
(* Every journal operation holds the exclusive file lock, so it is one      *)
(* step; the awaits of the route and the gaps between the journal calls of  *)
(* an owner are where other processes run.  A crash may cut an operation    *)
(* between, or within, its appends.                                         *)
(***************************************************************************)
EXTENDS Integers, Sequences

CONSTANTS
    Request,       \* HTTP requests to POST /api/v1/control
    Owner,         \* swarm control owners, one polling thread each
    Key,           \* an authenticated actor with its idempotency key
    Content,       \* target, action, expected state and payload digest
    Kind,          \* [Content -> {"session", "run", "agent", "job"}]
    Guarded,       \* contents that name an expected_state
    Supported,     \* contents whose action the target implements
    Owns,          \* [Owner -> SUBSET Content], the targets of a swarm
    HasHandler,    \* create_app was given a control_handler
    Crashes,       \* processes may crash and appends may fail
    Ttl,           \* ttl_s of every command
    MaxCommands,   \* bound: command rows in the journal
    MaxTime,       \* bound: the clock
    None

\* No target is served both by a control_handler and by a polling owner.  (No
\* composition in the repository passes a handler to hostd.)
HandlerExclusive == HasHandler => \A o \in Owner : Owns[o] = {}

ASSUME PlaneAssumption ==
    /\ HandlerExclusive
    /\ Kind \in [Content -> {"session", "run", "agent", "job"}]
    /\ Guarded \subseteq Content /\ Supported \subseteq Content
    /\ Owns \in [Owner -> SUBSET Content]
    /\ HasHandler \in BOOLEAN /\ Crashes \in BOOLEAN
    /\ Ttl \in Nat \ {0} /\ MaxCommands \in Nat /\ MaxTime \in Nat
    /\ None \notin 1..MaxCommands

VARIABLES
    journal,   \* the committed rows: each command with its latest receipt
    tail,      \* the end of the file: complete, an unfinished row, a glued row
    req,       \* where each request stands in the route
    own,       \* where each owner stands in process_once
    acted,     \* how many times each command's target was acted upon
    now

vars == <<journal, tail, req, own, acted, now>>

Id == 1..MaxCommands
Terminal == {"applied", "rejected", "unsupported", "conflict", "expired"}
Status == {"none", "queued", "applying"} \cup Terminal

\* A command (ControlCommand) with the status of its latest ControlReceipt.
Row == [key : Key, content : Content, expires : Nat, latest : Status]

Ids == 1..Len(journal)
Latest(c) == journal[c].latest

InitialRequest == [pc |-> "idle", cmd |-> None, status |-> "none"]
InitialOwner ==
    [pc |-> "run", todo |-> {}, cmd |-> None, status |-> "none",
     phase |-> "serving", owed |-> {}]

Init ==
    /\ journal = <<>>
    /\ tail = "complete"
    /\ req = [r \in Request |-> InitialRequest]
    /\ own = [o \in Owner |-> InitialOwner]
    /\ acted = [c \in Id |-> 0]
    /\ now = 0

-----------------------------------------------------------------------------
(* The journal. *)

\* Rows end where the last newline is.  A writer first cuts an unfinished row
\* off; appending to one instead would glue two rows into a corrupt one.
\* (Mutant: the unfinished row stays.)
RecoverTail_Never == tail

RecoverTail == IF tail = "unfinished" THEN "complete" ELSE tail
Appended(t) == IF t = "complete" THEN "complete" ELSE "corrupt"

\* The file parses: every complete row carries its digest.  Otherwise every
\* operation raises and nothing below is enabled.
Parses == RecoverTail # "corrupt"

SetReceipt(c, s) == [journal EXCEPT ![c].latest = s]

\* Mutant: a later terminal receipt replaces an earlier one.
MayFollow_LastWins(latest, s) ==
    \/ latest \in {"queued"} \cup Terminal /\ s \in {"queued", "applying"} \cup Terminal
    \/ latest = "applying" /\ s \in {"applying"} \cup Terminal

\* The receipts that may follow the latest one.
MayFollow(latest, s) ==
    \/ latest = "queued" /\ s \in {"queued", "applying"} \cup Terminal
    \/ latest = "applying" /\ s \in {"applying"} \cup Terminal

\* record: append the receipt; a repeated terminal receipt appends nothing.
Recorded(c, s) ==
    /\ Parses
    /\ \/ /\ MayFollow(Latest(c), s)
          /\ journal' = SetReceipt(c, s)
          /\ tail' = Appended(RecoverTail)
       \/ /\ Latest(c) \in Terminal /\ Latest(c) = s
          /\ tail' = RecoverTail
          /\ UNCHANGED journal

\* record raises: no receipt to follow, or an illegal transition.
RecordRaises(c, s) ==
    /\ Parses
    /\ ~MayFollow(Latest(c), s)
    /\ ~(Latest(c) \in Terminal /\ Latest(c) = s)
    /\ tail' = RecoverTail
    /\ UNCHANGED journal

Command(k, x, latest) ==
    [key |-> k, content |-> x, expires |-> now + Ttl, latest |-> latest]

Matching(k) == {c \in Ids : journal[c].key = k}

\* Commands whose _latest raises because no receipt was ever committed.
Orphans == {c \in Ids : Latest(c) = "none"}

\* pending reads the commands in file order and stops at the first orphan.
Scanned == {c \in Ids : \A d \in Orphans : c < d}
\* (Mutant: expiry is not recorded.)
Overdue_Unrecorded == {}

Overdue == {c \in Scanned : Latest(c) = "queued" /\ journal[c].expires <= now}
Pending == {c \in Ids : Latest(c) = "queued" /\ journal[c].expires > now}

Expired(E) ==
    [c \in Ids |-> IF c \in E THEN [journal[c] EXCEPT !.latest = "expired"]
                   ELSE journal[c]]

-----------------------------------------------------------------------------
(* The hostd route.  Authentication, scope and policy checks come first and *)
(* change nothing here; a request reaches the journal once they allow it.   *)

At(r, pc) == req[r].pc = pc
Goes(r, pc, c, s) == req' = [req EXCEPT ![r] = [pc |-> pc, cmd |-> c, status |-> s]]

\* A session command whose expected state, if any, was observed.
ActionStatus(x) == IF x \in Supported THEN "applying" ELSE "unsupported"

\* Where the route goes with a command it has just submitted.
FirstStep(r, c, x) ==
    CASE Kind[x] # "session" /\ HasHandler -> Goes(r, "record", c, "applying")
      [] Kind[x] # "session" /\ ~HasHandler -> Goes(r, "record", c, "queued")
      [] Kind[x] = "session" /\ x \in Guarded -> Goes(r, "check", c, "none")
      [] OTHER -> Goes(r, "record", c, ActionStatus(x))

\* submit commits the command and its queued receipt.
SubmitFresh(r, k, x) ==
    /\ At(r, "idle")
    /\ Parses
    /\ Matching(k) = {}
    /\ Len(journal) < MaxCommands
    /\ now + Ttl <= MaxTime
    /\ journal' = Append(journal, Command(k, x, "queued"))
    /\ tail' = Appended(Appended(RecoverTail))
    /\ FirstStep(r, Len(journal) + 1, x)
    /\ UNCHANGED <<own, acted, now>>

\* Mutant: a replay goes on like a first submission.
SubmitReplayed_GoesOn(r, k, x) ==
    /\ At(r, "idle")
    /\ Parses
    /\ \E c \in Matching(k) :
        IF journal[c].content = x /\ Latest(c) # "none"
        THEN FirstStep(r, c, x) ELSE Goes(r, "answered", c, "none")
    /\ tail' = RecoverTail
    /\ UNCHANGED <<journal, own, acted, now>>

\* A replay of a known key: the latest receipt, a 409, or a corruption error.
SubmitReplayed(r, k, x) ==
    /\ At(r, "idle")
    /\ Parses
    /\ \E c \in Matching(k) :
        Goes(r, IF journal[c].content = x /\ Latest(c) = "none"
                THEN "failed" ELSE "answered", c, "none")
    /\ tail' = RecoverTail
    /\ UNCHANGED <<journal, own, acted, now>>

\* The append of one of submit's two rows fails: nothing, an unfinished
\* command row, or the command row with nothing or little of its receipt.
SubmitFails(r, k, x) ==
    /\ Crashes
    /\ At(r, "idle")
    /\ Parses
    /\ Matching(k) = {}
    /\ Len(journal) < MaxCommands
    /\ now + Ttl <= MaxTime
    /\ \/ UNCHANGED journal
       \/ journal' = Append(journal, Command(k, x, "none"))
    /\ tail' \in {RecoverTail, "unfinished"}
    /\ Goes(r, "failed", None, "none")
    /\ UNCHANGED <<own, acted, now>>

\* The observed session state decides between conflict and actuation.
CheckSession(r) ==
    /\ At(r, "check")
    /\ \E s \in {"conflict", ActionStatus(journal[req[r].cmd].content)} :
        Goes(r, "record", req[r].cmd, s)
    /\ UNCHANGED <<journal, tail, own, acted, now>>

RouteRecords(r) ==
    /\ At(r, "record")
    /\ Recorded(req[r].cmd, req[r].status)
    /\ Goes(r, IF req[r].status = "applying" THEN "act" ELSE "answered",
            req[r].cmd, "none")
    /\ UNCHANGED <<own, acted, now>>

\* The conflict that record raises is not caught: the request fails.
RouteRecordRaises(r) ==
    /\ At(r, "record")
    /\ RecordRaises(req[r].cmd, req[r].status)
    /\ Goes(r, "failed", req[r].cmd, "none")
    /\ UNCHANGED <<own, acted, now>>

\* How an actuation ends: the receipt and whether the target was acted upon.
\* Only a target that was acted upon is reported applied; a rejection may
\* come before or after the action (an exception, an unproven stop).
\* (Mutant: the seam's answer is not looked at.)
Outcomes_Unread == {[status |-> "applied", acts |-> 1],
                    [status |-> "applied", acts |-> 0],
                    [status |-> "rejected", acts |-> 0]}

Outcomes == {[status |-> "applied", acts |-> 1],
             [status |-> "rejected", acts |-> 1],
             [status |-> "rejected", acts |-> 0]}
Declined == {[status |-> s, acts |-> 0] :
                s \in Terminal \ {"applied", "rejected"}}

\* The harness seam for a session, the composed control_handler otherwise.
RouteActs(r) ==
    /\ At(r, "act")
    /\ LET c == req[r].cmd
           handled == IF Kind[journal[c].content] = "session" THEN {} ELSE Declined
       IN  \E w \in Outcomes \cup handled :
             /\ acted' = [acted EXCEPT ![c] = @ + w.acts]
             /\ Goes(r, "record", c, w.status)
    /\ UNCHANGED <<journal, tail, own, now>>

InFlight(r) == req[r].pc \in {"check", "record", "act"}

\* hostd dies: its requests are lost, the journal keeps what was committed
\* and perhaps an unfinished row of a request that was recording.
HostdCrash ==
    /\ Crashes
    /\ \E r \in Request : InFlight(r)
    /\ req' = [r \in Request |->
                 IF InFlight(r) THEN [req[r] EXCEPT !.pc = "lost"] ELSE req[r]]
    /\ tail' \in {tail} \cup (IF Parses /\ \E r \in Request : At(r, "record")
                              THEN {"unfinished"} ELSE {})
    /\ UNCHANGED <<journal, own, acted, now>>

-----------------------------------------------------------------------------
(* The swarm owners: process_once polls run, then agent commands, then      *)
(* claims and applies each one it owns.                                     *)

OwnedPending(o, kind) ==
    {c \in Pending : Kind[journal[c].content] = kind /\ journal[c].content \in Owns[o]}

PollNext(kind) == IF kind = "run" THEN "agent" ELSE "claim"

\* pending: overdue commands get an expired receipt, whoever owns them.
Poll(o, kind) ==
    /\ own[o].pc = kind
    /\ Parses
    /\ Orphans = {}
    /\ journal' = Expired(Overdue)
    /\ tail' = IF Overdue = {} THEN RecoverTail ELSE Appended(RecoverTail)
    /\ own' = [own EXCEPT ![o].pc = PollNext(kind),
                          ![o].todo = @ \cup OwnedPending(o, kind)]
    /\ UNCHANGED <<req, acted, now>>

\* An orphan raises in pending, after the receipts of the overdue commands
\* before it, and ends the owner's thread.
PollRaises(o, kind) ==
    /\ own[o].pc = kind
    /\ Parses
    /\ Orphans # {}
    /\ journal' = Expired(Overdue)
    /\ tail' = IF Overdue = {} THEN RecoverTail ELSE Appended(RecoverTail)
    /\ own' = [own EXCEPT ![o].pc = "dead"]
    /\ UNCHANGED <<req, acted, now>>

\* Mutant: claim trusts the poll's expiry check.
Claim_NoExpiry(o) ==
    /\ own[o].pc = "claim"
    /\ Parses
    /\ \E c \in own[o].todo :
        LET live == Latest(c) = "queued" IN
        /\ journal' = IF live THEN SetReceipt(c, "applying") ELSE journal
        /\ tail' = IF live THEN Appended(RecoverTail) ELSE RecoverTail
        /\ own' = [own EXCEPT ![o].todo = @ \ {c},
                              ![o].pc = IF live THEN "apply" ELSE "claim",
                              ![o].cmd = IF live THEN c ELSE None]
    /\ UNCHANGED <<req, acted, now>>

\* claim: a command that is still queued is taken, or expires.
Claim(o) ==
    /\ own[o].pc = "claim"
    /\ Parses
    /\ \E c \in own[o].todo :
        LET live == Latest(c) = "queued" /\ journal[c].expires > now IN
        /\ Latest(c) # "none"
        /\ journal' = CASE live -> SetReceipt(c, "applying")
                        [] ~live /\ Latest(c) = "queued" -> SetReceipt(c, "expired")
                        [] OTHER -> journal
        /\ tail' = IF Latest(c) = "queued" THEN Appended(RecoverTail) ELSE RecoverTail
        /\ own' = [own EXCEPT ![o].todo = @ \ {c},
                              ![o].pc = IF live THEN "apply" ELSE "claim",
                              ![o].cmd = IF live THEN c ELSE None]
    /\ UNCHANGED <<req, acted, now>>

\* _apply: an unexpected state is a conflict, anything but cancel is
\* unsupported, a cancel ends like any other actuation.
OwnerOutcomes(x) ==
    (IF x \in Guarded THEN {[status |-> "conflict", acts |-> 0]} ELSE {})
    \cup (IF x \in Supported THEN Outcomes
          ELSE {[status |-> "unsupported", acts |-> 0]})

Apply(o) ==
    /\ own[o].pc = "apply"
    /\ \E w \in OwnerOutcomes(journal[own[o].cmd].content) :
        /\ acted' = [acted EXCEPT ![own[o].cmd] = @ + w.acts]
        /\ own' = [own EXCEPT ![o].pc = "record", ![o].status = w.status]
    /\ UNCHANGED <<journal, tail, req, now>>

\* A claimed command is applying, and only its claimant goes on from there
\* (HandlerExclusive): the record does not raise.
OwnerRecords(o) ==
    /\ own[o].pc = "record"
    /\ Recorded(own[o].cmd, own[o].status)
    /\ own' = [own EXCEPT ![o].pc = "claim", ![o].cmd = None, ![o].status = "none"]
    /\ UNCHANGED <<req, acted, now>>

\* Mutant: the thread ends as soon as it sees the stop event.
EndRound_NoSweep(o) ==
    /\ own[o].pc = "claim" /\ own[o].todo = {}
    /\ own' = [own EXCEPT ![o].pc = IF own[o].phase = "serving" THEN "run" ELSE "retired"]
    /\ UNCHANGED <<journal, tail, req, acted, now>>

\* End of process_once: poll again, make the last sweep, or end the thread.
EndRound(o) ==
    /\ own[o].pc = "claim" /\ own[o].todo = {}
    /\ own' = CASE own[o].phase = "serving" -> [own EXCEPT ![o].pc = "run"]
                [] own[o].phase = "stopping" ->
                     [own EXCEPT ![o].pc = "run", ![o].phase = "last"]
                [] OTHER -> [own EXCEPT ![o].pc = "retired"]
    /\ UNCHANGED <<journal, tail, req, acted, now>>

Alive(o) == own[o].pc \notin {"dead", "retired"}

\* stop sets the event; what is queued for this owner by then is owed a round.
Stop(o) ==
    /\ Alive(o) /\ own[o].phase = "serving"
    /\ own' = [own EXCEPT ![o].phase = "stopping",
                 ![o].owed = {c \in Ids : /\ Latest(c) = "queued"
                                          /\ journal[c].content \in Owns[o]
                                          /\ Kind[journal[c].content] \in {"run", "agent"}}]
    /\ UNCHANGED <<journal, tail, req, acted, now>>

\* The owner's process dies, perhaps within an append, and is started again.
OwnerCrash(o) ==
    /\ Crashes
    /\ Alive(o)
    /\ own' = [own EXCEPT ![o] = InitialOwner]
    /\ \/ UNCHANGED <<journal, tail>>
       \/ /\ Parses /\ own[o].pc \in {"claim", "record"}
          /\ tail' = "unfinished"
          /\ UNCHANGED journal
       \/ /\ Parses /\ own[o].pc \in {"run", "agent"}
          /\ \E E \in SUBSET Overdue :
               /\ \A c \in E, d \in Overdue : d < c => d \in E
               /\ journal' = Expired(E)
               /\ tail' \in {RecoverTail} \cup (IF E = Overdue THEN {} ELSE {"unfinished"})
    /\ UNCHANGED <<req, acted, now>>

Tick ==
    /\ now < MaxTime
    /\ now' = now + 1
    /\ UNCHANGED <<journal, tail, req, own, acted>>

-----------------------------------------------------------------------------

Submit(r, k, x) ==
    \/ SubmitFresh(r, k, x)
    \/ SubmitReplayed(r, k, x)
    \/ SubmitFails(r, k, x)

RouteStep(r) ==
    \/ CheckSession(r)
    \/ RouteRecords(r)
    \/ RouteRecordRaises(r)
    \/ RouteActs(r)

OwnerStep(o) ==
    \/ \E kind \in {"run", "agent"} : Poll(o, kind) \/ PollRaises(o, kind)
    \/ Claim(o)
    \/ Apply(o)
    \/ OwnerRecords(o)
    \/ EndRound(o)

Next ==
    \/ \E r \in Request : \E k \in Key, x \in Content : Submit(r, k, x)
    \/ \E r \in Request : RouteStep(r)
    \/ \E o \in Owner : OwnerStep(o) \/ Stop(o) \/ OwnerCrash(o)
    \/ HostdCrash
    \/ Tick

Spec == Init /\ [][Next]_vars

\* The event loop runs every request on, an owner thread polls until it is
\* stopped, and time passes; nobody has to submit, stop or crash.
Fairness ==
    /\ \A r \in Request : WF_vars(RouteStep(r))
    /\ \A o \in Owner : WF_vars(OwnerStep(o))
    /\ WF_vars(Tick)

FairSpec == Spec /\ Fairness

-----------------------------------------------------------------------------
(* What the control plane is for. *)

RequestState ==
    [pc : {"idle", "check", "record", "act", "answered", "failed", "lost"},
     cmd : Ids \cup {None}, status : Status]

OwnerState ==
    [pc : {"run", "agent", "claim", "apply", "record", "dead", "retired"},
     todo : SUBSET Ids, cmd : Ids \cup {None}, status : Status,
     phase : {"serving", "stopping", "last"}, owed : SUBSET Ids]

\* Every variable keeps its shape, and every process names a journalled
\* command (the records of control.py, the route's and the owner's locals).
TypeOK ==
    /\ journal \in Seq(Row)
    /\ Len(journal) <= MaxCommands
    /\ tail \in {"complete", "unfinished", "corrupt"}
    /\ req \in [Request -> RequestState]
    /\ own \in [Owner -> OwnerState]
    /\ acted \in [Id -> Nat]
    /\ now \in 0..MaxTime

\* A command is acted upon at most once, whatever requests are replayed,
\* owners poll and processes crash ("Replaying an applied command returns its
\* receipt and cannot actuate it twice", docs/architecture/
\* live-agent-observation-and-control.md).
ActuatedAtMostOnce == \A c \in Id : acted[c] <= 1

\* "A queued command is not proof that an action happened: only an applied
\* receipt says so" (control.py): an applied command was acted upon, and one
\* that is queued, expired, unsupported or in conflict was not.
ReceiptsAreHonest ==
    \A c \in Ids :
        /\ Latest(c) = "applied" => acted[c] > 0
        /\ Latest(c) \notin {"applying", "applied", "rejected"} => acted[c] = 0

\* An idempotency key names one command for good, across replays and crashes
\* (ControlJournal.submit).
KeysUnique ==
    \A c, d \in Ids : journal[c].key = journal[d].key => c = d

\* No append of any process glues two rows into a corrupt one
\* (_recover_tail_unlocked before every append).
RowsStayWhole == tail # "corrupt"

\* "A target owner must revalidate current state and command expiry": an
\* owner never takes a command past its expiry, whenever it had listed it.
TakenBeforeExpiry ==
    [][\A o \in Owner :
        own[o].pc # "apply" /\ own'[o].pc = "apply"
            => now < journal[own'[o].cmd].expires]_vars

\* An owner that stops has settled every command queued for it when stop was
\* called (_serve's last process_once).
FinalSweep ==
    \A o \in Owner : own[o].pc = "retired" =>
        \A c \in own[o].owed : Latest(c) # "queued"

\* Every command ends with a terminal receipt as long as one owner polls: the
\* route or its owner settles it, or it expires at a poll.
EveryCommandSettles ==
    \A c \in Id :
        (c \in Ids) ~> \/ c \in Ids /\ Latest(c) \in Terminal
                      \/ \A o \in Owner : ~Alive(o)

\* The journal, the route and the owners implement the abstract mailbox.
Mailbox == INSTANCE CommandMailbox
             WITH status <- [c \in Id |-> IF c \in Ids THEN Latest(c) ELSE "none"]

MailboxSpec == Mailbox!Spec

\* The journal file, whoever crashed inside or between two appends: one command
\* for a key, and no row that continues another one's unfinished row.
JournalIsSound == KeysUnique /\ RowsStayWhole
=============================================================================
