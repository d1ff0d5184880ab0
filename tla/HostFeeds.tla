------------------------------- MODULE HostFeeds -------------------------------
(***************************************************************************)
(* What skcode-hostd does with the events of its sessions: the supervisor   *)
(* that keeps one pump for each running session and announces job states    *)
(* (daemon.py, _supervise_session_activity and _pump_session_activity), and *)
(* the per-session archive a viewer pages backwards through                 *)
(* (session_events.py).  A publish runs on a thread: it is not undone when  *)
(* its pump is cancelled.  Events of a session are numbered from 1 in the   *)
(* order it gives them.  A session the daemon spawned writes them to a file *)
(* (stream.jsonl); of another one the stream has what is on the screen.     *)
(***************************************************************************)
EXTENDS Naturals, Sequences, SequencesExt, FiniteSets, FiniteSetsExt

CONSTANTS
    Feed,            \* sessions of the harness
    Scraped,         \* those without a stream file: capture-pane reads the screen
    Screen,          \* lines a screen has
    Job,             \* scheduled jobs
    Status,          \* states of a job
    MaxYield,        \* bound on the events of a session
    MaxMisses,       \* bound on failed listings, streams and publishes
    MaxChanges,      \* bound on changes of job states
    ArchiveCap,      \* max_bytes of the archive, in rows
    PageLimit,       \* limit of read_page
    MaxAppends,      \* bound on the appends of the archive
    MaxGenerations   \* bound on restarts of the daemon

ASSUME FeedsAssumption ==
    /\ Scraped \subseteq Feed /\ Screen \in Nat \ {0}
    /\ ArchiveCap \in Nat \ {0} /\ PageLimit \in Nat \ {0} /\ MaxYield \in Nat

VARIABLES
    alive,           \* sessions that run
    yielded,         \* [Feed -> Nat]: events in each session's stream
    pump,            \* activity_pumps: [Feed -> "none", "running" or "done"]
    at,              \* [Feed -> Nat]: events the current pump has published
    onRail,          \* [Feed -> SUBSET Nat]: events in the activity rail
    phase,           \* the supervisor: "list", "pumps", "jobs" or "sleep"
    listed,          \* the sessions its listing returned
    batch,           \* the job states it read and has still to look at
    status,          \* [Job -> Status]: the states of the jobs
    signature,       \* job_activity_state
    announced,       \* [Job -> Status or ""]: the last state published for it
    dropped,         \* jobs whose last publish failed
    misses, changes,
    archive,         \* Seq(Nat): the seq of the rows of one session's file
    seq,             \* SessionEventStore._seq of that session
    kept,            \* rows persisted since the walk began and still in the file
    walk,            \* a viewer's walk back: where it is, what it has, whether it ended
    generation

pumps == <<alive, yielded, pump, at, onRail, phase, listed>>
jobs == <<batch, status, signature, announced, dropped, changes>>
store == <<archive, seq, kept, walk, generation>>
feedVars == <<pumps, jobs, misses, store>>

Miss == misses < MaxMisses /\ misses' = misses + 1

-----------------------------------------------------------------------------
(* Sessions and their pumps. *)

Yield(s) ==
    /\ s \in alive /\ yielded[s] < MaxYield
    /\ yielded' = [yielded EXCEPT ![s] = @ + 1]
    /\ UNCHANGED <<alive, pump, at, onRail, phase, listed, jobs, misses, store>>

SessionEnds(s) ==
    /\ s \in alive
    /\ alive' = alive \ {s}
    /\ UNCHANGED <<yielded, pump, at, onRail, phase, listed, jobs, misses, store>>

(* Where a stream that begins now finds its first event: after what has     *)
(* left the screen.                                                         *)
Off(s) == IF s \in Scraped /\ yielded[s] > Screen THEN yielded[s] - Screen ELSE 0

ScrolledOff(s, k) == s \in Scraped /\ k + Screen <= yielded[s]

(* Lines that leave the screen between two looks at it are not seen. *)
PumpSkips(s) ==
    /\ pump[s] = "running" /\ at[s] < Off(s)
    /\ at' = [at EXCEPT ![s] = Off(s)]
    /\ UNCHANGED <<alive, yielded, pump, onRail, phase, listed, jobs, misses, store>>

(* One event of the stream, published (a line that was on the screen at the *)
(* last look, also if it has left it since).                                *)
PumpPublishes(s) ==
    /\ pump[s] = "running" /\ at[s] < yielded[s]
    /\ at' = [at EXCEPT ![s] = @ + 1]
    /\ onRail' = [onRail EXCEPT ![s] = @ \cup {at[s] + 1}]
    /\ UNCHANGED <<alive, yielded, pump, phase, listed, jobs, misses, store>>

(* A publish that fails, or a stream that breaks, ends the pump.  (Mutant:  *)
(* the pump goes on with the next event.)                                   *)
PumpFails_GoesOn(s) ==
    /\ pump[s] = "running" /\ at[s] < yielded[s] /\ Miss
    /\ at' = [at EXCEPT ![s] = @ + 1]
    /\ UNCHANGED <<alive, yielded, pump, onRail, phase, listed, jobs, store>>

PumpFails(s) ==
    /\ pump[s] = "running" /\ Miss
    /\ pump' = [pump EXCEPT ![s] = "done"]
    /\ UNCHANGED <<alive, yielded, at, onRail, phase, listed, jobs, store>>

(* The stream of a session that ended is read to its end. *)
PumpEnds(s) ==
    /\ pump[s] = "running" /\ s \notin alive /\ at[s] = yielded[s]
    /\ pump' = [pump EXCEPT ![s] = "done"]
    /\ UNCHANGED <<alive, yielded, at, onRail, phase, listed, jobs, misses, store>>

-----------------------------------------------------------------------------
(* The supervisor's round: list, pumps, jobs, sleep. *)

(* A listing that fails looks like an empty one. *)
Lists ==
    /\ phase = "list"
    /\ phase' = "pumps" /\ listed' = alive
    /\ UNCHANGED <<alive, yielded, pump, at, onRail, jobs, misses, store>>

ListsNothing ==
    /\ phase = "list" /\ Miss
    /\ phase' = "pumps" /\ listed' = {}
    /\ UNCHANGED <<alive, yielded, pump, at, onRail, jobs, store>>

(* Pumps of sessions that are not listed are cancelled; one that is being   *)
(* published still arrives (late).  A session without a running pump gets   *)
(* one, which reads the file from its start, or the screen as it is.        *)
(* (Mutant: a pump that is done is left alone.)                             *)
StartsPump_Once(s) == s \in listed /\ pump[s] = "none"

StartsPump(s) == s \in listed /\ pump[s] # "running"

PumpsKept(late) ==
    /\ phase = "pumps"
    /\ late \subseteq {s \in Feed \ listed : pump[s] = "running" /\ at[s] < yielded[s]}
    /\ onRail' = [s \in Feed |-> IF s \in late THEN onRail[s] \cup {at[s] + 1} ELSE onRail[s]]
    /\ pump' = [s \in Feed |-> IF s \notin listed THEN "none"
                               ELSE IF StartsPump(s) THEN "running" ELSE pump[s]]
    /\ at' = [s \in Feed |-> IF s \notin listed THEN 0 ELSE IF StartsPump(s) THEN Off(s) ELSE at[s]]
    /\ phase' = "jobs" /\ batch' = [j \in Job |-> status[j]]
    /\ listed' = {}
    /\ UNCHANGED <<alive, yielded, status, signature, announced, dropped, changes, misses, store>>

(* A job whose signature has not changed is passed over; otherwise the new  *)
(* signature is remembered first and then the state is published.           *)
Unannounced(j) == signature[j] # batch[j]

JobLooked(j) ==
    /\ phase = "jobs" /\ j \in DOMAIN batch
    /\ batch' = [k \in DOMAIN batch \ {j} |-> batch[k]]
    /\ IF Unannounced(j)
         THEN /\ signature' = [signature EXCEPT ![j] = batch[j]]
              /\ announced' = [announced EXCEPT ![j] = batch[j]]
              /\ dropped' = dropped \ {j}
         ELSE UNCHANGED <<signature, announced, dropped>>
    /\ UNCHANGED <<pumps, status, changes, misses, store>>

(* A publish that fails ends the round; its signature stays remembered. *)
JobPublishFails(j) ==
    /\ phase = "jobs" /\ j \in DOMAIN batch /\ Unannounced(j) /\ Miss
    /\ signature' = [signature EXCEPT ![j] = batch[j]]
    /\ dropped' = dropped \cup {j}
    /\ phase' = "sleep" /\ batch' = << >>
    /\ UNCHANGED <<alive, yielded, pump, at, onRail, listed, status, announced, changes, store>>

RoundEnds ==
    /\ phase = "jobs" /\ DOMAIN batch = {}
    /\ phase' = "sleep" /\ batch' = << >>
    /\ UNCHANGED <<alive, yielded, pump, at, onRail, listed, status, signature, announced,
                   dropped, changes, misses, store>>

Wakes ==
    /\ phase = "sleep"
    /\ phase' = "list"
    /\ UNCHANGED <<alive, yielded, pump, at, onRail, listed, jobs, misses, store>>

JobChanges(j, v) ==
    /\ changes < MaxChanges /\ v # status[j]
    /\ changes' = changes + 1
    /\ status' = [status EXCEPT ![j] = v]
    /\ UNCHANGED <<pumps, batch, signature, announced, dropped, misses, store>>

-----------------------------------------------------------------------------
(* The archive. *)

LastOf(s, n) == IF Len(s) <= n THEN s ELSE SubSeq(s, Len(s) - n + 1, Len(s))

(* append(): the next number, and a row that may fail to be written; the    *)
(* oldest rows go once the file exceeds its cap.                            *)
Append1(written) ==
    /\ seq < MaxAppends
    /\ seq' = seq + 1
    /\ archive' = IF written THEN LastOf(Append(archive, seq + 1), ArchiveCap) ELSE archive
    /\ kept' = kept \cap Range(archive')
    /\ UNCHANGED <<pumps, jobs, misses, walk, generation>>

(* read_page(): rows before a number, ordered, the last ones of them.       *)
PageOf(rs, before) == {r \in rs : before = 0 \/ r < before}

ReadPage(rs, before) ==
    {r \in PageOf(rs, before) : Cardinality({q \in PageOf(rs, before) : q > r}) < PageLimit}

(* A viewer asks for the newest page and then for the one before the oldest *)
(* row it has, until a page is empty.                                       *)
WalkStarts ==
    /\ walk.state = "idle"
    /\ walk' = [state |-> "walking", before |-> 0, got |-> {}, twice |-> FALSE, in |-> generation]
    /\ kept' = Range(archive)
    /\ UNCHANGED <<pumps, jobs, misses, archive, seq, generation>>

WalkStep ==
    /\ walk.state = "walking"
    /\ LET page == ReadPage(Range(archive), walk.before)
       IN  walk' = [walk EXCEPT !.state = IF page = {} THEN "ended" ELSE "walking",
                                !.before = IF page = {} THEN @ ELSE Min(page),
                                !.got = @ \cup page,
                                !.twice = @ \/ page \cap walk.got # {}]
    /\ UNCHANGED <<pumps, jobs, misses, archive, seq, kept, generation>>

(* A restart numbers the events of every session from 1 again, below the    *)
(* rows the file already has.                                               *)
NewGeneration ==
    /\ generation < MaxGenerations
    /\ generation' = generation + 1
    /\ seq' = 0
    /\ UNCHANGED <<pumps, jobs, misses, archive, kept, walk>>

-----------------------------------------------------------------------------
FeedsInit ==
    /\ alive \in SUBSET Feed /\ yielded = [s \in Feed |-> 0]
    /\ pump = [s \in Feed |-> "none"] /\ at = [s \in Feed |-> 0]
    /\ onRail = [s \in Feed |-> {}]
    /\ phase = "list" /\ listed = {} /\ batch = << >>
    /\ status \in [Job -> Status]
    /\ signature = [j \in Job |-> ""] /\ announced = [j \in Job |-> ""]
    /\ dropped = {} /\ misses = 0 /\ changes = 0
    /\ archive = << >> /\ seq = 0 /\ kept = {} /\ generation = 0
    /\ walk = [state |-> "idle", before |-> 0, got |-> {}, twice |-> FALSE, in |-> 0]

SuperviseNext ==
    \/ Lists \/ ListsNothing \/ RoundEnds \/ Wakes
    \/ \E late \in SUBSET Feed : PumpsKept(late)
    \/ \E j \in Job : JobLooked(j) \/ JobPublishFails(j)

PumpNext(s) == PumpPublishes(s) \/ PumpEnds(s)

ArchiveNext == WalkStarts \/ WalkStep \/ NewGeneration \/ \E w \in BOOLEAN : Append1(w)

FeedsNext ==
    \/ SuperviseNext \/ ArchiveNext
    \/ \E s \in Feed : PumpNext(s) \/ PumpSkips(s) \/ PumpFails(s) \/ Yield(s) \/ SessionEnds(s)
    \/ \E j \in Job, v \in Status : JobChanges(j, v)

FeedsSpec == FeedsInit /\ [][FeedsNext]_feedVars

-----------------------------------------------------------------------------
(* Properties. *)

FeedsTypeOK ==
    /\ alive \subseteq Feed /\ listed \subseteq Feed
    /\ yielded \in [Feed -> 0 .. MaxYield] /\ at \in [Feed -> 0 .. MaxYield]
    /\ pump \in [Feed -> {"none", "running", "done"}]
    /\ phase \in {"list", "pumps", "jobs", "sleep"}
    /\ DOMAIN batch \subseteq Job
    /\ signature \in [Job -> Status \cup {""}] /\ announced \in [Job -> Status \cup {""}]
    /\ Len(archive) <= ArchiveCap

(* The rail holds a prefix of each session's events, whatever publishes     *)
(* failed, listings missed the session and pumps were cancelled and started *)
(* again (an event may be there more than once).  What is read from the     *)
(* screen lacks at most what has left it, which nobody can read again.      *)
RailHasNoHoles ==
    \A s \in Feed : \A i \in onRail[s], k \in 1 .. MaxYield :
        k < i => k \in onRail[s] \/ ScrolledOff(s, k)

(* A session that stays alive has all its events in the rail in the end:    *)
(* a pump that died is started again by a later round.  A line that is only *)
(* on the screen gets there unless it leaves the screen first.              *)
EventsReachRail ==
    \A s \in Feed : \A i \in 1 .. MaxYield :
        yielded[s] >= i ~> (i \in onRail[s] \/ s \notin alive \/ ScrolledOff(s, i))

(* The state of a job is announced unless it changes first or its publish   *)
(* failed (which is never tried again).                                     *)
JobsAnnounced ==
    \A j \in Job : \A v \in Status :
        status[j] = v ~> (announced[j] = v \/ status[j] # v \/ j \in dropped)

(* A finished walk back through the archive has every row that was there    *)
(* when it began and still is, each once, while rows are appended and       *)
(* trimmed; unless the daemon was restarted, which mixes two numberings.    *)
WalkIsComplete ==
    generation = 0 =>
        /\ ~walk.twice
        /\ walk.state = "ended" => kept \subseteq walk.got

(* Neither a pump that died and was started again nor rows that come and go *)
(* during a walk leave a hole in what a reader gets, but for lines that     *)
(* have left the screen.                                                    *)
FeedsAreWhole == FeedsTypeOK /\ RailHasNoHoles /\ WalkIsComplete
=============================================================================
