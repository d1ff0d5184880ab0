------------------------------ MODULE HostSessions ------------------------------
(***************************************************************************)
(* The write surface of skcode-hostd (daemon.py) over the Claude Code       *)
(* harness (harnesses/claude_code.py): dispatch, inject, deny and cancel    *)
(* routes, and the archive other processes call.  A route runs on the event *)
(* loop and is atomic between its awaits; the only await that suspends is   *)
(* the one that reads the request's body.  The tmux server and its windows  *)
(* outlive the daemon; what the harness remembers does not.  A session id   *)
(* is a model value and a request names the session it would create.        *)
(***************************************************************************)
EXTENDS Naturals, FiniteSets

CONSTANTS
    Sid,             \* ids of sessions the daemon may spawn
    Foreign,         \* windows of other programs in the same tmux session
    Caller,          \* bearers of tokens
    Scopes,          \* [Caller -> SUBSET {"stream", "inject", "dispatch"}]
    Cleared,         \* callers the authorization service allows
    AnyWindow,       \* SKCODE_INJECT_ANY_WINDOW
    CloudOptIn,      \* SKCODE_SANDBOX_ALLOW_CLOUD_TOKEN
    MaxCalls,        \* bound on the requests under way
    MaxTurns,        \* bound on the turns of a session
    MaxRestarts,     \* bound on restarts of the daemon
    Nobody

ASSUME HostAssumption ==
    /\ Sid \cap Foreign = {}
    /\ Scopes \in [Caller -> SUBSET {"stream", "inject", "dispatch"}]
    /\ Cleared \subseteq Caller
    /\ AnyWindow \in BOOLEAN /\ CloudOptIn \in BOOLEAN
    /\ MaxTurns \in Nat \ {0} /\ Nobody \notin Sid \cup {"sandbox", "full"}

VARIABLES
    window,          \* tmux: the state of each window's pane
    env,             \* the environment of the pane's current process
    turns,           \* turns started in each window
    inited,          \* sessions whose stream log has an init event
    saved,           \* the transcript on disk: "none", "full", "part" or "empty"
    spawned, denied, resume,   \* the harness: _spawned_sids, _denied_sids, _resume_ctx
    calls,           \* requests past their gate that wait for their body
    brake,           \* dispatch_paused()
    audit,           \* recorded decisions that allow a turn (the others change nothing)
    unlogged,        \* injects whose daemon died before it recorded them
    refusals,        \* sessions some operator was told are refused
    hard,            \* sessions stopped by cancel
    unread,          \* sessions of which tmux once failed to give the scrollback
    archiver,        \* archive() in another process
    restarts

tmux == <<window, env, turns, inited, saved>>
memory == <<spawned, denied, resume, calls>>
record == <<audit, unlogged, refusals, hard, unread>>
hostVars == <<tmux, memory, record, brake, archiver, restarts>>

AllWindows == Sid \cup Foreign
Live == {s \in AllWindows : window[s] \in {"running", "exited"}}

Profile == {"sandbox", "full"}
Request == [kind : {"dispatch"}, by : Caller, sid : Sid, profile : Profile,
            mode : {"direct", "interactive"}]
           \cup [kind : {"inject"}, by : Caller, sid : AllWindows]

HasScope(caller, scope) == scope \in Scopes[caller]

(* _build_env(): the whole environment of a child, by its profile.          *)
(* Gateway models (not distinguished here) take the cloud token away.       *)
BuildEnv(profile) ==
    IF profile = "full" THEN {"HOME", "SKAGENT", "OAUTH"}
    ELSE IF CloudOptIn THEN {"OAUTH"} ELSE {}

Audited(event, caller, sid) ==
    IF caller \in Cleared THEN audit \cup {[event |-> event, by |-> caller, sid |-> sid]}
    ELSE audit

-----------------------------------------------------------------------------
(* Requests. *)

(* Ids are drawn at random: no dispatch has used this one. *)
Fresh(s) ==
    /\ window[s] = "none" /\ s \notin spawned
    /\ \A c \in calls : c.kind = "dispatch" => c.sid # s

(* The gates of dispatch before its body is read: the brake, the scope.     *)
(* Those of inject: the scope, and the floor of the authorization service.  *)
Receive(r) ==
    /\ r \notin calls /\ Cardinality(calls) < MaxCalls
    /\ CASE r.kind = "dispatch" ->
                ~brake /\ HasScope(r.by, "dispatch") /\ Fresh(r.sid)
         [] r.kind = "inject" ->
                HasScope(r.by, "inject") /\ r.by \in Cleared
    /\ calls' = calls \cup {r}
    /\ UNCHANGED <<tmux, spawned, denied, resume, record, brake, archiver, restarts>>

(* How spawn() ends: it refuses (an invalid profile, repository, branch or  *)
(* name, a worktree that cannot be made), it opens the window, or new-window *)
(* fails, which nothing looks at.                                           *)
Outcome == {"refused", "opened", "unopened"}

Opened(r, o) ==
    IF o = "opened" THEN /\ window' = [window EXCEPT ![r.sid] = "running"]
               /\ env' = [env EXCEPT ![r.sid] = BuildEnv(r.profile)]
               /\ turns' = [turns EXCEPT ![r.sid] = 1]
          ELSE UNCHANGED <<window, env, turns>>

(* What inject needs later is kept for interactive sessions only.           *)
Remembered(r) ==
    /\ spawned' = spawned \cup {r.sid}
    /\ resume' = IF r.mode = "interactive"
                   THEN [resume EXCEPT ![r.sid] = r.profile] ELSE resume

(* The rest of dispatch: decide, record the decision, and only then spawn.  *)
Dispatch(r, o) ==
    /\ r \in calls /\ r.kind = "dispatch"
    /\ calls' = calls \ {r}
    /\ audit' = Audited("dispatch", r.by, r.sid)
    /\ IF r.by \in Cleared /\ o # "refused"
         THEN Opened(r, o) /\ Remembered(r)
         ELSE UNCHANGED <<window, env, turns, spawned, resume>>
    /\ UNCHANGED <<inited, saved, denied, brake, unlogged, refusals, hard, unread, archiver, restarts>>

(* The daemon starts again and remembers nothing. *)
Forgotten ==
    /\ restarts < MaxRestarts
    /\ restarts' = restarts + 1
    /\ spawned' = {} /\ denied' = {} /\ calls' = {}
    /\ resume' = [s \in Sid |-> Nobody]

(* The daemon dies after the window was opened: tmux has it, nobody else.   *)
DispatchCut(r) ==
    /\ r \in calls /\ r.kind = "dispatch" /\ r.by \in Cleared
    /\ audit' = Audited("dispatch", r.by, r.sid)
    /\ Opened(r, "opened") /\ Forgotten
    /\ UNCHANGED <<inited, saved, brake, unlogged, refusals, hard, unread, archiver>>

(* _inject_target_allowed() *)
Reaches(s) == AnyWindow \/ s \in spawned

(* inject() of the harness: a new turn in the pane, which kills what runs   *)
(* there.  (Mutant: the refusal is not looked at.)                          *)
Injectable_Denied(s) ==
    /\ Reaches(s) /\ s \in Live
    /\ s \in Sid /\ resume[s] # Nobody
    /\ s \in inited

Injectable(s) ==
    /\ s \notin denied
    /\ Reaches(s) /\ s \in Live
    /\ s \in Sid /\ resume[s] # Nobody
    /\ s \in inited

ResumedEnv(s) == BuildEnv(resume[s])

Resumes(s) ==
    /\ turns[s] < MaxTurns
    /\ turns' = [turns EXCEPT ![s] = @ + 1]
    /\ window' = [window EXCEPT ![s] = "running"]
    /\ env' = [env EXCEPT ![s] = ResumedEnv(s)]

(* The route injects first and records it afterwards; neither suspends. *)
Inject(r) ==
    /\ r \in calls /\ r.kind = "inject"
    /\ calls' = calls \ {r}
    /\ IF Injectable(r.sid) THEN Resumes(r.sid) ELSE UNCHANGED <<turns, window, env>>
    /\ audit' = Audited("inject", r.by, r.sid)
    /\ UNCHANGED <<inited, saved, spawned, denied, resume, brake, unlogged, refusals, hard, unread, archiver, restarts>>

(* The daemon dies between the two: the turn runs and nobody recorded it. *)
InjectCut(r) ==
    /\ r \in calls /\ r.kind = "inject" /\ Injectable(r.sid)
    /\ Resumes(r.sid) /\ Forgotten
    /\ unlogged' = unlogged \cup {[by |-> r.by, sid |-> r.sid]}
    /\ UNCHANGED <<inited, saved, brake, audit, refusals, hard, unread, archiver>>

(* deny(): SIGINT to what runs, and the latch; only in sessions of this     *)
(* daemon that are still there.                                             *)
Deny(caller, s) ==
    /\ HasScope(caller, "inject")
    /\ caller \in Cleared /\ Reaches(s) /\ s \in Live
    /\ denied' = denied \cup {s}
    /\ refusals' = refusals \cup {s}
    /\ window' = [window EXCEPT ![s] = "exited"]
    /\ UNCHANGED <<env, turns, inited, saved, spawned, resume, calls, brake, audit, unlogged, hard, unread,
                   archiver, restarts>>

(* cancel(): the process group and the window, whoever started it. *)
CancelSession(caller, s) ==
    /\ HasScope(caller, "dispatch")
    /\ caller \in Cleared /\ s \in Live
    /\ window' = [window EXCEPT ![s] = "gone"] /\ hard' = hard \cup {s}
    /\ UNCHANGED <<env, turns, inited, saved, memory, brake, audit, unlogged, refusals, unread, archiver, restarts>>

Brake ==
    /\ brake' = ~brake
    /\ UNCHANGED <<tmux, memory, record, archiver, restarts>>

-----------------------------------------------------------------------------
(* archive(), in the process of the operator's command line or of the pool: *)
(* list, capture, persist, kill.  What a tmux command returned is not       *)
(* looked at: a capture that failed is an empty text, which is persisted    *)
(* like another, and a kill that failed is one that was done.  (Mutant: the *)
(* window is killed first.)                                                 *)

NotArchiving == [step |-> "idle", sid |-> Nobody, text |-> "none", turns |-> 0]

(* What the pane has when tmux gives it. *)
Captured(s, answers) == IF s \in Live /\ answers THEN "full" ELSE "empty"

ArchiveListed(s) ==
    /\ archiver.step = "idle" /\ s \in Live /\ s \in Sid
    /\ archiver' = [step |-> "capture", sid |-> s, text |-> "none", turns |-> 0]
    /\ UNCHANGED <<tmux, memory, record, brake, restarts>>

ArchiveCapture_KillsFirst(answers) ==
    LET s == archiver.sid
    IN  /\ archiver.step = "capture"
        /\ archiver' = [archiver EXCEPT !.step = "persist", !.text = Captured(s, answers), !.turns = turns[s]]
        /\ window' = [window EXCEPT ![s] = "gone"]
        /\ unread' = IF answers THEN unread ELSE unread \cup {s}
        /\ UNCHANGED <<env, turns, inited, saved, memory, audit, unlogged, refusals, hard, brake, restarts>>

ArchiveCapture(answers) ==
    LET s == archiver.sid
    IN  /\ archiver.step = "capture"
        /\ archiver' = [archiver EXCEPT !.step = "persist", !.text = Captured(s, answers), !.turns = turns[s]]
        /\ unread' = IF answers THEN unread ELSE unread \cup {s}
        /\ UNCHANGED <<tmux, memory, audit, unlogged, refusals, hard, brake, restarts>>

ArchivePersist ==
    /\ archiver.step = "persist"
    /\ saved' = [saved EXCEPT ![archiver.sid] = archiver.text]
    /\ archiver' = [archiver EXCEPT !.step = "kill"]
    /\ UNCHANGED <<window, env, turns, inited, memory, record, brake, restarts>>

(* What the pane showed after the capture is in no transcript: a turn that  *)
(* still runs, or one that began since.                                     *)
Grew(s) == window[s] = "running" \/ turns[s] # archiver.turns

ArchiveKill(killed) ==
    LET s == archiver.sid
    IN  /\ archiver.step = "kill"
        /\ window' = IF killed THEN [window EXCEPT ![s] = "gone"] ELSE window
        /\ saved' = IF saved[s] = "full" /\ Grew(s) THEN [saved EXCEPT ![s] = "part"] ELSE saved
        /\ archiver' = NotArchiving
        /\ UNCHANGED <<env, turns, inited, memory, record, brake, restarts>>

(* The archiving process dies, or persisting raises. *)
ArchiveFails ==
    /\ archiver.step # "idle"
    /\ archiver' = NotArchiving
    /\ UNCHANGED <<tmux, memory, record, brake, restarts>>

-----------------------------------------------------------------------------
(* The sessions' own progress, and the daemon's restart. *)

TurnInit(s) ==
    /\ window[s] = "running" /\ s \notin inited
    /\ inited' = inited \cup {s}
    /\ UNCHANGED <<window, env, turns, saved, memory, record, brake, archiver, restarts>>

TurnEnds(s) ==
    /\ window[s] = "running"
    /\ window' = [window EXCEPT ![s] = "exited"]
    /\ UNCHANGED <<env, turns, inited, saved, memory, record, brake, archiver, restarts>>

Restart ==
    /\ Forgotten
    /\ UNCHANGED <<tmux, record, brake, archiver>>

HostsInit ==
    /\ window = [s \in AllWindows |-> IF s \in Foreign THEN "running" ELSE "none"]
    /\ env = [s \in AllWindows |-> IF s \in Foreign THEN BuildEnv("full") ELSE {}]
    /\ turns = [s \in AllWindows |-> IF s \in Foreign THEN 1 ELSE 0]
    /\ inited = {} /\ saved = [s \in Sid |-> "none"]
    /\ spawned = {} /\ denied = {} /\ calls = {}
    /\ resume = [s \in Sid |-> Nobody]
    /\ brake = FALSE /\ audit = {} /\ unlogged = {} /\ refusals = {} /\ hard = {} /\ unread = {}
    /\ archiver = NotArchiving
    /\ restarts = 0

HostsNext ==
    \/ \E r \in Request : Receive(r)
    \/ \E r \in calls : Inject(r) \/ InjectCut(r) \/ DispatchCut(r) \/ \E o \in Outcome : Dispatch(r, o)
    \/ \E c \in Caller, s \in AllWindows : Deny(c, s) \/ CancelSession(c, s)
    \/ \E s \in AllWindows : ArchiveListed(s) \/ TurnInit(s) \/ TurnEnds(s)
    \/ \E well \in BOOLEAN : ArchiveCapture(well) \/ ArchiveKill(well)
    \/ ArchivePersist \/ ArchiveFails
    \/ Brake \/ Restart

HostsSpec == HostsInit /\ [][HostsNext]_hostVars

-----------------------------------------------------------------------------
(* Properties. *)

HostsTypeOK ==
    /\ window \in [AllWindows -> {"none", "running", "exited", "gone"}]
    /\ env \in [AllWindows -> SUBSET {"HOME", "SKAGENT", "OAUTH"}]
    /\ turns \in [AllWindows -> 0 .. MaxTurns]
    /\ saved \in [Sid -> {"none", "full", "part", "empty"}]
    /\ spawned \subseteq Sid /\ denied \subseteq AllWindows
    /\ resume \in [Sid -> Profile \cup {Nobody}]
    /\ calls \subseteq Request

(* "A refused session is never resumed again": once an operator was told a  *)
(* session is refused no turn starts in it, neither by an inject that was   *)
(* already past its gate nor by a daemon that restarted and has forgotten   *)
(* the refusal.                                                             *)
RefusedStaysRefused ==
    [][\A s \in refusals : turns'[s] = turns[s]]_hostVars

(* A pane of the daemon exists only after a recorded decision of a caller   *)
(* with the dispatch scope, even if the daemon died while spawning it.  A   *)
(* later turn is recorded after it began: behind it stands an inject of a   *)
(* cleared caller with the scope, recorded unless the daemon died right     *)
(* then.  No session of another program ever gets a turn from here.         *)
TurnsAreAuthorized ==
    /\ \A s \in Sid : turns[s] > 0 =>
          \E a \in audit : a.event = "dispatch" /\ a.sid = s
                           /\ HasScope(a.by, "dispatch")
    /\ \A s \in Sid : turns[s] > 1 =>
          \E a \in {b \in audit : b.event = "inject"} \cup unlogged :
              a.sid = s /\ HasScope(a.by, "inject") /\ a.by \in Cleared
    /\ \A s \in Foreign : turns[s] = 1

(* The transcript is on disk before the window is stopped: a session that   *)
(* is gone and was not cancelled has one, wherever the archiving process    *)
(* died, and it is empty only if tmux failed to give the scrollback.        *)
StoppedWithTranscript ==
    \A s \in Sid : window[s] = "gone" /\ s \notin hard =>
        saved[s] # "none" /\ (saved[s] = "empty" => s \in unread)

(* The sandbox profile is kept over every later turn: a session dispatched  *)
(* as sandbox never runs with the operator's identity, home or cloud token. *)
SandboxStaysSandbox ==
    \A s \in spawned : resume[s] = "sandbox" =>
        env[s] \cap {"HOME", "SKAGENT"} = {} /\ ("OAUTH" \in env[s] => CloudOptIn)

(* The panes, with racing requests, restarts and archivers that fail: every *)
(* turn was authorized, a stopped session has what tmux gave of its text    *)
(* and a sandbox stays one.                                                 *)
SessionsAreGuarded ==
    HostsTypeOK /\ TurnsAreAuthorized /\ StoppedWithTranscript /\ SandboxStaysSandbox
=============================================================================
