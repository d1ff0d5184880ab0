------------------------------ MODULE Host_proofs ------------------------------
(***************************************************************************)
(* What skcode-hostd keeps to, for every number of sessions, windows,       *)
(* callers, requests, turns and restarts (HostSessions), and of events,     *)
(* jobs, failures, archived rows and pages (HostFeeds), of nodes and reads  *)
(* of the activity rail, and of panes, bands and calls of the worker pool.  *)
(***************************************************************************)
EXTENDS HostSessions, HostFeeds, ActivityRail, WorkerPool, TLAPS, FiniteSetTheorems,
        WellFoundedInduction, SequenceTheorems

-----------------------------------------------------------------------------
(* The write surface. *)

\* The archiver holds a session of ours from the moment it listed it.
ArchiverOK ==
    /\ archiver \in [step : {"idle", "capture", "persist", "kill"}, sid : Sid \cup {Nobody},
                     text : {"none", "full", "empty"}, turns : 0 .. MaxTurns]
    /\ archiver.step # "idle" => archiver.sid \in Sid

\* A request under way passed its gate, and the id a dispatch would use is still unused.
CallsAreDue ==
    /\ \A c \in calls : c.kind = "dispatch" =>
         HasScope(c.by, "dispatch") /\ window[c.sid] = "none" /\ c.sid \notin spawned
    /\ \A c \in calls : c.kind = "inject" => HasScope(c.by, "inject") /\ c.by \in Cleared
    /\ \A c, d \in calls : c.kind = "dispatch" /\ d.kind = "dispatch" /\ c.sid = d.sid => c = d

\* A window that was never opened had no turn and no process, and the other way round.
UnopenedIsBare ==
    \A s \in Sid : /\ window[s] = "none" => turns[s] = 0 /\ env[s] = {}
                   /\ window[s] # "none" => turns[s] > 0

\* The daemon knows how to resume what it spawned since it started, nothing else.
ResumableIsSpawned == \A s \in Sid : resume[s] # Nobody => s \in spawned

\* A refused session has a window, and is latched or forgotten altogether.
RefusedIsLatched ==
    \A s \in refusals : /\ s \in AllWindows /\ window[s] # "none"
                        /\ s \in denied \/ s \notin Sid \/ resume[s] = Nobody

\* What is being archived is still there, or was cancelled meanwhile; the
\* text it has in hand is blank only if it was cancelled or tmux failed.
ArchivedIsThere ==
    archiver.step # "idle" =>
        /\ window[archiver.sid] # "none"
        /\ window[archiver.sid] = "gone" => archiver.sid \in hard
        /\ archiver.step \in {"persist", "kill"} =>
              /\ archiver.text # "none"
              /\ archiver.text = "empty" => archiver.sid \in hard \cup unread
        /\ archiver.step = "kill" => saved[archiver.sid] = archiver.text

SessionInv ==
    /\ HostsTypeOK /\ ArchiverOK /\ CallsAreDue /\ UnopenedIsBare /\ ResumableIsSpawned
    /\ RefusedIsLatched /\ ArchivedIsThere
    /\ TurnsAreAuthorized /\ StoppedWithTranscript /\ SandboxStaysSandbox
-----------------------------------------------------------------------------
\* A daemon that has just started beside the windows of other programs.
LEMMA InitIsGood == HostsInit => SessionInv
<1> SUFFICES ASSUME HostsInit PROVE SessionInv
  OBVIOUS
<1>1. HostsTypeOK /\ ArchiverOK
  BY HostAssumption DEF HostsInit, HostsTypeOK, ArchiverOK, NotArchiving, AllWindows, BuildEnv, Request, Profile
<1>2. CallsAreDue /\ UnopenedIsBare /\ ResumableIsSpawned /\ RefusedIsLatched /\ ArchivedIsThere
  BY HostAssumption DEF HostsInit, CallsAreDue, UnopenedIsBare, ResumableIsSpawned, RefusedIsLatched,
     ArchivedIsThere, NotArchiving, AllWindows
<1>3. TurnsAreAuthorized /\ StoppedWithTranscript /\ SandboxStaysSandbox
  BY HostAssumption DEF HostsInit, TurnsAreAuthorized, StoppedWithTranscript, SandboxStaysSandbox, AllWindows
<1> QED BY <1>1, <1>2, <1>3 DEF SessionInv

\* A gate lets a request in: nothing else changes.
LEMMA ReceiveKeeps ==
  ASSUME SessionInv, NEW r \in Request, Receive(r) PROVE SessionInv'
<1>1. UNCHANGED <<window, env, turns, inited, saved, spawned, denied, resume, audit, unlogged, refusals, hard, unread, archiver>>
  BY DEF Receive, tmux, record
<1>2. calls' = calls \cup {r}
  BY DEF Receive
<1>3. r.kind = "dispatch" => HasScope(r.by, "dispatch") /\ Fresh(r.sid)
  BY DEF Receive
<1>4. r.kind = "inject" => HasScope(r.by, "inject") /\ r.by \in Cleared
  BY DEF Receive
<1>5. CallsAreDue'
  BY <1>1, <1>2, <1>3, <1>4 DEF SessionInv, CallsAreDue, Fresh, HasScope
<1>6. HostsTypeOK'
  BY <1>1, <1>2 DEF SessionInv, HostsTypeOK
<1> QED BY <1>1, <1>5, <1>6 DEF SessionInv, ArchiverOK, UnopenedIsBare, ResumableIsSpawned,
     RefusedIsLatched, ArchivedIsThere, TurnsAreAuthorized, StoppedWithTranscript, SandboxStaysSandbox

\* What the requests say of themselves.
LEMMA RequestFields ==
  ASSUME NEW r \in Request
  PROVE  /\ r.by \in Caller /\ r.sid \in AllWindows
         /\ r.kind = "dispatch" => r.sid \in Sid /\ r.profile \in Profile
BY DEF Request, AllWindows

\* _build_env(): a sandbox gets neither home nor identity.
LEMMA EnvIsTyped ==
  ASSUME NEW p \in Profile
  PROVE  /\ BuildEnv(p) \in SUBSET {"HOME", "SKAGENT", "OAUTH"}
         /\ p = "sandbox" => BuildEnv(p) \cap {"HOME", "SKAGENT"} = {} /\ ("OAUTH" \in BuildEnv(p) => CloudOptIn)
BY DEF BuildEnv, Profile

\* A window that is opened: the first turn of a session nobody has used, after
\* the decision to dispatch it was recorded.
OpensWindow(r) ==
    /\ r \in calls /\ r.kind = "dispatch"
    /\ window' = [window EXCEPT ![r.sid] = "running"]
    /\ env' = [env EXCEPT ![r.sid] = BuildEnv(r.profile)]
    /\ turns' = [turns EXCEPT ![r.sid] = 1]
    /\ audit' = audit \cup {[event |-> "dispatch", by |-> r.by, sid |-> r.sid]}
    /\ UNCHANGED <<inited, saved, unlogged, refusals, hard, unread, archiver>>

\* What holds of every window after one was opened.
LEMMA OpeningKeeps ==
  ASSUME SessionInv, NEW r, OpensWindow(r)
  PROVE  /\ window' \in [AllWindows -> {"none", "running", "exited", "gone"}]
         /\ env' \in [AllWindows -> SUBSET {"HOME", "SKAGENT", "OAUTH"}]
         /\ turns' \in [AllWindows -> 0 .. MaxTurns]
         /\ ArchiverOK' /\ UnopenedIsBare' /\ ArchivedIsThere'
         /\ TurnsAreAuthorized' /\ StoppedWithTranscript'
         /\ r.sid \in Sid /\ window[r.sid] = "none" /\ r.sid \notin refusals
<1>1. r \in Request /\ r.sid \in Sid /\ r.profile \in Profile /\ r.sid \in AllWindows
  BY RequestFields DEF OpensWindow, SessionInv, HostsTypeOK
<1>2. window[r.sid] = "none" /\ turns[r.sid] = 0 /\ HasScope(r.by, "dispatch")
  BY <1>1 DEF OpensWindow, SessionInv, CallsAreDue, UnopenedIsBare
<1>3. /\ window' \in [AllWindows -> {"none", "running", "exited", "gone"}]
      /\ env' \in [AllWindows -> SUBSET {"HOME", "SKAGENT", "OAUTH"}]
      /\ turns' \in [AllWindows -> 0 .. MaxTurns]
  BY <1>1, EnvIsTyped, HostAssumption DEF OpensWindow, SessionInv, HostsTypeOK
<1>4. ArchiverOK' /\ UnopenedIsBare' /\ StoppedWithTranscript'
  BY <1>1, <1>2 DEF OpensWindow, SessionInv, HostsTypeOK, ArchiverOK, UnopenedIsBare, StoppedWithTranscript, AllWindows
<1>5. ArchivedIsThere'
  BY <1>1, <1>2 DEF OpensWindow, SessionInv, HostsTypeOK, ArchiverOK, ArchivedIsThere, AllWindows
<1>6. TurnsAreAuthorized'
  <2>1. \A s \in Sid : s # r.sid => turns'[s] = turns[s]
    BY <1>1 DEF OpensWindow, SessionInv, HostsTypeOK, AllWindows
  <2>2. turns'[r.sid] = 1
    BY <1>1 DEF OpensWindow, SessionInv, HostsTypeOK
  <2>3. \A s \in Foreign : turns'[s] = turns[s]
    BY <1>1, HostAssumption DEF OpensWindow, SessionInv, HostsTypeOK, AllWindows
  <2>4. /\ audit \subseteq audit' /\ [event |-> "dispatch", by |-> r.by, sid |-> r.sid] \in audit'
        /\ unlogged' = unlogged
    BY DEF OpensWindow
  <2> QED BY <2>1, <2>2, <2>3, <2>4, <1>2 DEF SessionInv, TurnsAreAuthorized, HasScope
<1>7. r.sid \notin refusals
  BY <1>2 DEF SessionInv, RefusedIsLatched
<1> QED BY <1>1, <1>2, <1>3, <1>4, <1>5, <1>6, <1>7

\* A dispatch: refused or not cleared, or remembered, with its window or without.
LEMMA DispatchKeeps ==
  ASSUME SessionInv, NEW r \in calls, NEW o \in Outcome, Dispatch(r, o) PROVE SessionInv'
<1>1. r \in Request /\ r.sid \in Sid /\ r.profile \in Profile /\ r.sid \in AllWindows
  BY RequestFields DEF Dispatch, SessionInv, HostsTypeOK
<1>2. /\ window[r.sid] = "none" /\ r.sid \notin spawned /\ HasScope(r.by, "dispatch")
      /\ \A c \in calls' : c.kind = "dispatch" => c.sid # r.sid
  BY <1>1 DEF Dispatch, SessionInv, CallsAreDue
<1>3. calls' \subseteq calls /\ UNCHANGED <<inited, saved, denied, unlogged, refusals, hard, unread, archiver>>
  BY DEF Dispatch
<1>4. resume[r.sid] = Nobody /\ env[r.sid] = {}
  BY <1>1, <1>2 DEF SessionInv, ResumableIsSpawned, UnopenedIsBare
<1>5. CASE ~(r.by \in Cleared /\ o # "refused")
  <2>1. UNCHANGED <<window, env, turns, spawned, resume>> /\ audit \subseteq audit'
    BY <1>5 DEF Dispatch, Audited
  <2>2. TurnsAreAuthorized'
    BY <2>1, <1>3 DEF SessionInv, TurnsAreAuthorized
  <2>3. CallsAreDue' /\ HostsTypeOK'
    BY <2>1, <1>3 DEF SessionInv, CallsAreDue, HostsTypeOK
  <2> QED BY <2>1, <2>2, <2>3, <1>3 DEF SessionInv, ArchiverOK, UnopenedIsBare, ResumableIsSpawned,
             RefusedIsLatched, ArchivedIsThere, StoppedWithTranscript, SandboxStaysSandbox
<1>6. CASE r.by \in Cleared /\ o # "refused"
  <2>1. /\ spawned' = spawned \cup {r.sid}
        /\ resume' = IF r.mode = "interactive" THEN [resume EXCEPT ![r.sid] = r.profile] ELSE resume
    BY <1>6 DEF Dispatch, Remembered
  <2>2. /\ resume' \in [Sid -> Profile \cup {Nobody}]
        /\ \A s \in Sid : s # r.sid => resume'[s] = resume[s]
        /\ resume'[r.sid] \in {Nobody, r.profile}
    BY <2>1, <1>1, <1>4 DEF SessionInv, HostsTypeOK
  <2>3. ResumableIsSpawned'
    BY <2>1, <2>2 DEF SessionInv, ResumableIsSpawned
  <2>4. CASE o = "opened"
    <3>1. OpensWindow(r)
      BY <1>6, <2>4 DEF Dispatch, Opened, OpensWindow, Audited
    <3>2. /\ \A s \in Sid : s # r.sid => env'[s] = env[s] /\ window'[s] = window[s]
          /\ env'[r.sid] = BuildEnv(r.profile)
      BY <3>1, <1>1 DEF OpensWindow, SessionInv, HostsTypeOK, AllWindows
    <3>3. SandboxStaysSandbox'
      BY <3>2, <2>1, <2>2, <1>1, EnvIsTyped, HostAssumption DEF SessionInv, SandboxStaysSandbox, HostsTypeOK
    <3>4. CallsAreDue'
      BY <3>2, <2>1, <1>1, <1>2, <1>3, RequestFields DEF SessionInv, CallsAreDue, HostsTypeOK
    <3>5. r.sid \notin refusals
      BY <3>1, OpeningKeeps
    <3>6. RefusedIsLatched'
      <4>1. \A s \in refusals : s # r.sid => window'[s] = window[s]
        BY <3>1, <1>1 DEF OpensWindow, SessionInv, HostsTypeOK, RefusedIsLatched
      <4> QED BY <4>1, <3>5, <2>2, <1>3 DEF SessionInv, RefusedIsLatched
    <3>7. HostsTypeOK'
      BY <3>1, OpeningKeeps, <2>1, <2>2, <1>1, <1>3 DEF SessionInv, HostsTypeOK
    <3> QED BY <3>1, OpeningKeeps, <2>3, <3>3, <3>4, <3>6, <3>7 DEF SessionInv
  <2>5. CASE o # "opened"
    <3>1. UNCHANGED <<window, env, turns>> /\ audit \subseteq audit'
      BY <1>6, <2>5 DEF Dispatch, Opened, Audited
    <3>2. TurnsAreAuthorized' /\ StoppedWithTranscript' /\ ArchivedIsThere' /\ UnopenedIsBare' /\ ArchiverOK'
      BY <3>1, <1>3 DEF SessionInv, TurnsAreAuthorized, StoppedWithTranscript, ArchivedIsThere, UnopenedIsBare, ArchiverOK
    <3>3. SandboxStaysSandbox'
      BY <3>1, <2>1, <2>2, <1>1, <1>4, HostAssumption DEF SessionInv, SandboxStaysSandbox, HostsTypeOK
    <3>4. CallsAreDue'
      BY <3>1, <2>1, <1>1, <1>2, <1>3 DEF SessionInv, CallsAreDue
    <3>5. RefusedIsLatched'
      BY <3>1, <2>2, <1>2, <1>3 DEF SessionInv, RefusedIsLatched
    <3>6. HostsTypeOK'
      BY <3>1, <2>1, <2>2, <1>1, <1>3 DEF SessionInv, HostsTypeOK
    <3> QED BY <2>3, <3>2, <3>3, <3>4, <3>5, <3>6 DEF SessionInv
  <2> QED BY <2>4, <2>5
<1> QED BY <1>5, <1>6

\* A daemon that knows nothing owes nothing.
LEMMA ForgettingKeeps ==
  ASSUME Forgotten
  PROVE  CallsAreDue' /\ ResumableIsSpawned' /\ SandboxStaysSandbox'
BY DEF Forgotten, CallsAreDue, ResumableIsSpawned, SandboxStaysSandbox

\* A window that was opened by a daemon that died is accounted for all the same.
LEMMA DispatchCutKeeps ==
  ASSUME SessionInv, NEW r \in calls, DispatchCut(r) PROVE SessionInv'
<1>1. OpensWindow(r)
  BY DEF DispatchCut, Opened, OpensWindow, Audited
<1>2. Forgotten
  BY DEF DispatchCut
<1>3. HostsTypeOK'
  BY <1>1, <1>2, OpeningKeeps DEF HostsTypeOK, Forgotten, OpensWindow, SessionInv
<1>4. RefusedIsLatched'
  <2>1. \A s \in refusals : window'[s] # "none"
    BY <1>1, OpeningKeeps DEF OpensWindow, SessionInv, HostsTypeOK, RefusedIsLatched
  <2> QED BY <1>1, <1>2, <2>1 DEF Forgotten, SessionInv, RefusedIsLatched, OpensWindow
<1> QED BY <1>1, <1>2, <1>3, <1>4, OpeningKeeps, ForgettingKeeps DEF SessionInv

\* After a restart no refused session can be resumed.
LEMMA RestartKeeps ==
  ASSUME SessionInv, Restart PROVE SessionInv'
<1>1. Forgotten
  BY DEF Restart
<1>2. UNCHANGED <<window, env, turns, inited, saved, audit, unlogged, refusals, hard, unread, archiver>>
  BY DEF Restart, tmux, record
<1>3. HostsTypeOK'
  BY <1>1, <1>2 DEF HostsTypeOK, Forgotten, SessionInv
<1>4. RefusedIsLatched'
  BY <1>1, <1>2 DEF Forgotten, SessionInv, RefusedIsLatched
<1> QED BY <1>1, <1>2, <1>3, <1>4, ForgettingKeeps DEF SessionInv, ArchiverOK, UnopenedIsBare,
             ArchivedIsThere, TurnsAreAuthorized, StoppedWithTranscript

\* A turn starts only in a live session of ours that no refusal stands against.
LEMMA InjectedIsLive ==
  ASSUME SessionInv, NEW s, Injectable(s)
  PROVE  /\ s \in Sid /\ s \notin refusals /\ window[s] \in {"running", "exited"}
         /\ resume[s] \in Profile /\ s \in spawned
BY HostAssumption DEF Injectable, Live, SessionInv, RefusedIsLatched, HostsTypeOK, ResumableIsSpawned

\* Behind a turn that was injected stands a cleared caller with the scope.
IsInjected(s) ==
    \E a \in {b \in audit : b.event = "inject"} \cup unlogged :
        a.sid = s /\ HasScope(a.by, "inject") /\ a.by \in Cleared

\* A turn in a session's pane, and somebody who asked for it.
ResumesFor(s) ==
    /\ Injectable(s) /\ Resumes(s) /\ IsInjected(s)'
    /\ audit \subseteq audit' /\ unlogged \subseteq unlogged'
    /\ UNCHANGED <<inited, saved, refusals, hard, unread, archiver>>

\* What was asked for once stays so.
LEMMA InjectedStays ==
  ASSUME NEW x, audit \subseteq audit', unlogged \subseteq unlogged', IsInjected(x) PROVE IsInjected(x)'
BY DEF IsInjected, HasScope

\* What holds of every window after a turn began in one.
LEMMA ResumingKeeps ==
  ASSUME SessionInv, NEW s, ResumesFor(s)
  PROVE  /\ window' \in [AllWindows -> {"none", "running", "exited", "gone"}]
         /\ env' \in [AllWindows -> SUBSET {"HOME", "SKAGENT", "OAUTH"}]
         /\ turns' \in [AllWindows -> 0 .. MaxTurns]
         /\ ArchiverOK' /\ UnopenedIsBare' /\ ArchivedIsThere'
         /\ TurnsAreAuthorized' /\ StoppedWithTranscript'
         /\ s \in Sid /\ window[s] \in {"running", "exited"} /\ resume[s] \in Profile
         /\ \A x \in AllWindows : x # s => window'[x] = window[x] /\ env'[x] = env[x]
         /\ window'[s] = "running" /\ env'[s] = BuildEnv(resume[s])
<1>1. /\ s \in Sid /\ s \in AllWindows /\ window[s] \in {"running", "exited"} /\ resume[s] \in Profile
  BY InjectedIsLive DEF AllWindows, ResumesFor
<1>2. /\ turns[s] < MaxTurns /\ turns' = [turns EXCEPT ![s] = @ + 1]
      /\ window' = [window EXCEPT ![s] = "running"]
      /\ env' = [env EXCEPT ![s] = BuildEnv(resume[s])]
      /\ audit \subseteq audit' /\ unlogged \subseteq unlogged'
      /\ UNCHANGED <<inited, saved, refusals, hard, unread, archiver>>
  BY DEF ResumesFor, Resumes, ResumedEnv
<1>3. turns[s] \in 0 .. MaxTurns /\ turns[s] > 0 /\ MaxTurns \in Nat
  BY <1>1, HostAssumption DEF SessionInv, HostsTypeOK, UnopenedIsBare
<1>4. BuildEnv(resume[s]) \in SUBSET {"HOME", "SKAGENT", "OAUTH"}
  BY <1>1, EnvIsTyped
<1>5. /\ window' \in [AllWindows -> {"none", "running", "exited", "gone"}]
      /\ env' \in [AllWindows -> SUBSET {"HOME", "SKAGENT", "OAUTH"}]
      /\ turns' \in [AllWindows -> 0 .. MaxTurns]
  <2>1. turns[s] + 1 \in 0 .. MaxTurns
    BY <1>2, <1>3
  <2> QED BY <1>1, <1>2, <1>4, <2>1 DEF SessionInv, HostsTypeOK
<1>6. /\ \A x \in AllWindows : x # s => turns'[x] = turns[x] /\ window'[x] = window[x] /\ env'[x] = env[x]
      /\ turns'[s] = turns[s] + 1 /\ window'[s] = "running" /\ env'[s] = BuildEnv(resume[s])
  BY <1>1, <1>2 DEF SessionInv, HostsTypeOK
<1>7. TurnsAreAuthorized'
  <2>1. ASSUME NEW x \in Sid, turns'[x] > 0
        PROVE  \E a \in audit' : a.event = "dispatch" /\ a.sid = x /\ HasScope(a.by, "dispatch")
    <3>1. turns[x] > 0
      BY <2>1, <1>3, <1>6 DEF AllWindows
    <3> QED BY <3>1, <1>2 DEF SessionInv, TurnsAreAuthorized
  <2>2. ASSUME NEW x \in Sid, turns'[x] > 1 PROVE IsInjected(x)'
    <3>1. CASE x = s
      BY <3>1 DEF ResumesFor
    <3>2. CASE x # s
      <4>1. turns[x] > 1
        BY <3>2, <2>2, <1>6 DEF AllWindows
      <4>2. IsInjected(x)
        BY <4>1 DEF SessionInv, TurnsAreAuthorized, IsInjected
      <4> QED BY <4>2, <1>2, InjectedStays
    <3> QED BY <3>1, <3>2
  <2>3. ASSUME NEW x \in Foreign PROVE turns'[x] = 1
    BY <1>1, <1>6, HostAssumption DEF SessionInv, TurnsAreAuthorized, AllWindows
  <2> QED BY <2>1, <2>2, <2>3 DEF TurnsAreAuthorized, IsInjected, HasScope
<1>8. UnopenedIsBare' /\ StoppedWithTranscript' /\ ArchiverOK'
  BY <1>1, <1>2, <1>3, <1>6 DEF SessionInv, UnopenedIsBare, StoppedWithTranscript, ArchiverOK, AllWindows
<1>9. ArchivedIsThere'
  BY <1>1, <1>2, <1>6 DEF SessionInv, ArchivedIsThere, ArchiverOK, AllWindows
<1> QED BY <1>1, <1>5, <1>6, <1>7, <1>8, <1>9

\* A turn, or an inject that came too late.
LEMMA InjectKeeps ==
  ASSUME SessionInv, NEW r \in calls, Inject(r) PROVE SessionInv'
<1>1. /\ calls' \subseteq calls /\ audit \subseteq audit'
      /\ UNCHANGED <<inited, saved, spawned, denied, resume, unlogged, refusals, hard, unread, archiver>>
  BY DEF Inject, Audited
<1>2. CASE ~Injectable(r.sid)
  <2>1. UNCHANGED <<turns, window, env>>
    BY <1>2 DEF Inject
  <2>2. TurnsAreAuthorized'
    BY <2>1, <1>1 DEF SessionInv, TurnsAreAuthorized
  <2>3. CallsAreDue' /\ HostsTypeOK'
    BY <2>1, <1>1 DEF SessionInv, CallsAreDue, HostsTypeOK
  <2> QED BY <2>1, <2>2, <2>3, <1>1 DEF SessionInv, ArchiverOK, UnopenedIsBare, ResumableIsSpawned,
             RefusedIsLatched, ArchivedIsThere, StoppedWithTranscript, SandboxStaysSandbox
<1>3. CASE Injectable(r.sid)
  <2> DEFINE s == r.sid
  <2>1. r.by \in Cleared /\ HasScope(r.by, "inject")
    BY DEF Inject, SessionInv, CallsAreDue
  <2>2. IsInjected(s)'
    <3>1. [event |-> "inject", by |-> r.by, sid |-> s] \in audit'
      BY <2>1 DEF Inject, Audited
    <3> QED BY <3>1, <2>1 DEF IsInjected, HasScope
  <2>3. ResumesFor(s)
    BY <1>1, <1>3, <2>2 DEF Inject, ResumesFor
  <2> HIDE DEF s
  <2>4. /\ s \in Sid /\ window[s] \in {"running", "exited"} /\ resume[s] \in Profile
        /\ \A x \in AllWindows : x # s => window'[x] = window[x] /\ env'[x] = env[x]
        /\ window'[s] = "running" /\ env'[s] = BuildEnv(resume[s])
    BY <2>3, ResumingKeeps
  <2>5. HostsTypeOK'
    BY <2>3, ResumingKeeps, <1>1 DEF SessionInv, HostsTypeOK
  <2>10. SandboxStaysSandbox'
    BY <2>4, <1>1, EnvIsTyped DEF SessionInv, SandboxStaysSandbox, HostsTypeOK, AllWindows
  <2>11. CallsAreDue'
    <3>1. \A c \in calls : c.kind = "dispatch" => c.sid # s
      BY <2>4 DEF SessionInv, CallsAreDue
    <3> QED BY <3>1, <2>4, <1>1, RequestFields DEF SessionInv, CallsAreDue, HostsTypeOK
  <2>12. RefusedIsLatched' /\ ResumableIsSpawned'
    BY <2>4, <1>1 DEF SessionInv, RefusedIsLatched, ResumableIsSpawned
  <2> QED BY <2>3, <2>5, <2>10, <2>11, <2>12, ResumingKeeps DEF SessionInv
<1> QED BY <1>2, <1>3

\* A turn whose daemon died before it recorded it.
LEMMA InjectCutKeeps ==
  ASSUME SessionInv, NEW r \in calls, InjectCut(r) PROVE SessionInv'
<1> DEFINE s == r.sid
<1>1. r.by \in Cleared /\ HasScope(r.by, "inject")
  BY DEF InjectCut, SessionInv, CallsAreDue
<1>2. IsInjected(s)'
  <2>1. [by |-> r.by, sid |-> s] \in unlogged'
    BY DEF InjectCut
  <2> QED BY <2>1, <1>1 DEF IsInjected, HasScope
<1>3. ResumesFor(s) /\ Forgotten
  BY <1>2 DEF InjectCut, ResumesFor
<1> HIDE DEF s
<1>4. HostsTypeOK'
  BY <1>3, ResumingKeeps DEF HostsTypeOK, Forgotten, ResumesFor, SessionInv
<1>5. RefusedIsLatched'
  <2>1. \A x \in refusals : window'[x] # "none"
    BY <1>3, ResumingKeeps DEF SessionInv, RefusedIsLatched
  <2> QED BY <1>3, <2>1 DEF Forgotten, SessionInv, RefusedIsLatched, ResumesFor
<1> QED BY <1>3, <1>4, <1>5, ResumingKeeps, ForgettingKeeps DEF SessionInv

-----------------------------------------------------------------------------
\* deny() latches the session and stops what runs.
LEMMA DenyKeeps ==
  ASSUME SessionInv, NEW c \in Caller, NEW s \in AllWindows, Deny(c, s) PROVE SessionInv'
<1>1. /\ window[s] \in {"running", "exited"} /\ window' = [window EXCEPT ![s] = "exited"]
      /\ denied' = denied \cup {s} /\ refusals' = refusals \cup {s}
      /\ UNCHANGED <<env, turns, inited, saved, spawned, resume, calls, audit, unlogged, hard, unread, archiver>>
  BY DEF Deny, Live
<1>2. /\ \A x \in AllWindows : x # s => window'[x] = window[x]
      /\ window'[s] = "exited"
  BY <1>1 DEF SessionInv, HostsTypeOK
<1>3. HostsTypeOK' /\ ArchiverOK' /\ UnopenedIsBare' /\ ResumableIsSpawned'
  BY <1>1, <1>2 DEF SessionInv, HostsTypeOK, ArchiverOK, UnopenedIsBare, ResumableIsSpawned, AllWindows
<1>4. RefusedIsLatched' /\ StoppedWithTranscript'
  BY <1>1, <1>2 DEF SessionInv, RefusedIsLatched, StoppedWithTranscript, AllWindows
<1>5. ArchivedIsThere'
  BY <1>1, <1>2 DEF SessionInv, ArchivedIsThere, ArchiverOK, AllWindows
<1>6. CallsAreDue'
  <2>1. \A d \in calls : d.kind = "dispatch" => d.sid # s
    BY <1>1 DEF SessionInv, CallsAreDue
  <2> QED BY <2>1, <1>1, <1>2, RequestFields DEF SessionInv, CallsAreDue, HostsTypeOK
<1> QED BY <1>1, <1>3, <1>4, <1>5, <1>6 DEF SessionInv, TurnsAreAuthorized, SandboxStaysSandbox

\* cancel() takes the window away, the transcript may be lost then.
LEMMA CancelKeeps ==
  ASSUME SessionInv, NEW c \in Caller, NEW s \in AllWindows, CancelSession(c, s) PROVE SessionInv'
<1>1. /\ window[s] \in {"running", "exited"} /\ window' = [window EXCEPT ![s] = "gone"]
      /\ hard' = hard \cup {s}
      /\ UNCHANGED <<env, turns, inited, saved, spawned, denied, resume, calls, audit, unlogged, refusals, unread, archiver>>
  BY DEF CancelSession, Live, memory
<1>2. /\ \A x \in AllWindows : x # s => window'[x] = window[x]
      /\ window'[s] = "gone"
  BY <1>1 DEF SessionInv, HostsTypeOK
<1>3. HostsTypeOK' /\ ArchiverOK' /\ UnopenedIsBare' /\ ResumableIsSpawned'
  BY <1>1, <1>2 DEF SessionInv, HostsTypeOK, ArchiverOK, UnopenedIsBare, ResumableIsSpawned, AllWindows
<1>4. RefusedIsLatched' /\ StoppedWithTranscript'
  BY <1>1, <1>2 DEF SessionInv, RefusedIsLatched, StoppedWithTranscript, AllWindows
<1>5. ArchivedIsThere'
  BY <1>1, <1>2 DEF SessionInv, ArchivedIsThere, ArchiverOK, AllWindows
<1>6. CallsAreDue'
  <2>1. \A d \in calls : d.kind = "dispatch" => d.sid # s
    BY <1>1 DEF SessionInv, CallsAreDue
  <2> QED BY <2>1, <1>1, <1>2, RequestFields DEF SessionInv, CallsAreDue, HostsTypeOK
<1> QED BY <1>1, <1>3, <1>4, <1>5, <1>6 DEF SessionInv, TurnsAreAuthorized, SandboxStaysSandbox

\* A turn that ends leaves its pane.
LEMMA TurnEndsKeeps ==
  ASSUME SessionInv, NEW s \in AllWindows, TurnEnds(s) PROVE SessionInv'
<1>1. /\ window[s] = "running" /\ window' = [window EXCEPT ![s] = "exited"]
      /\ UNCHANGED <<env, turns, inited, saved, spawned, denied, resume, calls, audit, unlogged, refusals, hard, unread, archiver>>
  BY DEF TurnEnds, memory, record
<1>2. /\ \A x \in AllWindows : x # s => window'[x] = window[x]
      /\ window'[s] = "exited"
  BY <1>1 DEF SessionInv, HostsTypeOK
<1>3. HostsTypeOK' /\ ArchiverOK' /\ UnopenedIsBare' /\ ResumableIsSpawned'
  BY <1>1, <1>2 DEF SessionInv, HostsTypeOK, ArchiverOK, UnopenedIsBare, ResumableIsSpawned, AllWindows
<1>4. RefusedIsLatched' /\ StoppedWithTranscript'
  BY <1>1, <1>2 DEF SessionInv, RefusedIsLatched, StoppedWithTranscript, AllWindows
<1>5. ArchivedIsThere'
  BY <1>1, <1>2 DEF SessionInv, ArchivedIsThere, ArchiverOK, AllWindows
<1>6. CallsAreDue'
  <2>1. \A d \in calls : d.kind = "dispatch" => d.sid # s
    BY <1>1 DEF SessionInv, CallsAreDue
  <2> QED BY <2>1, <1>1, <1>2, RequestFields DEF SessionInv, CallsAreDue, HostsTypeOK
<1> QED BY <1>1, <1>3, <1>4, <1>5, <1>6 DEF SessionInv, TurnsAreAuthorized, SandboxStaysSandbox

-----------------------------------------------------------------------------
(* The archiver. *)

\* What a step of the archiver leaves alone besides the window and the disk.
LEMMA ArchiverOnly ==
  ASSUME SessionInv, ArchiverOK', ArchivedIsThere', StoppedWithTranscript',
         UNCHANGED <<window, env, turns, inited, spawned, denied, resume, calls, audit, unlogged, refusals, hard>>,
         saved' \in [Sid -> {"none", "full", "part", "empty"}]
  PROVE  SessionInv'
BY DEF SessionInv, HostsTypeOK, CallsAreDue, UnopenedIsBare, ResumableIsSpawned, RefusedIsLatched,
       TurnsAreAuthorized, SandboxStaysSandbox

\* archive() finds the window.
LEMMA ArchiveListedKeeps ==
  ASSUME SessionInv, NEW s \in AllWindows, ArchiveListed(s) PROVE SessionInv'
<1>1. /\ s \in Sid /\ window[s] \in {"running", "exited"}
      /\ archiver' = [step |-> "capture", sid |-> s, text |-> "none", turns |-> 0]
      /\ UNCHANGED <<window, env, turns, inited, saved, spawned, denied, resume, calls, audit, unlogged, refusals,
                     hard, unread>>
  BY DEF ArchiveListed, Live, tmux, memory, record
<1>2. ArchiverOK' /\ ArchivedIsThere' /\ StoppedWithTranscript'
  BY <1>1, HostAssumption DEF SessionInv, ArchiverOK, ArchivedIsThere, StoppedWithTranscript
<1> QED BY <1>1, <1>2, ArchiverOnly DEF SessionInv, HostsTypeOK

\* It captures the pane, unless a cancel took it or tmux fails.
LEMMA ArchiveCaptureKeeps ==
  ASSUME SessionInv, NEW well \in BOOLEAN, ArchiveCapture(well) PROVE SessionInv'
<1> DEFINE s == archiver.sid
<1>1. /\ archiver.step = "capture"
      /\ archiver' = [archiver EXCEPT !.step = "persist", !.text = Captured(s, well), !.turns = turns[s]]
      /\ unread' = IF well THEN unread ELSE unread \cup {s}
      /\ UNCHANGED <<window, env, turns, inited, saved, spawned, denied, resume, calls, audit, unlogged, refusals, hard>>
  BY DEF ArchiveCapture, tmux, memory
<1>2. /\ s \in Sid /\ s \in AllWindows /\ window[s] \in {"none", "running", "exited", "gone"}
      /\ s \in Live <=> window[s] \in {"running", "exited"}
      /\ turns[s] \in 0 .. MaxTurns
  BY <1>1 DEF SessionInv, ArchiverOK, HostsTypeOK, AllWindows, Live
<1>3. Captured(s, well) \in {"full", "empty"} /\ (Captured(s, well) = "empty" => s \notin Live \/ ~well)
  BY DEF Captured
<1>4. /\ archiver'.step = "persist" /\ archiver'.sid = s /\ archiver'.text = Captured(s, well)
      /\ ArchiverOK'
  BY <1>1, <1>2, <1>3 DEF SessionInv, ArchiverOK
<1>5. unread \subseteq unread' /\ (~well => s \in unread')
  BY <1>1
<1>6. s \notin Live => s \in hard
  BY <1>1, <1>2 DEF SessionInv, ArchivedIsThere
<1>7. ArchivedIsThere'
  BY <1>1, <1>3, <1>4, <1>5, <1>6 DEF SessionInv, ArchivedIsThere
<1>8. StoppedWithTranscript'
  BY <1>1, <1>5 DEF SessionInv, StoppedWithTranscript
<1> QED BY <1>1, <1>4, <1>7, <1>8, ArchiverOnly DEF SessionInv, HostsTypeOK

\* It puts on disk what it captured.
LEMMA ArchivePersistKeeps ==
  ASSUME SessionInv, ArchivePersist PROVE SessionInv'
<1>1. /\ archiver.step = "persist" /\ archiver' = [archiver EXCEPT !.step = "kill"]
      /\ saved' = [saved EXCEPT ![archiver.sid] = archiver.text]
      /\ UNCHANGED <<window, env, turns, inited, spawned, denied, resume, calls, audit, unlogged, refusals, hard, unread>>
  BY DEF ArchivePersist, memory, record
<1>2. archiver.sid \in Sid /\ archiver.text \in {"none", "full", "empty"}
  BY <1>1 DEF SessionInv, ArchiverOK
<1>3. /\ archiver'.step = "kill" /\ archiver'.sid = archiver.sid /\ archiver'.text = archiver.text
      /\ ArchiverOK'
  BY <1>1, <1>2 DEF SessionInv, ArchiverOK
<1>4. /\ saved' \in [Sid -> {"none", "full", "part", "empty"}] /\ saved'[archiver.sid] = archiver.text
      /\ \A s \in Sid : s # archiver.sid => saved'[s] = saved[s]
  BY <1>1, <1>2 DEF SessionInv, HostsTypeOK
<1>5. ArchivedIsThere'
  BY <1>1, <1>3, <1>4 DEF SessionInv, ArchivedIsThere
<1>6. StoppedWithTranscript'
  BY <1>1, <1>4 DEF SessionInv, ArchivedIsThere, StoppedWithTranscript
<1> QED BY <1>1, <1>3, <1>4, <1>5, <1>6, ArchiverOnly

\* Only then the window goes, if tmux takes it.
LEMMA ArchiveKillKeeps ==
  ASSUME SessionInv, NEW well \in BOOLEAN, ArchiveKill(well) PROVE SessionInv'
<1> DEFINE s == archiver.sid
<1>1. /\ archiver.step = "kill" /\ archiver' = NotArchiving
      /\ window' = IF well THEN [window EXCEPT ![s] = "gone"] ELSE window
      /\ saved' = IF saved[s] = "full" /\ Grew(s) THEN [saved EXCEPT ![s] = "part"] ELSE saved
      /\ UNCHANGED <<env, turns, inited, spawned, denied, resume, calls, audit, unlogged, refusals, hard, unread>>
  BY DEF ArchiveKill, memory, record
<1>2. s \in Sid /\ s \in AllWindows /\ window[s] # "none"
  BY <1>1 DEF SessionInv, ArchiverOK, ArchivedIsThere, AllWindows
<1>3. saved[s] # "none" /\ (saved[s] = "empty" => s \in hard \cup unread)
  BY <1>1 DEF SessionInv, ArchivedIsThere
<1>4. /\ window' \in [AllWindows -> {"none", "running", "exited", "gone"}]
      /\ \A x \in AllWindows : x # s => window'[x] = window[x]
      /\ window'[s] # "none"
  BY <1>1, <1>2 DEF SessionInv, HostsTypeOK
<1>5. /\ saved' \in [Sid -> {"none", "full", "part", "empty"}]
      /\ \A x \in Sid : x # s => saved'[x] = saved[x]
      /\ saved'[s] # "none" /\ (saved'[s] = "empty" => s \in hard \cup unread)
  BY <1>1, <1>2, <1>3 DEF SessionInv, HostsTypeOK
<1>6. HostsTypeOK' /\ ArchiverOK' /\ UnopenedIsBare' /\ ResumableIsSpawned'
  BY <1>1, <1>2, <1>4, <1>5, HostAssumption DEF SessionInv, HostsTypeOK, ArchiverOK, NotArchiving, UnopenedIsBare,
     ResumableIsSpawned, AllWindows
<1>7. RefusedIsLatched' /\ ArchivedIsThere'
  BY <1>1, <1>4 DEF SessionInv, RefusedIsLatched, ArchivedIsThere, NotArchiving
<1>8. StoppedWithTranscript'
  BY <1>1, <1>4, <1>5 DEF SessionInv, StoppedWithTranscript, AllWindows
<1>9. CallsAreDue'
  <2>1. \A d \in calls : d.kind = "dispatch" => d.sid # s
    BY <1>2 DEF SessionInv, CallsAreDue
  <2> QED BY <2>1, <1>1, <1>4, RequestFields DEF SessionInv, CallsAreDue, HostsTypeOK
<1> QED BY <1>1, <1>6, <1>7, <1>8, <1>9 DEF SessionInv, TurnsAreAuthorized, SandboxStaysSandbox

\* An archiver that fails leaves the window where it was.
LEMMA ArchiveFailsKeeps ==
  ASSUME SessionInv, ArchiveFails PROVE SessionInv'
<1>1. /\ archiver' = NotArchiving
      /\ UNCHANGED <<window, env, turns, inited, saved, spawned, denied, resume, calls, audit, unlogged, refusals, hard, unread>>
  BY DEF ArchiveFails, tmux, memory, record
<1>2. ArchiverOK' /\ ArchivedIsThere' /\ StoppedWithTranscript'
  BY <1>1, HostAssumption DEF SessionInv, ArchiverOK, ArchivedIsThere, StoppedWithTranscript, NotArchiving
<1> QED BY <1>1, <1>2, ArchiverOnly DEF SessionInv, HostsTypeOK

\* Steps that touch neither a window's life nor what anyone remembers of it.
LEMMA QuietKeeps ==
  ASSUME SessionInv,
         UNCHANGED <<window, env, turns, saved, spawned, denied, resume, calls, audit, unlogged, refusals, hard, unread, archiver>>
  PROVE  SessionInv'
BY DEF SessionInv, HostsTypeOK, ArchiverOK, CallsAreDue, UnopenedIsBare, ResumableIsSpawned, RefusedIsLatched,
       ArchivedIsThere, TurnsAreAuthorized, StoppedWithTranscript, SandboxStaysSandbox

\* Every step of the surface keeps the invariant.
LEMMA StepKeeps ==
  ASSUME SessionInv, [HostsNext]_hostVars PROVE SessionInv'
<1>1. CASE UNCHANGED hostVars
  BY <1>1, QuietKeeps DEF hostVars, tmux, memory, record
<1>2. ASSUME NEW r \in Request, Receive(r) PROVE SessionInv'
  BY <1>2, ReceiveKeeps
<1>3. ASSUME NEW r \in calls, Inject(r) \/ InjectCut(r) \/ DispatchCut(r) \/ \E o \in Outcome : Dispatch(r, o)
      PROVE  SessionInv'
  BY <1>3, InjectKeeps, InjectCutKeeps, DispatchCutKeeps, DispatchKeeps
<1>4. ASSUME NEW c \in Caller, NEW s \in AllWindows, Deny(c, s) \/ CancelSession(c, s) PROVE SessionInv'
  BY <1>4, DenyKeeps, CancelKeeps
<1>5. ASSUME NEW s \in AllWindows, ArchiveListed(s) \/ TurnEnds(s) PROVE SessionInv'
  BY <1>5, ArchiveListedKeeps, TurnEndsKeeps
<1>6. ASSUME NEW s \in AllWindows, TurnInit(s) PROVE SessionInv'
  BY <1>6, QuietKeeps DEF TurnInit, memory, record
<1>7. CASE ArchivePersist \/ ArchiveFails
  BY <1>7, ArchivePersistKeeps, ArchiveFailsKeeps
<1>10. ASSUME NEW well \in BOOLEAN, ArchiveCapture(well) \/ ArchiveKill(well) PROVE SessionInv'
  BY <1>10, ArchiveCaptureKeeps, ArchiveKillKeeps
<1>8. CASE Brake
  BY <1>8, QuietKeeps DEF Brake, tmux, memory, record
<1>9. CASE Restart
  BY <1>9, RestartKeeps
<1> QED BY <1>1, <1>2, <1>3, <1>4, <1>5, <1>6, <1>7, <1>8, <1>9, <1>10 DEF HostsNext

\* hostd's panes, for every number of sessions, callers, requests under way,
\* turns and restarts: the first turn in a window was authorized and recorded
\* before it began; a later one was asked for by a cleared caller with the
\* inject scope, which the audit has unless the daemon died right then; no
\* other program's window gets a turn; a session that archive() stopped has a
\* transcript on disk, blank only if tmux failed to give the scrollback; and a
\* session dispatched as sandbox never runs with the operator's home, identity
\* or cloud token.
THEOREM SessionsStayGuarded == HostsSpec => []SessionsAreGuarded
<1>1. SessionInv /\ [HostsNext]_hostVars => SessionInv'
  BY StepKeeps
<1>2. SessionInv => SessionsAreGuarded
  BY DEF SessionInv, SessionsAreGuarded
<1> QED BY InitIsGood, <1>1, <1>2, PTL DEF HostsSpec

\* One step never starts a turn in a session that some operator was told is refused.
LEMMA RefusedStep ==
  ASSUME SessionInv, [HostsNext]_hostVars PROVE \A s \in refusals : turns'[s] = turns[s]
<1>1. CASE UNCHANGED turns
  BY <1>1
<1>2. ASSUME NEW r \in calls, Inject(r), turns' # turns PROVE \A s \in refusals : turns'[s] = turns[s]
  <2>1. Injectable(r.sid) /\ turns' = [turns EXCEPT ![r.sid] = @ + 1]
    BY <1>2 DEF Inject, Resumes
  <2>2. r.sid \notin refusals
    BY <2>1, InjectedIsLive
  <2> QED BY <2>1, <2>2 DEF SessionInv, HostsTypeOK, RefusedIsLatched
<1>3. ASSUME NEW r \in calls, NEW o \in Outcome, Dispatch(r, o), turns' # turns
      PROVE  \A s \in refusals : turns'[s] = turns[s]
  <2>1. OpensWindow(r)
    BY <1>3 DEF Dispatch, Opened, OpensWindow, Audited
  <2> QED BY <2>1, OpeningKeeps DEF OpensWindow, SessionInv, HostsTypeOK, RefusedIsLatched
<1>4. ASSUME NEW r \in calls, DispatchCut(r) PROVE \A s \in refusals : turns'[s] = turns[s]
  <2>1. OpensWindow(r)
    BY <1>4 DEF DispatchCut, Opened, OpensWindow, Audited
  <2> QED BY <2>1, OpeningKeeps DEF OpensWindow, SessionInv, HostsTypeOK, RefusedIsLatched
<1>5. CASE UNCHANGED hostVars
  BY <1>5, <1>1 DEF hostVars, tmux
<1>6. ASSUME NEW r \in calls, InjectCut(r) PROVE \A s \in refusals : turns'[s] = turns[s]
  <2>1. Injectable(r.sid) /\ turns' = [turns EXCEPT ![r.sid] = @ + 1]
    BY <1>6 DEF InjectCut, Resumes
  <2>2. r.sid \notin refusals
    BY <2>1, InjectedIsLive
  <2> QED BY <2>1, <2>2 DEF SessionInv, HostsTypeOK, RefusedIsLatched
<1> QED BY <1>1, <1>2, <1>3, <1>4, <1>5, <1>6 DEF HostsNext, Receive, Deny, CancelSession, ArchiveListed, TurnInit,
           TurnEnds, ArchiveCapture, ArchivePersist, ArchiveKill, ArchiveFails, Brake, Restart, tmux

\* A refusal is final: from the moment deny() answered, no turn ever starts in
\* that session again, although a restarted daemon has forgotten the refusal
\* and injects may be past their gate.
THEOREM RefusalIsFinal == HostsSpec => RefusedStaysRefused
<1>1. SessionInv /\ [HostsNext]_hostVars => SessionInv'
  BY StepKeeps
<1>2. SessionInv /\ [HostsNext]_hostVars => [\A s \in refusals : turns'[s] = turns[s]]_hostVars
  BY RefusedStep
<1> QED BY InitIsGood, <1>1, <1>2, PTL DEF HostsSpec, RefusedStaysRefused

-----------------------------------------------------------------------------
(* Pumps and announcements. *)

\* The supervisor looks at states the jobs have had.
JobsOK ==
    /\ status \in [Job -> Status]
    /\ DOMAIN batch \subseteq Job /\ \A j \in DOMAIN batch : batch[j] \in Status
    /\ signature \in [Job -> Status \cup {""}] /\ announced \in [Job -> Status \cup {""}]

PumpsOK ==
    /\ alive \subseteq Feed /\ listed \subseteq Feed
    /\ yielded \in [Feed -> 0 .. MaxYield] /\ at \in [Feed -> 0 .. MaxYield]
    /\ pump \in [Feed -> {"none", "running", "done"}]
    /\ onRail \in [Feed -> SUBSET Nat]
    /\ phase \in {"list", "pumps", "jobs", "sleep"}

\* What the current pump of a session has published is in the rail, and the rail
\* has no holes below any of its events but for lines that have left the screen:
\* the next one the pump publishes, also one that arrives after the pump was
\* cancelled, is the first one missing or is there already.
Prefixed(rail, n, out) ==
    /\ \A k \in Nat \ {0} : k <= n => k \in rail \cup out
    /\ \A i \in rail, k \in Nat \ {0} : k < i => k \in rail \cup out

LostLines(s) == {k \in Nat \ {0} : ScrolledOff(s, k)}

PumpsInv == PumpsOK /\ \A s \in Feed : Prefixed(onRail[s], at[s], LostLines(s))

LEMMA NextIsPrefixed ==
  ASSUME NEW rail \in SUBSET Nat, NEW n \in Nat, NEW out, Prefixed(rail, n, out)
  PROVE  /\ Prefixed(rail \cup {n + 1}, n + 1, out) /\ Prefixed(rail \cup {n + 1}, 0, out)
         /\ Prefixed(rail, 0, out)
<1>1. \A k \in Nat \ {0} : k <= n + 1 => k <= n \/ k = n + 1
  OBVIOUS
<1>2. \A k \in Nat \ {0} : ~(k <= 0)
  OBVIOUS
<1>3. \A i \in rail \cup {n + 1}, k \in Nat \ {0} : k < i => k \in rail \cup {n + 1} \cup out
  BY <1>1 DEF Prefixed
<1> QED BY <1>1, <1>2, <1>3 DEF Prefixed

\* A stream that begins now misses what has left the screen, nothing else.
LEMMA OffIsLost ==
  ASSUME PumpsOK, NEW s \in Feed
  PROVE  Off(s) \in 0 .. MaxYield /\ \A k \in Nat \ {0} : k <= Off(s) => k \in LostLines(s)
<1>1. yielded[s] \in 0 .. MaxYield /\ Screen \in Nat \ {0} /\ MaxYield \in Nat
  BY FeedsAssumption DEF PumpsOK
<1>2. CASE s \in Scraped /\ yielded[s] > Screen
  <2>1. Off(s) = yielded[s] - Screen
    BY <1>2 DEF Off
  <2> QED BY <1>1, <1>2, <2>1 DEF LostLines, ScrolledOff
<1>3. CASE ~(s \in Scraped /\ yielded[s] > Screen)
  <2>1. Off(s) = 0
    BY <1>3 DEF Off
  <2> QED BY <1>1, <2>1
<1> QED BY <1>2, <1>3

\* What has left the screen does not come back.
LEMMA LinesStayLost ==
  ASSUME PumpsOK, NEW s \in Feed, yielded'[s] \in Nat, yielded'[s] >= yielded[s]
  PROVE  LostLines(s) \subseteq LostLines(s)'
<1>1. yielded[s] \in Nat /\ Screen \in Nat
  BY FeedsAssumption DEF PumpsOK
<1> QED BY <1>1 DEF LostLines, ScrolledOff

LEMMA LostIsPrefixed ==
  ASSUME NEW rail \in SUBSET Nat, NEW n \in Nat, NEW out, Prefixed(rail, n, out),
         NEW more, out \subseteq more, NEW m \in Nat, \A k \in Nat \ {0} : k <= m => k \in more \/ k <= n
  PROVE  Prefixed(rail, m, more)
BY DEF Prefixed

\* A round of the supervisor: pumps are cancelled, started and left alone.
LEMMA RoundKeepsPumps ==
  ASSUME PumpsInv, NEW late \in SUBSET Feed, PumpsKept(late) PROVE PumpsInv'
<1>1. PumpsOK'
  <2>1. onRail' \in [Feed -> SUBSET Nat]
    BY FeedsAssumption DEF PumpsKept, PumpsInv, PumpsOK
  <2>2. /\ pump' \in [Feed -> {"none", "running", "done"}]
        /\ alive' \subseteq Feed /\ listed' \subseteq Feed /\ phase' = "jobs"
        /\ yielded' \in [Feed -> 0 .. MaxYield]
    BY DEF PumpsKept, PumpsInv, PumpsOK
  <2>3. at' \in [Feed -> 0 .. MaxYield]
    BY OffIsLost, FeedsAssumption DEF PumpsKept, PumpsInv, PumpsOK
  <2> QED BY <2>1, <2>2, <2>3 DEF PumpsOK
<1>2. ASSUME NEW s \in Feed PROVE Prefixed(onRail'[s], at'[s], LostLines(s)')
  <2>1. onRail[s] \in SUBSET Nat /\ at[s] \in Nat /\ Prefixed(onRail[s], at[s], LostLines(s))
    BY FeedsAssumption DEF PumpsInv, PumpsOK
  <2>2. LostLines(s)' = LostLines(s)
    BY DEF PumpsKept, LostLines, ScrolledOff
  <2>3. CASE s \in late
    <3>1. at'[s] = 0 /\ onRail'[s] = onRail[s] \cup {at[s] + 1}
      BY <2>3 DEF PumpsKept
    <3> QED BY <2>1, <2>2, <3>1, NextIsPrefixed
  <2>4. CASE s \notin late
    <3>1. at'[s] \in {0, Off(s), at[s]} /\ onRail'[s] = onRail[s]
      BY <2>4 DEF PumpsKept
    <3>2. Off(s) \in Nat /\ \A k \in Nat \ {0} : k <= Off(s) => k \in LostLines(s)
      BY OffIsLost, FeedsAssumption DEF PumpsInv
    <3>3. Prefixed(onRail[s], Off(s), LostLines(s))
      BY <2>1, <3>2, LostIsPrefixed
    <3> QED BY <2>1, <2>2, <3>1, <3>3, NextIsPrefixed
  <2> QED BY <2>3, <2>4
<1> QED BY <1>1, <1>2 DEF PumpsInv

LEMMA PumpsStep == ASSUME PumpsInv, [FeedsNext]_feedVars PROVE PumpsInv'
<1>1. CASE UNCHANGED pumps
  BY <1>1 DEF pumps, PumpsInv, PumpsOK, Prefixed, LostLines, ScrolledOff
<1>2. ASSUME NEW s \in Feed, PumpPublishes(s) PROVE PumpsInv'
  <2>1. onRail[s] \in SUBSET Nat /\ at[s] \in Nat /\ Prefixed(onRail[s], at[s], LostLines(s))
    BY FeedsAssumption DEF PumpsInv, PumpsOK
  <2>2. /\ at' = [at EXCEPT ![s] = at[s] + 1]
        /\ onRail' = [onRail EXCEPT ![s] = onRail[s] \cup {at[s] + 1}]
        /\ at[s] < yielded[s] /\ UNCHANGED <<alive, yielded, pump, phase, listed>>
    BY <1>2 DEF PumpPublishes
  <2>3. Prefixed(onRail[s] \cup {at[s] + 1}, at[s] + 1, LostLines(s))
    BY <2>1, NextIsPrefixed
  <2>4. PumpsOK'
    BY <2>1, <2>2, FeedsAssumption DEF PumpsInv, PumpsOK
  <2>5. \A t \in Feed : LostLines(t)' = LostLines(t)
    BY <2>2 DEF LostLines, ScrolledOff
  <2>6. \A t \in Feed : Prefixed(onRail'[t], at'[t], LostLines(t)')
    BY <2>2, <2>3, <2>5 DEF PumpsInv, PumpsOK
  <2> QED BY <2>4, <2>6 DEF PumpsInv
<1>3. ASSUME UNCHANGED <<yielded, at, onRail>>, PumpsOK' PROVE PumpsInv'
  <2>1. \A t \in Feed : LostLines(t)' = LostLines(t)
    BY <1>3 DEF LostLines, ScrolledOff
  <2> QED BY <1>3, <2>1 DEF PumpsInv
<1>4. ASSUME NEW s \in Feed, Yield(s) PROVE PumpsInv'
  <2>1. PumpsOK' /\ UNCHANGED <<at, onRail>>
    BY <1>4, FeedsAssumption DEF Yield, PumpsInv, PumpsOK
  <2>2. ASSUME NEW t \in Feed PROVE Prefixed(onRail'[t], at'[t], LostLines(t)')
    <3>1. yielded'[t] \in Nat /\ yielded'[t] >= yielded[t]
      BY <1>4, FeedsAssumption DEF Yield, PumpsInv, PumpsOK
    <3>2. LostLines(t) \subseteq LostLines(t)'
      BY <3>1, LinesStayLost DEF PumpsInv
    <3>3. onRail[t] \in SUBSET Nat /\ at[t] \in Nat /\ Prefixed(onRail[t], at[t], LostLines(t))
      BY FeedsAssumption DEF PumpsInv, PumpsOK
    <3>4. Prefixed(onRail[t], at[t], LostLines(t)')
      BY <3>2, <3>3 DEF Prefixed
    <3> QED BY <2>1, <3>4
  <2> QED BY <2>1, <2>2 DEF PumpsInv
<1>5. ASSUME NEW s \in Feed, SessionEnds(s) \/ PumpFails(s) \/ PumpEnds(s) PROVE PumpsInv'
  <2>1. PumpsOK' /\ UNCHANGED <<yielded, at, onRail>>
    BY <1>5 DEF SessionEnds, PumpFails, PumpEnds, PumpsInv, PumpsOK
  <2> QED BY <1>3, <2>1
<1>6. CASE Lists \/ ListsNothing \/ Wakes \/ RoundEnds \/ \E j \in Job : JobPublishFails(j)
  <2>1. PumpsOK' /\ UNCHANGED <<yielded, at, onRail>>
    BY <1>6 DEF Lists, ListsNothing, Wakes, RoundEnds, JobPublishFails, PumpsInv, PumpsOK
  <2> QED BY <1>3, <2>1
<1>7. CASE \/ ArchiveNext \/ UNCHANGED feedVars \/ \E j \in Job : JobLooked(j)
           \/ \E j \in Job, v \in Status : JobChanges(j, v)
  <2>1. UNCHANGED pumps
    BY <1>7 DEF ArchiveNext, WalkStarts, WalkStep, NewGeneration, Append1, JobLooked, JobChanges, feedVars
  <2> QED BY <1>1, <2>1
<1>8. CASE \E late \in SUBSET Feed : PumpsKept(late)
  BY <1>8, RoundKeepsPumps
<1>9. ASSUME NEW s \in Feed, PumpSkips(s) PROVE PumpsInv'
  <2>1. at' = [at EXCEPT ![s] = Off(s)] /\ UNCHANGED <<alive, yielded, pump, onRail, phase, listed>>
    BY <1>9 DEF PumpSkips
  <2>2. Off(s) \in 0 .. MaxYield /\ \A k \in Nat \ {0} : k <= Off(s) => k \in LostLines(s)
    BY OffIsLost DEF PumpsInv
  <2>3. onRail[s] \in SUBSET Nat /\ at[s] \in Nat /\ Prefixed(onRail[s], at[s], LostLines(s)) /\ Off(s) \in Nat
    BY <2>2, FeedsAssumption DEF PumpsInv, PumpsOK
  <2>4. Prefixed(onRail[s], Off(s), LostLines(s))
    BY <2>2, <2>3, LostIsPrefixed
  <2>5. \A t \in Feed : LostLines(t)' = LostLines(t)
    BY <2>1 DEF LostLines, ScrolledOff
  <2>6. \A t \in Feed : Prefixed(onRail'[t], at'[t], LostLines(t)')
    BY <2>1, <2>4, <2>5 DEF PumpsInv, PumpsOK
  <2>7. PumpsOK'
    BY <2>1, <2>2 DEF PumpsInv, PumpsOK
  <2> QED BY <2>6, <2>7 DEF PumpsInv
<1> HIDE DEF PumpsInv
<1> QED
  BY <1>2, <1>4, <1>5, <1>6, <1>7, <1>8, <1>9, Zenon DEF FeedsNext, SuperviseNext, PumpNext

LEMMA NothingLeft == DOMAIN << >> = {}
  OBVIOUS

LEMMA JobsStep == ASSUME JobsOK, [FeedsNext]_feedVars PROVE JobsOK'
<1>1. CASE UNCHANGED jobs
  BY <1>1 DEF jobs, JobsOK
<1>2. CASE \E late \in SUBSET Feed : PumpsKept(late)
  BY <1>2 DEF PumpsKept, JobsOK
<1>3. ASSUME NEW j \in Job, JobLooked(j) \/ JobPublishFails(j) PROVE JobsOK'
  <2>1. j \in DOMAIN batch /\ batch[j] \in Status
    BY <1>3 DEF JobLooked, JobPublishFails, JobsOK
  <2>2. /\ signature' \in {signature, [signature EXCEPT ![j] = batch[j]]}
        /\ announced' \in {announced, [announced EXCEPT ![j] = batch[j]]}
        /\ status' = status
    BY <1>3 DEF JobLooked, JobPublishFails
  <2>3. batch' = [k \in DOMAIN batch \ {j} |-> batch[k]] \/ batch' = << >>
    BY <1>3 DEF JobLooked, JobPublishFails
  <2>4. DOMAIN batch' \subseteq Job /\ \A k \in DOMAIN batch' : batch'[k] \in Status
    BY <2>3, NothingLeft DEF JobsOK
  <2> QED BY <2>1, <2>2, <2>4 DEF JobsOK
<1>4. CASE RoundEnds
  BY <1>4, NothingLeft DEF RoundEnds, JobsOK
<1>5. ASSUME NEW j \in Job, NEW v \in Status, JobChanges(j, v) PROVE JobsOK'
  BY <1>5 DEF JobChanges, JobsOK
<1>6. CASE \/ ArchiveNext \/ Lists \/ ListsNothing \/ Wakes \/ UNCHANGED feedVars
           \/ \E s \in Feed : PumpNext(s) \/ PumpSkips(s) \/ PumpFails(s) \/ Yield(s) \/ SessionEnds(s)
  <2>1. UNCHANGED jobs
    BY <1>6 DEF ArchiveNext, WalkStarts, WalkStep, NewGeneration, Append1, Lists, ListsNothing,
       Wakes, PumpNext, PumpPublishes, PumpSkips, PumpEnds, PumpFails, Yield, SessionEnds, feedVars
  <2> QED BY <1>1, <2>1
<1> QED BY <1>2, <1>3, <1>4, <1>5, <1>6 DEF FeedsNext, SuperviseNext

-----------------------------------------------------------------------------
(* The archive and a walk back through it. *)

ArchiveOK ==
    /\ archive \in Seq(Nat \ {0}) /\ Len(archive) <= ArchiveCap
    /\ seq \in Nat /\ generation \in Nat
    /\ walk \in [state : {"idle", "walking", "ended"}, before : Nat, got : SUBSET Nat,
                 twice : BOOLEAN, in : Nat]
    /\ kept \subseteq Range(archive)

\* Before a restart the rows are numbered up to the last number given, so a row
\* appended during a walk is none of those the walk must find.  The walk has
\* every one of them from the oldest row it has on, and nothing older than that.
WalkOK ==
    /\ \A r \in Range(archive) : r <= seq
    /\ ~walk.twice
    /\ walk.before = 0 => walk.got = {}
    /\ \A g \in walk.got : g >= walk.before
    /\ \A r \in kept : walk.before # 0 /\ r >= walk.before => r \in walk.got
    /\ walk.state = "idle" => walk.before = 0
    /\ walk.state = "ended" => kept \subseteq walk.got

ArchiveInv == ArchiveOK /\ (generation = 0 => WalkOK)

\* Trimming keeps the newest rows and adds none.
LEMMA TrimmedRows ==
  ASSUME NEW s \in Seq(Nat \ {0}), NEW n \in Nat \ {0}
  PROVE  /\ LastOf(s, n) \in Seq(Nat \ {0}) /\ Len(LastOf(s, n)) <= n
         /\ Range(LastOf(s, n)) \subseteq Range(s)
<1>1. CASE Len(s) <= n
  BY <1>1 DEF LastOf
<1>2. CASE ~(Len(s) <= n)
  <2> DEFINE m == Len(s) - n + 1
             t == SubSeq(s, m, Len(s))
  <2>1. m \in 1 .. Len(s) + 1 /\ Len(s) \in m - 1 .. Len(s) /\ m \in Nat /\ Len(s) \in Nat
    BY <1>2
  <2>2. /\ t \in Seq(Nat \ {0}) /\ Len(t) = n
        /\ \A i \in 1 .. n : t[i] = s[m + i - 1]
    BY <2>1, SubSeqProperties
  <2>3. \A i \in 1 .. n : m + i - 1 \in DOMAIN s
    BY <2>1
  <2>4. Range(t) \subseteq Range(s)
    <3> HIDE DEF t, m
    <3> QED BY <2>2, <2>3 DEF Range
  <2> QED BY <1>2, <2>2, <2>4 DEF LastOf
<1> QED BY <1>1, <1>2

\* A set of row numbers that is not empty has an oldest and a newest one.
LEMMA OldestAndNewest ==
  ASSUME NEW S, IsFiniteSet(S), S \subseteq Nat, S # {}
  PROVE  (\E m \in S : \A r \in S : m <= r) /\ (\E m \in S : \A r \in S : r <= m)
<1> DEFINE Ends(T) == (\E m \in T : \A r \in T : m <= r) /\ (\E m \in T : \A r \in T : r <= m)
           F == {T \in SUBSET S : T # {} /\ ~Ends(T)}
<1> SUFFICES ASSUME F # {} PROVE FALSE
  OBVIOUS
<1>1. F \subseteq SUBSET S
  OBVIOUS
<1>2. F \subseteq FiniteSubsetsOf(S)
  BY <1>1, FS_Subset, Zenon DEF FiniteSubsetsOf
<1>3. PICK T \in F : \A U \in F : ~(<<U, T>> \in StrictSubsetOrdering(S))
  <2> HIDE DEF F
  <2> QED BY <1>2, FS_StrictSubsetOrderingWellFounded, WFMin, Zenon
<1>4. PICK x \in T : x \in Nat
  OBVIOUS
<1> DEFINE U == T \ {x}
<1>5. U \notin F
  BY <1>1, <1>3, <1>4 DEF StrictSubsetOrdering
<1>6. CASE U = {}
  <2>1. T = {x}
    BY <1>4, <1>6
  <2> QED BY <1>4, <2>1
<1>7. CASE U # {}
  <2>1. Ends(U)
    BY <1>5, <1>7
  <2>2. PICK a \in U, b \in U : \A r \in U : a <= r /\ r <= b
    BY <2>1
  <2>3. \A r \in T : r \in Nat /\ (r \in U \/ r = x)
    OBVIOUS
  <2>4. Ends(T)
    <3>1. CASE x <= a
      BY <1>4, <2>2, <2>3, <3>1
    <3>2. CASE a <= x /\ x <= b
      BY <1>4, <2>2, <2>3, <3>2
    <3>3. CASE b <= x
      BY <1>4, <2>2, <2>3, <3>3
    <3> QED BY <1>4, <2>2, <2>3, <3>1, <3>2, <3>3
  <2> QED BY <2>4
<1> QED BY <1>6, <1>7

LEMMA RowsAreFinite ==
  ASSUME NEW S, NEW s \in Seq(S)
  PROVE  IsFiniteSet(Range(s)) /\ Range(s) \subseteq S
<1>1. s \in Surjection(1 .. Len(s), Range(s))
  BY DEF Surjection, Range
<1>2. IsFiniteSet(1 .. Len(s))
  BY FS_Interval
<1>3. Range(s) \subseteq S
  BY DEF Range
<1> QED BY <1>1, <1>2, <1>3, FS_Surjection

\* A page is the newest part of the rows before a number: it has every row from
\* its oldest one on, and is empty only when there is none.
LEMMA PageIsNewest ==
  ASSUME NEW S, IsFiniteSet(S), S \subseteq Nat \ {0}, NEW before \in Nat
  PROVE  LET page == ReadPage(S, before)
         IN  /\ page \subseteq PageOf(S, before)
             /\ page = {} => PageOf(S, before) = {}
             /\ page # {} => /\ Min(page) \in page
                             /\ \A r \in page : Min(page) <= r
                             /\ \A r \in PageOf(S, before) : r >= Min(page) => r \in page
<1> DEFINE P == PageOf(S, before)
           page == ReadPage(S, before)
           Newer(r) == {q \in P : q > r}
<1>1. P \subseteq S /\ IsFiniteSet(P) /\ P \subseteq Nat
  BY FS_Subset DEF PageOf
<1>2. page \subseteq P /\ \A r \in P : r \in page <=> Cardinality(Newer(r)) < PageLimit
  BY DEF ReadPage
<1> HIDE DEF P, page
<1>3. IsFiniteSet(page) /\ page \subseteq Nat
  BY <1>1, <1>2, FS_Subset
<1>4. ASSUME P # {} PROVE page # {}
  <2>1. PICK m \in P : \A r \in P : r <= m
    BY <1>1, <1>4, OldestAndNewest
  <2>2. \A q \in P : ~(q > m)
    BY <1>1, <2>1
  <2>2a. Newer(m) = {}
    BY <2>2
  <2>3. Cardinality(Newer(m)) = 0
    BY <2>2a, FS_EmptySet
  <2> QED BY <1>2, <2>1, <2>3, FeedsAssumption
<1>5. ASSUME page # {}
      PROVE  /\ Min(page) \in page /\ \A r \in page : Min(page) <= r
             /\ \A r \in P : r >= Min(page) => r \in page
  <2>1. \E m \in page : \A r \in page : m <= r
    BY <1>3, <1>5, OldestAndNewest
  <2>2. Min(page) \in page /\ \A r \in page : Min(page) <= r
    BY <2>1 DEF Min
  <2>3. ASSUME NEW r \in P, r >= Min(page) PROVE r \in page
    <3> DEFINE m == Min(page)
    <3>1. m \in P /\ m \in Nat /\ r \in Nat /\ Cardinality(Newer(m)) < PageLimit
      BY <1>1, <1>2, <2>2
    <3>a. \A q \in P : q > r => q > m
      BY <1>1, <2>3, <3>1
    <3>2. Newer(r) \subseteq Newer(m)
      BY <3>a
    <3>3. IsFiniteSet(Newer(m)) /\ IsFiniteSet(Newer(r))
      BY <1>1, FS_Subset
    <3>4. Cardinality(Newer(r)) <= Cardinality(Newer(m))
      BY <3>2, <3>3, FS_Subset
    <3>5. Cardinality(Newer(r)) \in Nat /\ Cardinality(Newer(m)) \in Nat
      BY <3>3, FS_CardinalityType
    <3> QED BY <1>2, <3>1, <3>4, <3>5, FeedsAssumption
  <2> QED BY <2>2, <2>3
<1> QED BY <1>2, <1>4, <1>5 DEF P, page

\* One page of a walk.
LEMMA WalkStepKeeps == ASSUME ArchiveInv, WalkStep PROVE ArchiveInv'
<1> DEFINE S == Range(archive)
           page == ReadPage(S, walk.before)
<1>1. /\ walk.state = "walking" /\ UNCHANGED <<archive, seq, kept, generation>>
      /\ walk' = [walk EXCEPT !.state = IF page = {} THEN "ended" ELSE "walking",
                              !.before = IF page = {} THEN walk.before ELSE Min(page),
                              !.got = walk.got \cup page,
                              !.twice = walk.twice \/ page \cap walk.got # {}]
  BY DEF WalkStep
<1>2. /\ ArchiveOK /\ S \subseteq Nat \ {0} /\ walk.before \in Nat /\ walk.got \subseteq Nat
      /\ seq \in Nat
  BY DEF ArchiveInv, ArchiveOK, Range
<1>3. page \subseteq S /\ \A r \in page : walk.before = 0 \/ r < walk.before
  BY DEF ReadPage, PageOf
<1>f. IsFiniteSet(S)
  BY <1>2, RowsAreFinite DEF ArchiveOK
<1> HIDE DEF S
<1>p. /\ page = {} => PageOf(S, walk.before) = {}
      /\ page # {} => /\ Min(page) \in page
                      /\ \A r \in page : Min(page) <= r
                      /\ \A r \in PageOf(S, walk.before) : r >= Min(page) => r \in page
  BY <1>2, <1>f, PageIsNewest
<1> HIDE DEF page
<1>t. ArchiveOK'
  <2>1. page \subseteq Nat /\ (page # {} => Min(page) \in Nat)
    BY <1>2, <1>3, <1>p
  <2>2. walk' \in [state : {"idle", "walking", "ended"}, before : Nat, got : SUBSET Nat,
                   twice : BOOLEAN, in : Nat]
    BY <1>1, <1>2, <2>1 DEF ArchiveOK
  <2> QED BY <1>1, <1>2, <2>2 DEF ArchiveOK
<1>4. ASSUME generation = 0 PROVE WalkOK'
  <2>1. WalkOK
    BY <1>4 DEF ArchiveInv
  <2>4. kept \subseteq S
    BY <1>2 DEF ArchiveOK, S
  <2>5. page \cap walk.got = {}
    BY <1>2, <1>3, <2>1 DEF WalkOK
  <2>6. ~walk'.twice
    BY <1>1, <1>2, <2>1, <2>5 DEF WalkOK, ArchiveOK
  <2>7. CASE page = {}
    <3>1. walk'.before = walk.before /\ walk'.got = walk.got /\ walk'.state = "ended"
      BY <1>1, <1>2, <2>7 DEF ArchiveOK
    <3>2. \A r \in kept : walk.before # 0 /\ r >= walk.before
      BY <1>2, <1>p, <2>4, <2>7 DEF PageOf
    <3> QED BY <1>1, <2>1, <2>6, <2>7, <3>1, <3>2 DEF WalkOK
  <2>8. CASE page # {}
    <3>1. walk'.before = Min(page) /\ walk'.got = walk.got \cup page /\ walk'.state = "walking"
      BY <1>1, <1>2, <2>8 DEF ArchiveOK
    <3>2. Min(page) \in Nat \ {0} /\ (walk.before = 0 \/ Min(page) < walk.before)
      BY <1>2, <1>3, <1>p, <2>8
    <3>a. \A g \in walk.got : g >= Min(page)
      BY <1>2, <2>1, <3>2 DEF WalkOK
    <3>b. \A g \in page : g \in Nat /\ Min(page) <= g
      BY <1>2, <1>3, <1>p, <2>8
    <3>3. \A g \in walk.got \cup page : g >= Min(page)
      BY <3>2, <3>a, <3>b
    <3>4. ASSUME NEW r \in kept, r >= Min(page) PROVE r \in walk.got \cup page
      <4>1. CASE r \in PageOf(S, walk.before)
        BY <1>p, <2>8, <3>4, <4>1
      <4>2. CASE r \notin PageOf(S, walk.before)
        BY <1>2, <2>1, <2>4, <4>2 DEF PageOf, WalkOK
      <4> QED BY <4>1, <4>2
    <3>5. \A r \in Range(archive) : r <= seq
      BY <2>1 DEF WalkOK
    <3>6. /\ (\A r \in Range(archive) : r <= seq)' /\ ~(walk'.before = 0)
          /\ \A g \in walk'.got : g >= walk'.before
          /\ \A r \in kept' : r >= walk'.before => r \in walk'.got
          /\ walk'.state = "walking"
      BY <1>1, <3>1, <3>2, <3>3, <3>4, <3>5
    <3> QED BY <2>6, <3>6 DEF WalkOK
  <2> QED BY <2>7, <2>8
<1> QED BY <1>1, <1>t, <1>4 DEF ArchiveInv

\* A row appended, or lost, during a walk; the oldest rows may go.
LEMMA AppendKeeps == ASSUME ArchiveInv, NEW w \in BOOLEAN, Append1(w) PROVE ArchiveInv'
<1>1. /\ archive \in Seq(Nat \ {0}) /\ Len(archive) <= ArchiveCap /\ seq \in Nat
      /\ kept \subseteq Range(archive) /\ seq' = seq + 1 /\ kept' = kept \cap Range(archive')
      /\ UNCHANGED <<walk, generation>>
  BY DEF ArchiveInv, ArchiveOK, Append1
<1>2. /\ archive' \in Seq(Nat \ {0}) /\ Len(archive') <= ArchiveCap
      /\ Range(archive') \subseteq Range(archive) \cup {seq + 1}
  <2>1. CASE ~w
    BY <1>1, <2>1 DEF Append1
  <2>2. CASE w
    <3> DEFINE t == Append(archive, seq + 1)
    <3>1. t \in Seq(Nat \ {0})
      BY <1>1
    <3>2. Range(t) \subseteq Range(archive) \cup {seq + 1}
      BY <1>1 DEF Range
    <3>3. archive' = LastOf(t, ArchiveCap)
      BY <2>2 DEF Append1
    <3> HIDE DEF t
    <3> QED BY <3>1, <3>2, <3>3, TrimmedRows, FeedsAssumption
  <2> QED BY <2>1, <2>2
<1>3. ArchiveOK'
  BY <1>1, <1>2 DEF ArchiveInv, ArchiveOK
<1>4. ASSUME generation = 0 PROVE WalkOK'
  <2>1. WalkOK
    BY <1>4 DEF ArchiveInv
  <2>2. \A r \in Range(archive) : r \in Nat
    BY <1>1 DEF Range
  <2>3. \A r \in Range(archive') : r <= seq'
    BY <1>1, <1>2, <2>1, <2>2 DEF WalkOK
  <2>4. kept' \subseteq kept
    BY <1>1
  <2> QED BY <1>1, <2>1, <2>3, <2>4 DEF WalkOK
<1> QED BY <1>1, <1>3, <1>4 DEF ArchiveInv

LEMMA ArchiveStep == ASSUME ArchiveInv, [FeedsNext]_feedVars PROVE ArchiveInv'
<1>1. CASE UNCHANGED store
  BY <1>1 DEF store, ArchiveInv, ArchiveOK, WalkOK
<1>2. CASE WalkStarts
  <2>1. /\ walk' = [state |-> "walking", before |-> 0, got |-> {}, twice |-> FALSE, in |-> generation]
        /\ kept' = Range(archive) /\ UNCHANGED <<archive, seq, generation>>
    BY <1>2 DEF WalkStarts
  <2>2. ArchiveOK'
    BY <2>1 DEF ArchiveInv, ArchiveOK
  <2> QED BY <2>1, <2>2 DEF ArchiveInv, WalkOK
<1>3. CASE NewGeneration
  <2>1. generation' \in Nat /\ generation' # 0 /\ seq' \in Nat /\ UNCHANGED <<archive, kept, walk>>
    BY <1>3 DEF NewGeneration, ArchiveInv, ArchiveOK
  <2> QED BY <2>1 DEF ArchiveInv, ArchiveOK
<1>4. CASE \/ SuperviseNext \/ UNCHANGED feedVars
           \/ \E s \in Feed : PumpNext(s) \/ PumpSkips(s) \/ PumpFails(s) \/ Yield(s) \/ SessionEnds(s)
           \/ \E j \in Job, v \in Status : JobChanges(j, v)
  <2>1. UNCHANGED store
    BY <1>4 DEF SuperviseNext, Lists, ListsNothing, RoundEnds, Wakes, PumpsKept, JobLooked,
       JobPublishFails, PumpNext, PumpPublishes, PumpSkips, PumpEnds, PumpFails, Yield, SessionEnds,
       JobChanges, feedVars
  <2> QED BY <1>1, <2>1
<1> QED BY <1>2, <1>3, <1>4, WalkStepKeeps, AppendKeeps DEF FeedsNext, ArchiveNext

FeedsInv == PumpsInv /\ JobsOK /\ ArchiveInv

LEMMA FeedsStart == FeedsInit => FeedsInv
<1> SUFFICES ASSUME FeedsInit PROVE FeedsInv
  OBVIOUS
<1>1. PumpsInv
  <2>1. PumpsOK
    <3>1. 0 \in 0 .. MaxYield
      BY FeedsAssumption
    <3>2. yielded \in [Feed -> 0 .. MaxYield] /\ at \in [Feed -> 0 .. MaxYield]
      BY <3>1 DEF FeedsInit
    <3>3. /\ pump \in [Feed -> {"none", "running", "done"}] /\ onRail \in [Feed -> SUBSET Nat]
          /\ alive \subseteq Feed /\ listed \subseteq Feed /\ phase = "list"
      BY DEF FeedsInit
    <3> QED BY <3>2, <3>3 DEF PumpsOK
  <2>2. \A s \in Feed : onRail[s] = {} /\ at[s] = 0
    BY DEF FeedsInit
  <2>3. \A s \in Feed : Prefixed({}, 0, LostLines(s))
    BY DEF Prefixed
  <2> QED BY <2>1, <2>2, <2>3 DEF PumpsInv
<1>2. JobsOK
  BY NothingLeft DEF FeedsInit, JobsOK
<1>3. ArchiveInv
  <2>1. /\ archive = << >> /\ seq = 0 /\ kept = {} /\ generation = 0
        /\ walk = [state |-> "idle", before |-> 0, got |-> {}, twice |-> FALSE, in |-> 0]
    BY DEF FeedsInit
  <2>2. Range(archive) = {}
    BY <2>1, NothingLeft DEF Range
  <2>3. archive \in Seq(Nat \ {0}) /\ Len(archive) = 0 /\ 0 <= ArchiveCap
    BY <2>1, FeedsAssumption
  <2>4. ArchiveOK
    BY <2>1, <2>2, <2>3 DEF ArchiveOK
  <2> QED BY <2>1, <2>2, <2>4 DEF ArchiveInv, WalkOK
<1> QED BY <1>1, <1>2, <1>3 DEF FeedsInv

LEMMA FeedsInvIsWhole == ASSUME FeedsInv PROVE FeedsAreWhole
<1>1. FeedsTypeOK
  BY DEF FeedsInv, PumpsInv, PumpsOK, JobsOK, ArchiveInv, ArchiveOK, FeedsTypeOK
<1>2. RailHasNoHoles
  BY FeedsAssumption DEF FeedsInv, PumpsInv, Prefixed, LostLines, RailHasNoHoles
<1>3. WalkIsComplete
  BY DEF FeedsInv, ArchiveInv, WalkOK, WalkIsComplete
<1> QED BY <1>1, <1>2, <1>3 DEF FeedsAreWhole

\* The rail holds a prefix of every session's events, although publishes fail,
\* listings miss sessions and pumps are cancelled with a publish under way and
\* start again from the beginning (_supervise_session_activity); of a session
\* that is read from the screen it lacks at most lines that have left the screen;
\* and a finished walk back through an archive that is appended to and trimmed
\* meanwhile has every row that was there all the time, each once
\* (SessionEventStore.read_page).
THEOREM FeedsStayWhole == FeedsSpec => []FeedsAreWhole
<1>1. FeedsInv /\ [FeedsNext]_feedVars => FeedsInv'
  BY PumpsStep, JobsStep, ArchiveStep DEF FeedsInv
<1> QED BY FeedsStart, <1>1, FeedsInvIsWhole, PTL DEF FeedsSpec

-----------------------------------------------------------------------------
(* Rows in order. *)

\* A strict total order on a set.
Orders(ranking, S) ==
    /\ \A x \in S : <<x, x>> \notin ranking
    /\ \A x, y, z \in S : <<x, y>> \in ranking /\ <<y, z>> \in ranking => <<x, z>> \in ranking
    /\ \A x, y \in S : x # y => <<x, y>> \in ranking \/ <<y, x>> \in ranking

\* Whoever comes later has a higher rank.
LEMMA RanksGrow ==
  ASSUME NEW S, IsFiniteSet(S), NEW ranking, Orders(ranking, S)
  PROVE  /\ \A x \in S : RankIn(S, ranking, x) \in 0 .. Cardinality(S) - 1
         /\ \A x, y \in S : <<x, y>> \in ranking => RankIn(S, ranking, x) < RankIn(S, ranking, y)
         /\ \A x, y \in S : RankIn(S, ranking, x) < RankIn(S, ranking, y) => <<x, y>> \in ranking
         /\ \A x, y \in S : RankIn(S, ranking, x) = RankIn(S, ranking, y) => x = y
<1> DEFINE Below(x) == {y \in S : <<y, x>> \in ranking}
<1>1. \A x : IsFiniteSet(Below(x)) /\ Cardinality(Below(x)) \in Nat
  <2> TAKE x
  <2>1. Below(x) \subseteq S
    OBVIOUS
  <2> QED BY <2>1, FS_Subset, FS_CardinalityType
<1>2. \A x : RankIn(S, ranking, x) = Cardinality(Below(x))
  BY DEF RankIn
<1>3. ASSUME NEW x \in S, NEW T \in SUBSET S, Below(x) \subseteq T, x \in T
      PROVE  Cardinality(Below(x)) < Cardinality(T)
  <2>1. IsFiniteSet(T) /\ Cardinality(T) \in Nat
    BY FS_Subset, FS_CardinalityType
  <2>2. x \notin Below(x)
    BY DEF Orders
  <2>3. Cardinality(Below(x)) <= Cardinality(T) /\ Cardinality(T) # Cardinality(Below(x))
    BY <1>3, <2>1, <2>2, FS_Subset
  <2>4. Cardinality(Below(x)) \in Nat
    BY <1>1
  <2> HIDE DEF Below
  <2> QED BY <2>1, <2>3, <2>4
<1>4. \A x \in S : RankIn(S, ranking, x) \in 0 .. Cardinality(S) - 1
  <2> TAKE x \in S
  <2>1. Below(x) \subseteq S
    OBVIOUS
  <2>2. Cardinality(Below(x)) < Cardinality(S)
    BY <1>3, <2>1
  <2>3. Cardinality(S) \in Nat
    BY FS_CardinalityType
  <2> QED BY <1>1, <1>2, <2>2, <2>3
<1>5. ASSUME NEW x \in S, NEW y \in S, <<x, y>> \in ranking
      PROVE  RankIn(S, ranking, x) < RankIn(S, ranking, y)
  <2>1. Below(x) \subseteq Below(y) /\ x \in Below(y) /\ Below(y) \subseteq S
    BY <1>5 DEF Orders
  <2>2. Cardinality(Below(x)) < Cardinality(Below(y))
    BY <1>3, <2>1
  <2> QED BY <1>2, <2>2
<1>6. ASSUME NEW x \in S, NEW y \in S PROVE RankIn(S, ranking, x) \in Nat /\ RankIn(S, ranking, y) \in Nat
  BY <1>1, <1>2
<1>7. \A x, y \in S : x = y \/ <<x, y>> \in ranking \/ <<y, x>> \in ranking
  BY DEF Orders
<1>8. ASSUME NEW x \in S, NEW y \in S, RankIn(S, ranking, x) < RankIn(S, ranking, y) PROVE <<x, y>> \in ranking
  <2>1. ~(x = y) /\ ~(<<y, x>> \in ranking)
    <3>1. <<y, x>> \in ranking => RankIn(S, ranking, y) < RankIn(S, ranking, x)
      BY <1>5
    <3>2. RankIn(S, ranking, x) \in Nat /\ RankIn(S, ranking, y) \in Nat
      BY <1>6
    <3> QED BY <1>8, <3>1, <3>2
  <2> QED BY <1>7, <2>1
<1>9. ASSUME NEW x \in S, NEW y \in S, RankIn(S, ranking, x) = RankIn(S, ranking, y) PROVE x = y
  <2>1. /\ <<y, x>> \in ranking => RankIn(S, ranking, y) < RankIn(S, ranking, x)
        /\ <<x, y>> \in ranking => RankIn(S, ranking, x) < RankIn(S, ranking, y)
    BY <1>5
  <2>2. RankIn(S, ranking, x) \in Nat /\ RankIn(S, ranking, y) \in Nat
    BY <1>6
  <2>3. ~(<<y, x>> \in ranking) /\ ~(<<x, y>> \in ranking)
    BY <1>9, <2>1, <2>2
  <2> QED BY <1>7, <2>3
<1> QED BY <1>4, <1>5, <1>8, <1>9

\* Every rank below the number of members is somebody's.
LEMMA RanksAreTaken ==
  ASSUME NEW S, IsFiniteSet(S), NEW ranking, Orders(ranking, S), NEW i \in 0 .. Cardinality(S) - 1
  PROVE  \E x \in S : RankIn(S, ranking, x) = i
<1> DEFINE N == 0 .. Cardinality(S) - 1
           f == [x \in S |-> RankIn(S, ranking, x)]
<1>1. Cardinality(S) \in Nat
  BY FS_CardinalityType
<1>2. IsFiniteSet(N) /\ Cardinality(N) = Cardinality(S)
  BY <1>1, FS_Interval
<1>3. f \in Injection(S, N)
  <2>1. \A x \in S : RankIn(S, ranking, x) \in N
    BY RanksGrow
  <2>2. \A x, y \in S : RankIn(S, ranking, x) = RankIn(S, ranking, y) => x = y
    BY RanksGrow
  <2> HIDE DEF N
  <2>3. f \in [S -> N] /\ \A x, y \in S : f[x] = f[y] => x = y
    BY <2>1, <2>2
  <2> QED BY <2>3 DEF Injection, IsInjective
<1>4. f \in Surjection(S, N)
  <2> HIDE DEF f, N
  <2> QED BY <1>2, <1>3, FS_Injection
<1> QED BY <1>4 DEF Surjection

\* InOrder lists every member once, in the order of the relation.
LEMMA ListedInOrder ==
  ASSUME NEW S, IsFiniteSet(S), NEW ranking, Orders(ranking, S)
  PROVE  /\ InOrder(S, ranking) \in Seq(S) /\ Len(InOrder(S, ranking)) = Cardinality(S)
         /\ Range(InOrder(S, ranking)) = S
         /\ \A i, j \in 1 .. Cardinality(S) :
               i < j => <<InOrder(S, ranking)[i], InOrder(S, ranking)[j]>> \in ranking
<1> DEFINE q == InOrder(S, ranking)
           R(x) == RankIn(S, ranking, x)
           n == Cardinality(S)
<1>1. n \in Nat
  BY FS_CardinalityType
<1>2. \A i \in 1 .. n : q[i] \in S /\ R(q[i]) = i - 1
  <2> TAKE i \in 1 .. n
  <2>1. i - 1 \in 0 .. n - 1
    BY <1>1
  <2>2. \E x \in S : R(x) = i - 1
    BY <2>1, RanksAreTaken
  <2>3. q[i] = CHOOSE x \in S : R(x) = i - 1
    BY DEF InOrder
  <2> QED BY <2>2, <2>3
<1>3. DOMAIN q = 1 .. n
  BY DEF InOrder
<1>4. q \in [1 .. n -> S]
  BY <1>2 DEF InOrder
<1> HIDE DEF q, n
<1>5. q \in Seq(S) /\ Len(q) = n
  BY <1>1, <1>4
<1>6. S \subseteq Range(q)
  <2> SUFFICES ASSUME NEW x \in S PROVE x \in Range(q)
    OBVIOUS
  <2>1. R(x) \in 0 .. n - 1
    BY RanksGrow DEF n
  <2> DEFINE i == R(x) + 1
  <2>2. i \in 1 .. n /\ i - 1 = R(x)
    BY <1>1, <2>1
  <2>3. R(q[i]) = R(x) /\ q[i] \in S
    BY <1>2, <2>2
  <2>4. q[i] = x
    BY <2>3, RanksGrow
  <2> QED BY <1>3, <2>2, <2>4 DEF Range
<1>7. Range(q) \subseteq S
  BY <1>2, <1>3 DEF Range
<1>8. ASSUME NEW i \in 1 .. n, NEW j \in 1 .. n, i < j PROVE <<q[i], q[j]>> \in ranking
  <2>1. R(q[i]) < R(q[j]) /\ q[i] \in S /\ q[j] \in S
    BY <1>1, <1>2, <1>8
  <2> QED BY <2>1, RanksGrow
<1> QED BY <1>5, <1>6, <1>7, <1>8 DEF q, n

\* FirstIn lists the first members: whoever comes before one of them is among
\* them, and somebody is when there is anybody.
LEMMA FirstAreListed ==
  ASSUME NEW S, IsFiniteSet(S), NEW ranking, Orders(ranking, S), NEW k \in Nat \ {0}
  PROVE  LET q == FirstIn(S, ranking, k)
         IN  /\ q \in Seq(S) /\ Range(q) \subseteq S
             /\ \A i, j \in DOMAIN q : i < j => <<q[i], q[j]>> \in ranking
             /\ \A x \in S, y \in Range(q) : <<x, y>> \in ranking => x \in Range(q)
             /\ S # {} => q # << >>
<1> DEFINE T == {x \in S : RankIn(S, ranking, x) < k}
           q == InOrder(T, ranking)
<1>1. T \subseteq S /\ IsFiniteSet(T)
  BY FS_Subset
<1>2. Orders(ranking, T)
  BY <1>1 DEF Orders
<1>3. FirstIn(S, ranking, k) = q
  BY DEF FirstIn
<1>4. \A x \in T, y \in S : <<y, x>> \in ranking => y \in T
  <2> SUFFICES ASSUME NEW x \in T, NEW y \in S, <<y, x>> \in ranking PROVE y \in T
    OBVIOUS
  <2>1. RankIn(S, ranking, y) < RankIn(S, ranking, x) /\ RankIn(S, ranking, x) < k
    BY RanksGrow
  <2>2. RankIn(S, ranking, y) \in Nat /\ RankIn(S, ranking, x) \in Nat
    <3>1. Cardinality(S) \in Nat
      BY FS_CardinalityType
    <3> QED BY <3>1, RanksGrow
  <2> QED BY <2>1, <2>2
<1>5. ASSUME S # {} PROVE T # {}
  <2>1. Cardinality(S) \in Nat /\ Cardinality(S) # 0
    BY <1>5, FS_CardinalityType, FS_EmptySet
  <2>2. PICK x \in S : RankIn(S, ranking, x) = 0
    BY <2>1, RanksAreTaken
  <2> QED BY <2>2
<1> HIDE DEF T
<1>6. /\ q \in Seq(T) /\ Len(q) = Cardinality(T) /\ Range(q) = T
      /\ \A i, j \in 1 .. Cardinality(T) : i < j => <<q[i], q[j]>> \in ranking
  BY <1>1, <1>2, ListedInOrder
<1> HIDE DEF q
<1>7. q \in Seq(S) /\ DOMAIN q = 1 .. Cardinality(T)
  BY <1>1, <1>6
<1>8. T # {} => q # << >>
  BY <1>6, NothingLeft DEF Range
<1> QED BY <1>1, <1>3, <1>4, <1>5, <1>6, <1>7, <1>8

-----------------------------------------------------------------------------
(* The journal of a node. *)

Sorted(rs) == \A i, j \in DOMAIN rs : i < j => rs[i].cursor < rs[j].cursor
Timed(rs) == \A i, j \in DOMAIN rs : i < j => rs[i].at <= rs[j].at

\* The last cursor a node has given: in its head file or in its last row.
Top(n) == IF head[n] > Newest(n) THEN head[n] ELSE Newest(n)

RailShape ==
    /\ rows \in [Node -> Seq(EventOf)] /\ acked \in [Node -> Seq(EventOf)]
    /\ torn \in [Node -> BOOLEAN] /\ head \in [Node -> Nat] /\ clock \in Nat
    /\ floor \in [Node -> Nat]

\* Rows are ordered by cursor and by time, and no cursor given out is above the top.
NodeOK(n) ==
    /\ Sorted(rows[n]) /\ Timed(rows[n]) /\ \A e \in Range(rows[n]) : e.at <= clock
    /\ Sorted(acked[n]) /\ \A e \in Range(acked[n]) : e.cursor <= Top(n)
    /\ \A e \in Range(acked[n]) : \/ e \in Range(rows[n])
                                   \/ <<n, e.cursor>> \in lost
                                   \/ e.cursor < RetainedFrom(n)
    /\ floor[n] <= Top(n)

JournalInv == RailShape /\ \A n \in Node : NodeOK(n)

LEMMA EventsAreTyped ==
  ASSUME NEW rs \in Seq(EventOf)
  PROVE  /\ \A i \in DOMAIN rs : /\ rs[i] \in EventOf /\ rs[i].cursor \in Nat \ {0}
                                /\ rs[i].at \in Nat
         /\ \A e \in Range(rs) : e \in EventOf /\ e.cursor \in Nat \ {0} /\ e.at \in Nat
<1>1. \A i \in DOMAIN rs : rs[i] \in EventOf
  OBVIOUS
<1>2. \A e \in EventOf : e.cursor \in Nat \ {0} /\ e.at \in Nat
  BY DEF EventOf
<1> QED BY <1>1, <1>2 DEF Range

\* A non-empty sorted file starts with its least cursor and ends with its largest.
LEMMA EndsOfSorted ==
  ASSUME NEW rs \in Seq(EventOf), Sorted(rs), rs # << >>
  PROVE  /\ Head(rs) \in Range(rs) /\ Last(rs) \in Range(rs)
         /\ \A e \in Range(rs) : Head(rs).cursor <= e.cursor /\ e.cursor <= Last(rs).cursor
         /\ Head(rs) = rs[1] /\ Last(rs) = rs[Len(rs)] /\ Len(rs) \in Nat \ {0}
<1>1. Len(rs) \in Nat \ {0} /\ DOMAIN rs = 1 .. Len(rs)
  OBVIOUS
<1>2. Head(rs) = rs[1] /\ Last(rs) = rs[Len(rs)]
  BY <1>1 DEF Last
<1>3. 1 \in DOMAIN rs /\ Len(rs) \in DOMAIN rs
  BY <1>1
<1>4. \A i \in DOMAIN rs : rs[i].cursor \in Nat
  BY EventsAreTyped
<1>5. \A i \in DOMAIN rs : rs[1].cursor <= rs[i].cursor /\ rs[i].cursor <= rs[Len(rs)].cursor
  <2> TAKE i \in DOMAIN rs
  <2>1. i = 1 \/ 1 < i
    BY <1>1
  <2>2. i = Len(rs) \/ i < Len(rs)
    BY <1>1
  <2> QED BY <1>3, <1>4, <2>1, <2>2 DEF Sorted
<1> QED BY <1>1, <1>2, <1>3, <1>5 DEF Range

LEMMA TopFacts ==
  ASSUME RailShape, NEW n \in Node, Sorted(rows[n])
  PROVE  /\ Newest(n) \in Nat /\ Top(n) \in Nat /\ Top(n) >= head[n] /\ Top(n) >= Newest(n)
         /\ NextCursor(n) = Top(n) + 1
         /\ RetainedFrom(n) \in Nat /\ RetainedFrom(n) <= Top(n) + 1
         /\ \A e \in Range(rows[n]) : e.cursor <= Top(n) /\ RetainedFrom(n) <= e.cursor
         /\ rows[n] = << >> => RetainedFrom(n) = Top(n) + 1
<1>1. rows[n] \in Seq(EventOf) /\ head[n] \in Nat
  BY DEF RailShape
<1>2. \A e \in Range(rows[n]) : e.cursor \in Nat
  BY <1>1, EventsAreTyped
<1>3. NextCursor(n) = Top(n) + 1
  BY DEF NextCursor, Top
<1>4. CASE rows[n] = << >>
  <2>1. Newest(n) = 0 /\ RetainedFrom(n) = Top(n) + 1
    BY <1>4 DEF Newest, RetainedFrom, Top
  <2>2. Range(rows[n]) = {}
    BY <1>4, NothingLeft DEF Range
  <2>3. Top(n) \in Nat /\ Top(n) >= head[n] /\ Top(n) >= Newest(n)
    BY <1>1, <2>1 DEF Top
  <2> QED BY <1>3, <2>1, <2>2, <2>3
<1>5. CASE rows[n] # << >>
  <2>1. Newest(n) = Last(rows[n]).cursor /\ RetainedFrom(n) = Head(rows[n]).cursor
    BY <1>5 DEF Newest, RetainedFrom
  <2>2. /\ Head(rows[n]) \in Range(rows[n]) /\ Last(rows[n]) \in Range(rows[n])
        /\ \A e \in Range(rows[n]) : RetainedFrom(n) <= e.cursor /\ e.cursor <= Newest(n)
    BY <1>1, <1>5, <2>1, EndsOfSorted
  <2>3. Newest(n) \in Nat /\ RetainedFrom(n) \in Nat /\ RetainedFrom(n) <= Newest(n)
    BY <1>2, <2>1, <2>2
  <2>4. Top(n) \in Nat /\ Top(n) >= head[n] /\ Top(n) >= Newest(n)
    BY <1>1, <2>3 DEF Top
  <2>5. \A e \in Range(rows[n]) : e.cursor <= Top(n)
    BY <1>2, <2>2, <2>3, <2>4
  <2>6. RetainedFrom(n) <= Top(n) + 1
    BY <2>3, <2>4
  <2> QED BY <1>3, <1>5, <2>2, <2>3, <2>4, <2>5, <2>6
<1> QED BY <1>4, <1>5

\* The file after an append and perhaps a trim: the rows from the m-th on and v.
Extends(rs, v, rs2, m) ==
    /\ rs2 \in Seq(EventOf) /\ m \in 1 .. Len(rs) + 1 /\ Len(rs2) = Len(rs) + 2 - m
    /\ \A i \in 1 .. Len(rs2) : rs2[i] = IF m + i - 1 = Len(rs) + 1 THEN v ELSE rs[m + i - 1]

LEMMA AppendExtends ==
  ASSUME NEW rs \in Seq(EventOf), NEW v \in EventOf
  PROVE  /\ Extends(rs, v, Append(rs, v), 1)
         /\ \E m \in 1 .. Len(rs) + 1 : Extends(rs, v, Trimmed(Append(rs, v)), m)
<1> DEFINE t == Append(rs, v)
<1>1. /\ t \in Seq(EventOf) /\ Len(t) = Len(rs) + 1 /\ Len(rs) \in Nat
      /\ \A i \in 1 .. Len(t) : t[i] = IF i = Len(rs) + 1 THEN v ELSE rs[i]
  OBVIOUS
<1> HIDE DEF t
<1>2. Extends(rs, v, t, 1)
  BY <1>1 DEF Extends
<1>3. CASE ~(Len(t) > Retain)
  BY <1>1, <1>2, <1>3 DEF Trimmed, t
<1>4. CASE Len(t) > Retain
  <2> DEFINE m == Len(t) - Retain + 1
             u == SubSeq(t, m, Len(t))
  <2>1. m \in 1 .. Len(rs) + 1 /\ m \in Int /\ Len(t) \in Int /\ m <= Len(t)
    BY <1>1, <1>4, RailAssumption
  <2>2. \A i \in m .. Len(t) : t[i] \in EventOf
    BY <1>1, <2>1
  <2>3. /\ u \in Seq(EventOf) /\ Len(u) = Len(t) - m + 1
        /\ \A i \in 1 .. Len(t) - m + 1 : u[i] = t[m + i - 1]
    <3> HIDE DEF m
    <3> QED BY <2>1, <2>2, SubSeqProperties
  <2>4. Trimmed(t) = u
    BY <1>4 DEF Trimmed
  <2> HIDE DEF u, m
  <2>5. Extends(rs, v, u, m)
    <3>1. Len(u) = Len(rs) + 2 - m
      BY <1>1, <2>1, <2>3
    <3>2. ASSUME NEW i \in 1 .. Len(u)
          PROVE  u[i] = IF m + i - 1 = Len(rs) + 1 THEN v ELSE rs[m + i - 1]
      <4>1. m + i - 1 \in 1 .. Len(t) /\ i \in 1 .. Len(t) - m + 1
        BY <1>1, <2>1, <2>3
      <4> QED BY <1>1, <2>3, <4>1
    <3> QED BY <2>1, <2>3, <3>1, <3>2 DEF Extends
  <2> QED BY <1>2, <2>1, <2>4, <2>5 DEF t
<1> QED BY <1>2, <1>3, <1>4 DEF t

LEMMA ExtendedFile ==
  ASSUME NEW rs \in Seq(EventOf), NEW v \in EventOf, NEW rs2, NEW m, Extends(rs, v, rs2, m),
         Sorted(rs), \A e \in Range(rs) : e.cursor < v.cursor
  PROVE  /\ rs2 \in Seq(EventOf) /\ rs2 # << >> /\ Sorted(rs2) /\ Last(rs2) = v
         /\ Range(rs2) \subseteq Range(rs) \cup {v} /\ v \in Range(rs2)
         /\ \A e \in Range(rs) : e \in Range(rs2) \/ e.cursor < Head(rs2).cursor
         /\ Timed(rs) /\ (\A e \in Range(rs) : e.at <= v.at) => Timed(rs2)
<1> DEFINE n == Len(rs)
<1>0. /\ n \in Nat /\ DOMAIN rs = 1 .. n /\ m \in 1 .. n + 1 /\ rs2 \in Seq(EventOf)
      /\ Len(rs2) = n + 2 - m
  BY DEF Extends
<1>a. DOMAIN rs2 = 1 .. n + 2 - m
  BY <1>0
<1>1. /\ n \in Nat /\ DOMAIN rs = 1 .. n /\ m \in 1 .. n + 1 /\ rs2 \in Seq(EventOf)
      /\ Len(rs2) = n + 2 - m /\ DOMAIN rs2 = 1 .. n + 2 - m
      /\ \A i \in DOMAIN rs2 : rs2[i] = IF m + i - 1 = n + 1 THEN v ELSE rs[m + i - 1]
  BY <1>0, <1>a DEF Extends
<1> HIDE DEF n
<1>2. \A i \in DOMAIN rs2 : m + i - 1 \in DOMAIN rs \/ (m + i - 1 = n + 1 /\ i = n + 2 - m)
  BY <1>1
<1>3. rs2[n + 2 - m] = v /\ n + 2 - m \in DOMAIN rs2 /\ n + 2 - m \in Nat /\ n + 2 - m # 0
  BY <1>1
<1>4. \A i \in DOMAIN rs : rs[i].cursor < v.cursor /\ rs[i] \in Range(rs)
  BY DEF Range
<1>5. Sorted(rs2)
  <2>1. SUFFICES ASSUME NEW i \in DOMAIN rs2, NEW j \in DOMAIN rs2, i < j
                 PROVE  rs2[i].cursor < rs2[j].cursor
    BY DEF Sorted
  <2>2. PICK a \in Int, b \in Int : a = m + i - 1 /\ b = m + j - 1 BY <1>1
  <2>3. a < b /\ a \in DOMAIN rs /\ rs2[i] = rs[a]
    <3>1. i \in 1 .. n + 2 - m /\ j \in 1 .. n + 2 - m BY <1>1
    <3>2. a < b /\ a \in 1 .. n /\ m + i - 1 # n + 1 BY <1>1, <2>1, <2>2, <3>1
    <3>3. rs2[i] = IF m + i - 1 = n + 1 THEN v ELSE rs[m + i - 1] BY <1>1
    <3> QED BY <1>1, <2>2, <3>2, <3>3
  <2>4. CASE b \in DOMAIN rs
    <3>1. rs2[j] = rs[b] BY <1>1, <2>2, <2>4
    <3> QED BY <2>3, <2>4, <3>1 DEF Sorted
  <2>5. CASE b = n + 1
    <3>1. rs2[j] = v BY <1>1, <2>2, <2>5
    <3> QED BY <1>4, <2>3, <3>1
  <2> QED BY <1>1, <1>2, <2>2, <2>4, <2>5
<1>6. Last(rs2) = v /\ rs2 # << >> /\ v \in Range(rs2)
  BY <1>1, <1>3, NothingLeft DEF Last, Range
<1>7. Range(rs2) \subseteq Range(rs) \cup {v}
  BY <1>1, <1>2 DEF Range
<1>8. ASSUME NEW e \in Range(rs), e \notin Range(rs2) PROVE e.cursor < Head(rs2).cursor
  <2>1. PICK i \in DOMAIN rs : e = rs[i]
    BY DEF Range
  <2>2. CASE i >= m
    <3>1. i - m + 1 \in DOMAIN rs2 /\ rs2[i - m + 1] = rs[i]
      BY <1>1, <2>1, <2>2
    <3> QED BY <1>8, <2>1, <3>1 DEF Range
  <2>3. CASE i < m
    <3>1. Head(rs2) = rs2[1] /\ 1 \in DOMAIN rs2
      BY <1>1, <1>3, <1>6
    <3>2. rs2[1] = IF m = n + 1 THEN v ELSE rs[m]
      BY <1>1, <3>1
    <3>3. m = n + 1 \/ m \in DOMAIN rs
      BY <1>1
    <3> QED BY <1>1, <1>4, <2>1, <2>3, <3>1, <3>2, <3>3 DEF Sorted
  <2> QED BY <1>1, <2>1, <2>2, <2>3
<1>9. ASSUME Timed(rs), \A e \in Range(rs) : e.at <= v.at PROVE Timed(rs2)
  <2>1. \A i \in DOMAIN rs : rs[i].at <= v.at
    BY <1>9 DEF Range
  <2> QED BY <1>1, <1>2, <1>9, <2>1 DEF Timed
<1> QED BY <1>1, <1>5, <1>6, <1>7, <1>8, <1>9

\* What a step of the publishers never does to those who read: cursors only go
\* up, rows only go at the start of the file, and what is new is above the top.
Grown ==
    /\ \A n \in Node :
          /\ Top(n)' >= Top(n) /\ RetainedFrom(n)' >= RetainedFrom(n)
          /\ \A e \in Range(acked'[n]) : e \in Range(acked[n]) \/ e.cursor > Top(n)
          /\ \A e \in Range(rows'[n]) : e \in Range(rows[n]) \/ e.cursor > Top(n)
    /\ lost \subseteq lost'

\* A publish, complete or broken off: v may be in the file, in the head and
\* acknowledged; if it is acknowledged it is in the file, or lost and in the head.
Published(n, v, rs2, h, as) ==
    /\ rows' = [rows EXCEPT ![n] = rs2] /\ head' = [head EXCEPT ![n] = h]
    /\ acked' = [acked EXCEPT ![n] = as]
    /\ rs2 = rows[n] \/ \E m \in 1 .. Len(rows[n]) + 1 : Extends(rows[n], v, rs2, m)
    /\ h \in {head[n], Top(n) + 1} /\ as \in {acked[n], Append(acked[n], v)}
    /\ as # acked[n] /\ rs2 = rows[n] => h = Top(n) + 1 /\ <<n, v.cursor>> \in lost'
    /\ lost \subseteq lost' /\ torn' \in [Node -> BOOLEAN] /\ UNCHANGED <<clock, floor>>

LEMMA PublishedKeeps ==
  ASSUME JournalInv, NEW n \in Node, NEW v \in EventOf, v.cursor = Top(n) + 1, v.at = clock,
         NEW rs2, NEW h, NEW as, Published(n, v, rs2, h, as)
  PROVE  JournalInv' /\ Grown
<1> DEFINE rs == rows[n]
<1>1. RailShape /\ NodeOK(n) /\ rs \in Seq(EventOf) /\ acked[n] \in Seq(EventOf) /\ head[n] \in Nat
  BY DEF JournalInv, RailShape
<1>2. /\ Newest(n) \in Nat /\ Top(n) \in Nat /\ Top(n) >= head[n] /\ Top(n) >= Newest(n)
      /\ RetainedFrom(n) \in Nat /\ RetainedFrom(n) <= Top(n) + 1
      /\ \A e \in Range(rs) : e.cursor <= Top(n) /\ RetainedFrom(n) <= e.cursor
      /\ rs = << >> => RetainedFrom(n) = Top(n) + 1
  BY <1>1, TopFacts DEF NodeOK
<1>3. \A e \in Range(rs) : e.cursor \in Nat /\ e.cursor < v.cursor /\ e.at <= v.at
  BY <1>1, <1>2, EventsAreTyped DEF NodeOK
<1>4. rows'[n] = rs2 /\ head'[n] = h /\ acked'[n] = as
  BY DEF Published, JournalInv, RailShape
<1>5. ASSUME NEW k \in Node, k # n
      PROVE  /\ rows'[k] = rows[k] /\ head'[k] = head[k] /\ acked'[k] = acked[k]
             /\ Top(k)' = Top(k) /\ RetainedFrom(k)' = RetainedFrom(k)
  <2>1. rows'[k] = rows[k] /\ head'[k] = head[k] /\ acked'[k] = acked[k]
    BY <1>5 DEF Published, JournalInv, RailShape
  <2> QED BY <2>1 DEF Top, Newest, RetainedFrom
\* The file.
<1>6. /\ rs2 \in Seq(EventOf) /\ Sorted(rs2) /\ Timed(rs2)
      /\ Range(rs2) \subseteq Range(rs) \cup {v}
      /\ \A e \in Range(rs) : e \in Range(rs2) \/ e.cursor < RetainedFrom(n)'
      /\ rs2 # rs => v \in Range(rs2)
      /\ Newest(n)' = IF rs2 = rs THEN Newest(n) ELSE v.cursor
      /\ RetainedFrom(n)' >= RetainedFrom(n)
      /\ rs2 = rs /\ rs # << >> => RetainedFrom(n)' = RetainedFrom(n)
  <2>1. CASE rs2 = rs
    <3>1. Newest(n)' = Newest(n)
      BY <1>4, <2>1 DEF Newest
    <3>2. rs # << >> => RetainedFrom(n)' = RetainedFrom(n)
      BY <1>4, <2>1 DEF RetainedFrom
    <3>3. rs = << >> => RetainedFrom(n)' >= RetainedFrom(n)
      <4> SUFFICES ASSUME rs = << >> PROVE RetainedFrom(n)' >= RetainedFrom(n)
        OBVIOUS
      <4>1. RetainedFrom(n)' = (IF h > Newest(n) THEN h ELSE Newest(n)) + 1
        BY <1>4, <2>1, <3>1 DEF RetainedFrom
      <4>2. RetainedFrom(n) = (IF head[n] > Newest(n) THEN head[n] ELSE Newest(n)) + 1
        BY DEF RetainedFrom
      <4>3. h = head[n] \/ h = Top(n) + 1
        BY DEF Published
      <4> QED BY <1>1, <1>2, <4>1, <4>2, <4>3 DEF Top
    <3> QED BY <1>1, <1>2, <2>1, <3>1, <3>2, <3>3 DEF NodeOK
  <2>2. ASSUME rs2 # rs PROVE \E m : Extends(rs, v, rs2, m)
    BY <2>2 DEF Published
  <2>3. CASE rs2 # rs
    <3>1. PICK m : Extends(rs, v, rs2, m)
      BY <2>2, <2>3
    <3>2. /\ rs2 \in Seq(EventOf) /\ rs2 # << >> /\ Sorted(rs2) /\ Last(rs2) = v
          /\ Range(rs2) \subseteq Range(rs) \cup {v} /\ v \in Range(rs2)
          /\ \A e \in Range(rs) : e \in Range(rs2) \/ e.cursor < Head(rs2).cursor
          /\ Timed(rs2)
      BY <1>1, <1>3, <3>1, ExtendedFile DEF NodeOK
    <3>3. Newest(n)' = v.cursor /\ RetainedFrom(n)' = Head(rs2).cursor
      BY <1>4, <3>2 DEF Newest, RetainedFrom
    <3>4. Head(rs2) \in Range(rs) \cup {v}
      BY <3>2, EndsOfSorted
    <3>5. Head(rs2).cursor >= RetainedFrom(n)
      BY <1>2, <1>3, <3>4
    <3> QED BY <2>3, <3>2, <3>3, <3>5
  <2> QED BY <2>1, <2>3
<1> HIDE DEF rs
\* The top.
<1>7. /\ Top(n)' \in {Top(n), Top(n) + 1}
      /\ rs2 # rs \/ as # acked[n] => Top(n)' = Top(n) + 1
  <2>1. Top(n)' = IF h > Newest(n)' THEN h ELSE Newest(n)'
    BY <1>4 DEF Top
  <2>2. h = head[n] \/ h = Top(n) + 1
    BY DEF Published
  <2>3. as # acked[n] /\ rs2 = rs => h = Top(n) + 1
    BY DEF Published, rs
  <2>4. Top(n) = IF head[n] > Newest(n) THEN head[n] ELSE Newest(n)
    BY DEF Top
  <2>5. Newest(n)' = IF rs2 = rs THEN Newest(n) ELSE Top(n) + 1
    BY <1>6
  <2>6. CASE rs2 = rs
    <3>1. CASE h = Top(n) + 1
      <4>1. Newest(n)' = Newest(n)
        BY <2>5, <2>6
      <4>2. h > Newest(n)'
        BY <1>2, <3>1, <4>1
      <4>3. Top(n)' = Top(n) + 1
        BY <2>1, <3>1, <4>2
      <4> QED BY <4>3
    <3>2. CASE h # Top(n) + 1
      <4>1. Top(n)' = Top(n) /\ as = acked[n]
        BY <2>1, <2>2, <2>3, <2>4, <2>5, <2>6, <3>2
      <4> QED BY <2>6, <4>1
    <3> QED BY <3>1, <3>2
  <2>7. CASE rs2 # rs
    BY <1>1, <1>2, <2>1, <2>2, <2>5, <2>7
  <2> QED BY <2>6, <2>7
\* What was acknowledged.
<1>8. /\ as \in Seq(EventOf) /\ Sorted(as)
      /\ Range(as) \subseteq Range(acked[n]) \cup {v}
      /\ as = acked[n] => Range(as) = Range(acked[n])
  <2>1. CASE as = acked[n]
    BY <1>1, <2>1 DEF NodeOK
  <2>2. CASE as = Append(acked[n], v)
    <3>1. \A e \in Range(acked[n]) : e.cursor < v.cursor
      BY <1>1, <1>2, EventsAreTyped DEF NodeOK
    <3>2. Extends(acked[n], v, as, 1)
      BY <1>1, <2>2, AppendExtends
    <3>3. as \in Seq(EventOf) /\ Sorted(as) /\ Range(as) \subseteq Range(acked[n]) \cup {v}
      BY <1>1, <3>1, <3>2, ExtendedFile DEF NodeOK
    <3> QED BY <3>3
  <2> QED BY <2>1, <2>2 DEF Published
<1>9. NodeOK(n)'
  <2>1. \A e \in Range(rs2) : e.at <= clock'
    <3>1. \A e \in Range(rs) : e.at <= clock
      BY <1>1 DEF NodeOK, rs
    <3>2. v.at <= clock /\ clock' = clock
      BY <1>1 DEF RailShape, Published
    <3> QED BY <1>6, <3>1, <3>2
  <2>2. \A e \in Range(as) : e.cursor <= Top(n)'
    <3>1. \A e \in Range(acked[n]) : e.cursor <= Top(n) /\ e.cursor \in Nat
      BY <1>1, EventsAreTyped DEF NodeOK
    <3>2. \A e \in Range(acked[n]) : e.cursor <= Top(n)'
      BY <1>2, <1>7, <3>1
    <3>3. as # acked[n] => v.cursor <= Top(n)'
      <4>1. SUFFICES ASSUME as # acked[n] PROVE v.cursor <= Top(n)'
        OBVIOUS
      <4>2. Top(n)' = Top(n) + 1
        BY <1>7, <4>1
      <4>3. v.cursor = Top(n)' /\ v.cursor \in Nat
        BY <1>2, <4>2
      <4> QED BY <4>3
    <3> QED BY <1>8, <3>2, <3>3
  <2>3. ASSUME NEW e \in Range(as)
        PROVE  e \in Range(rs2) \/ <<n, e.cursor>> \in lost' \/ e.cursor < RetainedFrom(n)'
    <3>1. CASE e \in Range(acked[n])
      <4>1. e \in Range(rs) \/ <<n, e.cursor>> \in lost \/ e.cursor < RetainedFrom(n)
        BY <1>1, <3>1 DEF NodeOK, rs
      <4>2. lost \subseteq lost'
        BY DEF Published
      <4>3. e.cursor \in Nat /\ RetainedFrom(n)' >= RetainedFrom(n) /\ RetainedFrom(n)' \in Nat
        <5>1. rs2 # << >> => Head(rs2).cursor \in Nat
          BY <1>6, EndsOfSorted, EventsAreTyped
        <5>2. RetainedFrom(n)' \in Nat
          <6>1. RetainedFrom(n)' = IF rs2 = << >> THEN Top(n)' + 1 ELSE Head(rs2).cursor
            BY <1>4 DEF RetainedFrom, Top
          <6> QED BY <1>2, <1>7, <5>1, <6>1
        <5> QED BY <1>1, <1>6, <3>1, <5>2, EventsAreTyped
      <4> QED BY <1>2, <1>6, <4>1, <4>2, <4>3
    <3>2. CASE e \notin Range(acked[n])
      <4>1. e = v /\ as # acked[n]
        BY <1>8, <3>2
      <4>2. CASE rs2 = rs
        BY <4>1, <4>2 DEF Published, rs
      <4>3. CASE rs2 # rs
        BY <1>6, <4>1, <4>3
      <4> QED BY <4>2, <4>3
    <3> QED BY <3>1, <3>2
  <2>4. floor'[n] <= Top(n)'
    <3>1. floor'[n] = floor[n] /\ floor[n] <= Top(n) /\ floor[n] \in Nat
      BY <1>1 DEF Published, NodeOK, RailShape
    <3> QED BY <1>2, <1>7, <3>1
  <2> QED BY <1>4, <1>6, <1>8, <2>1, <2>2, <2>3, <2>4 DEF NodeOK
<1>10. ASSUME NEW k \in Node, k # n PROVE NodeOK(k)'
  <2>1. NodeOK(k) /\ lost \subseteq lost' /\ UNCHANGED <<clock, floor>>
    BY DEF JournalInv, Published
  <2>2. /\ rows'[k] = rows[k] /\ acked'[k] = acked[k]
        /\ Top(k)' = Top(k) /\ RetainedFrom(k)' = RetainedFrom(k)
    BY <1>5, <1>10
  <2> QED BY <2>1, <2>2 DEF NodeOK
<1>11. RailShape'
  <2>1. h \in Nat
    BY <1>1, <1>2 DEF Published
  <2> QED BY <1>1, <1>6, <1>8, <2>1 DEF RailShape, Published
<1>12. Grown
  <2>1. ASSUME NEW k \in Node
        PROVE  /\ Top(k)' >= Top(k) /\ RetainedFrom(k)' >= RetainedFrom(k)
               /\ \A e \in Range(acked'[k]) : e \in Range(acked[k]) \/ e.cursor > Top(k)
               /\ \A e \in Range(rows'[k]) : e \in Range(rows[k]) \/ e.cursor > Top(k)
    <3>1. CASE k = n
      <4>1. Top(n)' >= Top(n) /\ v.cursor > Top(n)
        BY <1>2, <1>7
      <4>2. \A e \in Range(acked'[n]) : e \in Range(acked[n]) \/ e.cursor > Top(n)
        BY <1>4, <1>8, <4>1
      <4>3. \A e \in Range(rows'[n]) : e \in Range(rows[n]) \/ e.cursor > Top(n)
        BY <1>4, <1>6, <4>1 DEF rs
      <4> QED BY <1>6, <3>1, <4>1, <4>2, <4>3
    <3>2. CASE k # n
      <4>1. Top(k) \in Nat /\ RetainedFrom(k) \in Nat
        BY <1>1, TopFacts DEF JournalInv, NodeOK
      <4> QED BY <1>5, <3>2, <4>1
    <3> QED BY <3>1, <3>2
  <2> QED BY <2>1 DEF Grown, Published
<1> QED BY <1>9, <1>10, <1>11, <1>12 DEF JournalInv

\* publish(), whether it returns, dies on the way or stores a part of the row.
LEMMA PublisherKeeps ==
  ASSUME JournalInv, NEW n \in Node, NEW match \in BOOLEAN,
         \/ Publish(n, match) \/ ShortWrite(n, match)
         \/ \E w \in {"write", "head", "trim"} : PublisherDies(n, match, w)
  PROVE  JournalInv' /\ Grown
<1> DEFINE v == Event(n, match)
<1>1. RailShape /\ NodeOK(n) /\ rows[n] \in Seq(EventOf) /\ acked[n] \in Seq(EventOf)
  BY DEF JournalInv, RailShape
<1>2. /\ Top(n) \in Nat /\ NextCursor(n) = Top(n) + 1 /\ Sorted(rows[n])
      /\ \A e \in Range(rows[n]) : e.cursor <= Top(n)
  BY <1>1, TopFacts DEF NodeOK
<1>3. v \in EventOf /\ v.cursor = Top(n) + 1 /\ v.at = clock
  BY <1>1, <1>2 DEF Event, EventOf, RailShape
<1>4. ASSUME NEW rs2, NEW m, Extends(rows[n], v, rs2, m) PROVE rs2 # rows[n]
  <2>1. \A e \in Range(rows[n]) : e.cursor \in Nat /\ e.cursor < v.cursor
    BY <1>1, <1>2, <1>3, EventsAreTyped
  <2>2. v \in Range(rs2) /\ v.cursor \in Nat
    BY <1>1, <1>2, <1>3, <1>4, <2>1, ExtendedFile
  <2> QED BY <2>1, <2>2
<1>5. /\ Extends(rows[n], v, Append(rows[n], v), 1)
      /\ \E m \in 1 .. Len(rows[n]) + 1 : Extends(rows[n], v, Trimmed(Append(rows[n], v)), m)
      /\ 1 \in 1 .. Len(rows[n]) + 1
  BY <1>1, <1>3, AppendExtends
<1>t. \A b \in BOOLEAN : [torn EXCEPT ![n] = b] \in [Node -> BOOLEAN]
  BY <1>1 DEF RailShape
<1>6. CASE Publish(n, match)
  <2>1. Published(n, v, Trimmed(Append(rows[n], v)), Top(n) + 1, Append(acked[n], v))
    BY <1>2, <1>4, <1>5, <1>6, <1>t DEF Publish, Published, fleet
  <2> QED BY <1>3, <2>1, PublishedKeeps
<1>7. CASE ShortWrite(n, match)
  <2>1. Published(n, v, rows[n], Top(n) + 1, Append(acked[n], v))
    BY <1>1, <1>2, <1>3, <1>7, <1>t DEF ShortWrite, Published, fleet, RailShape
  <2> QED BY <1>3, <2>1, PublishedKeeps
<1>8. ASSUME NEW w \in {"write", "head", "trim"}, PublisherDies(n, match, w) PROVE JournalInv' /\ Grown
  <2> DEFINE rs2 == IF w = "write" THEN rows[n] ELSE Append(rows[n], v)
             h == IF w = "trim" THEN Top(n) + 1 ELSE head[n]
  <2>1. /\ rows' = [rows EXCEPT ![n] = rs2] /\ head' = [head EXCEPT ![n] = h]
        /\ UNCHANGED <<acked, lost, clock, floor>> /\ torn' = [torn EXCEPT ![n] = w = "write"]
    BY <1>2, <1>8 DEF PublisherDies, fleet
  <2>2. acked' = [acked EXCEPT ![n] = acked[n]]
    BY <1>1, <2>1 DEF RailShape
  <2>3. rs2 = rows[n] \/ \E m \in 1 .. Len(rows[n]) + 1 : Extends(rows[n], v, rs2, m)
    BY <1>5
  <2>4. torn' \in [Node -> BOOLEAN]
    BY <1>t, <2>1
  <2>5. h \in {head[n], Top(n) + 1}
    OBVIOUS
  <2> HIDE DEF rs2, h, v
  <2>6. Published(n, v, rs2, h, acked[n])
    BY <2>1, <2>2, <2>3, <2>4, <2>5 DEF Published
  <2> QED BY <1>3, <2>6, PublishedKeeps DEF v
<1> QED BY <1>6, <1>7, <1>8

\* read_after() returns the first rows beyond the cursor, in their ranking.
LEMMA AfterFacts ==
  ASSUME JournalInv, NEW n \in Node, NEW c \in Nat, NEW k \in Nat \ {0}, NEW f \in BOOLEAN
  PROVE  LET q == After(n, c, k, f)
             B == Beyond(n, c, f)
         IN  /\ q \in Seq(EventOf) /\ Range(q) \subseteq B /\ Sorted(q)
             /\ \A x \in B, y \in Range(q) : x.cursor < y.cursor => x \in Range(q)
             /\ B # {} => q # << >>
<1> DEFINE B == Beyond(n, c, f)
           O == ByCursor(B)
           q == FirstIn(B, O, k)
<1>1. rows[n] \in Seq(EventOf) /\ Sorted(rows[n])
  BY DEF JournalInv, RailShape, NodeOK
<1>2. B \subseteq Range(rows[n]) /\ B \subseteq EventOf /\ IsFiniteSet(B)
  <2>1. B \subseteq Range(rows[n])
    BY DEF Beyond
  <2>2. IsFiniteSet(Range(rows[n])) /\ Range(rows[n]) \subseteq EventOf
    BY <1>1, RowsAreFinite
  <2> QED BY <2>1, <2>2, FS_Subset
<1>3. \A x \in B : x.cursor \in Nat
  BY <1>1, <1>2, EventsAreTyped
<1>4. \A x, y \in B : x.cursor = y.cursor => x = y
  <2> SUFFICES ASSUME NEW x \in B, NEW y \in B, x.cursor = y.cursor PROVE x = y
    OBVIOUS
  <2>1. PICK i \in DOMAIN rows[n], j \in DOMAIN rows[n] : x = rows[n][i] /\ y = rows[n][j]
    BY <1>2 DEF Range
  <2>2. i \in Nat /\ j \in Nat
    BY <1>1
  <2>3. ~(i < j) /\ ~(j < i)
    BY <1>1, <1>3, <2>1 DEF Sorted
  <2> QED BY <2>1, <2>2, <2>3
<1> HIDE DEF B
<1>5. \A x, y \in B : <<x, y>> \in O <=> x.cursor < y.cursor
  BY DEF ByCursor
<1> HIDE DEF O
<1>6. Orders(O, B)
  BY <1>3, <1>4, <1>5 DEF Orders
<1>7. /\ q \in Seq(B) /\ Range(q) \subseteq B
      /\ \A i, j \in DOMAIN q : i < j => <<q[i], q[j]>> \in O
      /\ \A x \in B, y \in Range(q) : <<x, y>> \in O => x \in Range(q)
      /\ B # {} => q # << >>
  BY <1>2, <1>6, FirstAreListed
<1> HIDE DEF q
<1>8. q \in Seq(EventOf) /\ \A i \in DOMAIN q : q[i] \in B
  BY <1>2, <1>7
<1>9. Sorted(q)
  BY <1>5, <1>7, <1>8 DEF Sorted
<1>10. After(n, c, k, f) = q
  BY DEF After, q, O, B
<1> QED BY <1>5, <1>7, <1>8, <1>9, <1>10 DEF B

-----------------------------------------------------------------------------
(* The merged view of the fleet. *)

RowOf == [n : Node, e : EventOf]

\* What was returned is at or below the cursor map, and the other way round.
FleetInv ==
    /\ merged \in Seq(RowOf) /\ FleetSkipsNothing
    /\ \A i \in DOMAIN merged : merged[i].e.cursor <= floor[merged[i].n]

LEMMA NewRowsAre ==
  ASSUME JournalInv
  PROVE  /\ IsFiniteSet(NewRows) /\ NewRows \subseteq RowOf
         /\ \A r \in NewRows : /\ r.n \in Node /\ r.e \in Range(rows[r.n])
                              /\ r.e.cursor > floor[r.n]
         /\ \A r \in NewRows : \A x \in Range(rows[r.n]) :
               floor[r.n] < x.cursor /\ x.cursor < r.e.cursor => [n |-> r.n, e |-> x] \in NewRows
<1> DEFINE Q(n) == Range(After(n, floor[n], ReplayLimit, FALSE))
<1>1. ReplayLimit \in Nat \ {0} /\ FALSE \in BOOLEAN /\ \A n \in Node : floor[n] \in Nat
  BY RailAssumption DEF JournalInv, RailShape
<1>2. ASSUME NEW n \in Node
      PROVE  /\ IsFiniteSet(Q(n)) /\ Q(n) \subseteq EventOf
             /\ \A e \in Q(n) : e \in Range(rows[n]) /\ e.cursor > floor[n]
             /\ \A y \in Q(n), x \in Range(rows[n]) :
                   floor[n] < x.cursor /\ x.cursor < y.cursor => x \in Q(n)
  <2> DEFINE q == After(n, floor[n], ReplayLimit, FALSE)
             B == Beyond(n, floor[n], FALSE)
  <2>1. /\ q \in Seq(EventOf) /\ Range(q) \subseteq B
        /\ \A x \in B, y \in Range(q) : x.cursor < y.cursor => x \in Range(q)
    BY <1>1, AfterFacts
  <2>2. \A x : x \in B <=> x \in Range(rows[n]) /\ x.cursor > floor[n]
    BY DEF Beyond
  <2>3. rows[n] \in Seq(EventOf)
    BY DEF JournalInv, RailShape
  <2>4. \A x \in Range(rows[n]) : floor[n] < x.cursor => x \in B
    BY <1>1, <2>2, <2>3, EventsAreTyped
  <2> HIDE DEF q, B
  <2>5. IsFiniteSet(Range(q)) /\ Range(q) \subseteq EventOf
    BY <2>1, RowsAreFinite
  <2>6. Q(n) = Range(q)
    BY DEF q
  <2> HIDE DEF Q
  <2> QED BY <2>1, <2>2, <2>4, <2>5, <2>6
<1>3. \A n : NewOf(n) = {[n |-> n, e |-> e] : e \in Q(n)}
  BY DEF NewOf
<1> HIDE DEF Q
<1>4. ASSUME NEW n \in Node PROVE IsFiniteSet(NewOf(n))
  <2> DEFINE f == [e \in Q(n) |-> [n |-> n, e |-> e]]
  <2>1. f \in Surjection(Q(n), NewOf(n))
    BY <1>3 DEF Surjection
  <2> HIDE DEF f
  <2> QED BY <1>2, <2>1, FS_Surjection
<1> DEFINE U == {NewOf(n) : n \in Node}
<1>5. IsFiniteSet(U) /\ \A T \in U : IsFiniteSet(T)
  <2> DEFINE f == [n \in Node |-> NewOf(n)]
  <2>1. f \in Surjection(Node, U)
    BY DEF Surjection
  <2>2. \A T \in U : IsFiniteSet(T)
    BY <1>4
  <2> HIDE DEF f, U
  <2> QED BY <2>1, <2>2, FS_Surjection, RailAssumption
<1>6. IsFiniteSet(NewRows)
  <2>1. NewRows = UNION U
    BY DEF NewRows
  <2> HIDE DEF U
  <2> QED BY <1>5, <2>1, FS_UNION
<1>7. \A r : r \in NewRows <=> \E n \in Node : \E e \in Q(n) : r = [n |-> n, e |-> e]
  BY <1>3 DEF NewRows
<1>8. ASSUME NEW r \in NewRows
      PROVE  /\ r \in RowOf /\ r.n \in Node /\ r.e \in Q(r.n) /\ r = [n |-> r.n, e |-> r.e]
  <2>1. PICK n \in Node : \E e \in Q(n) : r = [n |-> n, e |-> e]
    BY <1>7
  <2>2. PICK e \in Q(n) : r = [n |-> n, e |-> e]
    BY <2>1
  <2>3. r.n = n /\ r.e = e
    BY <2>2
  <2> QED BY <1>2, <2>2, <2>3 DEF RowOf
<1>9. ASSUME NEW r \in NewRows, NEW x \in Range(rows[r.n]), floor[r.n] < x.cursor, x.cursor < r.e.cursor
      PROVE  [n |-> r.n, e |-> x] \in NewRows
  <2>1. x \in Q(r.n)
    BY <1>2, <1>8, <1>9
  <2> QED BY <1>7, <1>8, <2>1
<1> QED BY <1>2, <1>6, <1>8, <1>9

\* The ranking of read_fleet is total on what it merges: two rows of one node have
\* two cursors, and two nodes two names.
LEMMA FleetOrders ==
  ASSUME JournalInv
  PROVE  /\ Orders(ByTime(NewRows), NewRows)
         /\ \A a, b \in NewRows : a.n = b.n =>
               (<<a, b>> \in ByTime(NewRows) <=> a.e.cursor < b.e.cursor)
<1> DEFINE N == NewRows
           O == ByTime(N)
<1>1. /\ N \subseteq RowOf
      /\ \A r \in N : r.n \in Node /\ r.e \in Range(rows[r.n])
  BY NewRowsAre
<1> HIDE DEF N
<1>2. \A a, b \in N : <<a, b>> \in O <=> Earlier(a, b)
  BY DEF ByTime
<1> HIDE DEF O
<1>3. \A r \in N : r.e.cursor \in Nat /\ r.e.at \in Nat /\ Rank[r.n] \in Nat
  <2> TAKE r \in N
  <2>1. rows[r.n] \in Seq(EventOf)
    BY <1>1 DEF JournalInv, RailShape
  <2> QED BY <1>1, <2>1, EventsAreTyped, RailAssumption
<1>4. ASSUME NEW a \in N, NEW b \in N, a.n = b.n
      PROVE  /\ a.e.cursor < b.e.cursor => a.e.at <= b.e.at
             /\ a.e.cursor = b.e.cursor => a = b
  <2>1. rows[a.n] \in Seq(EventOf) /\ Sorted(rows[a.n]) /\ Timed(rows[a.n])
    BY <1>1 DEF JournalInv, RailShape, NodeOK
  <2>2. PICK i \in DOMAIN rows[a.n], j \in DOMAIN rows[a.n] : a.e = rows[a.n][i] /\ b.e = rows[a.n][j]
    BY <1>1, <1>4 DEF Range
  <2>3. i \in Nat /\ j \in Nat
    BY <2>1
  <2>4. a.e.cursor < b.e.cursor => i < j
    <3>1. j < i => b.e.cursor < a.e.cursor
      BY <2>1, <2>2 DEF Sorted
    <3>2. i = j => b.e = a.e
      BY <2>2
    <3> QED BY <1>3, <2>3, <3>1, <3>2
  <2>5. a.e.cursor = b.e.cursor => i = j
    <3>1. (j < i => b.e.cursor < a.e.cursor) /\ (i < j => a.e.cursor < b.e.cursor)
      BY <2>1, <2>2 DEF Sorted
    <3> QED BY <1>3, <2>3, <3>1
  <2>6. a = [n |-> a.n, e |-> a.e] /\ b = [n |-> b.n, e |-> b.e]
    BY <1>1 DEF RowOf
  <2>7. i = j => a = b
    BY <1>4, <2>2, <2>6
  <2> QED BY <2>1, <2>2, <2>4, <2>5, <2>7 DEF Timed
<1>5. \A a, b \in N : Rank[a.n] = Rank[b.n] => a.n = b.n
  BY <1>1, RailAssumption
<1>6. ASSUME NEW a \in N, NEW b \in N, a.n = b.n PROVE Earlier(a, b) <=> a.e.cursor < b.e.cursor
  <2>1. /\ a.e.cursor < b.e.cursor => a.e.at <= b.e.at
        /\ b.e.cursor < a.e.cursor => b.e.at <= a.e.at
        /\ a.e.cursor = b.e.cursor => a.e.at = b.e.at
    BY <1>4, <1>6
  <2> QED BY <1>3, <1>6, <2>1 DEF Earlier
<1>7. Orders(O, N)
  <2>1. \A x \in N : ~Earlier(x, x)
    BY <1>3 DEF Earlier
  <2>2. \A x, y, z \in N : Earlier(x, y) /\ Earlier(y, z) => Earlier(x, z)
    BY <1>3, <1>5 DEF Earlier
  <2>3. ASSUME NEW x \in N, NEW y \in N, x # y PROVE Earlier(x, y) \/ Earlier(y, x)
    <3>1. CASE x.n = y.n
      BY <1>3, <1>4, <1>6, <2>3, <3>1
    <3>2. CASE x.n # y.n
      BY <1>3, <1>5, <3>2 DEF Earlier
    <3> QED BY <3>1, <3>2
  <2> QED BY <1>2, <2>1, <2>2, <2>3 DEF Orders
<1> QED BY <1>2, <1>6, <1>7 DEF N, O

\* The rows of one node come in ranking and the page takes the first of them, so
\* whatever the cursor map passes was returned.
LEMMA ReadFleetKeeps == ASSUME JournalInv, FleetInv, ReadFleet PROVE JournalInv' /\ FleetInv'
<1> DEFINE N == NewRows
           O == ByTime(N)
           page == Page
           C(n) == {floor[n]} \cup {page[i].e.cursor : i \in {j \in DOMAIN page : page[j].n = n}}
<1>1. /\ merged' = merged \o page /\ floor' = [n \in Node |-> FleetFloor(n, page)]
      /\ UNCHANGED <<rows, torn, head, acked, lost, clock>>
  BY DEF ReadFleet, journal
<1>2. RailShape /\ \A n \in Node : NodeOK(n) /\ rows[n] \in Seq(EventOf) /\ floor[n] \in Nat
  BY DEF JournalInv, RailShape
<1>3. /\ IsFiniteSet(N) /\ N \subseteq RowOf
      /\ \A r \in N : r.n \in Node /\ r.e \in Range(rows[r.n]) /\ r.e.cursor > floor[r.n]
      /\ \A r \in N : \A x \in Range(rows[r.n]) :
            floor[r.n] < x.cursor /\ x.cursor < r.e.cursor => [n |-> r.n, e |-> x] \in N
  BY NewRowsAre
<1>4. /\ Orders(O, N)
      /\ \A a, b \in N : a.n = b.n => (<<a, b>> \in O <=> a.e.cursor < b.e.cursor)
  BY FleetOrders
<1>5. page = FirstIn(N, O, PageSize) /\ PageSize \in Nat \ {0}
  BY RailAssumption DEF Page
<1> HIDE DEF N, O, page
<1>6. /\ page \in Seq(N) /\ Range(page) \subseteq N
      /\ \A i, j \in DOMAIN page : i < j => <<page[i], page[j]>> \in O
      /\ \A x \in N, y \in Range(page) : <<x, y>> \in O => x \in Range(page)
  BY <1>3, <1>4, <1>5, FirstAreListed
<1>7. \A i \in DOMAIN page : page[i] \in N /\ page[i] \in Range(page) /\ page[i] \in RowOf
  BY <1>3, <1>6 DEF Range
<1>8. ASSUME NEW n \in Node
      PROVE  /\ Top(n) \in Nat /\ \A e \in Range(rows[n]) : e.cursor <= Top(n) /\ e.cursor \in Nat
             /\ \A x, y \in Range(rows[n]) : x.cursor = y.cursor => x = y
  <2>1. rows[n] \in Seq(EventOf) /\ Sorted(rows[n])
    BY <1>2 DEF NodeOK
  <2>2. Top(n) \in Nat /\ \A e \in Range(rows[n]) : e.cursor <= Top(n) /\ e.cursor \in Nat
    BY <1>2, <2>1, TopFacts, EventsAreTyped
  <2>3. ASSUME NEW x \in Range(rows[n]), NEW y \in Range(rows[n]), x.cursor = y.cursor PROVE x = y
    <3>1. PICK i \in DOMAIN rows[n], j \in DOMAIN rows[n] : x = rows[n][i] /\ y = rows[n][j]
      BY DEF Range
    <3>2. i \in Nat /\ j \in Nat
      BY <2>1
    <3>3. ~(i < j) /\ ~(j < i)
      BY <2>1, <2>2, <2>3, <3>1 DEF Sorted
    <3> QED BY <3>1, <3>2, <3>3
  <2> QED BY <2>2, <2>3
\* The cursor map.
<1>9. ASSUME NEW n \in Node
      PROVE  /\ floor'[n] \in Nat /\ floor'[n] \in C(n) /\ floor'[n] <= Top(n)
             /\ \A c \in C(n) : c \in Nat /\ c <= floor'[n]
  <2>1. \A c \in C(n) : c \in 0 .. Top(n)
    <3>1. floor[n] \in 0 .. Top(n)
      BY <1>2, <1>8 DEF NodeOK
    <3>2. ASSUME NEW i \in DOMAIN page, page[i].n = n PROVE page[i].e.cursor \in 0 .. Top(n)
      <4>1. page[i].e \in Range(rows[n])
        BY <1>3, <1>7, <3>2
      <4> QED BY <1>8, <4>1
    <3> QED BY <3>1, <3>2
  <2>2. IsFiniteSet(0 .. Top(n))
    BY <1>8, FS_Interval
  <2>3. C(n) # {} /\ floor'[n] = Max(C(n))
    BY <1>1 DEF FleetFloor
  <2> HIDE DEF C
  <2>4. IsFiniteSet(C(n)) /\ C(n) \subseteq Nat
    <3>1. C(n) \subseteq 0 .. Top(n) /\ 0 .. Top(n) \subseteq Nat
      BY <1>8, <2>1
    <3>2. IsFiniteSet(C(n))
      BY <2>2, <3>1, FS_Subset, Zenon
    <3> QED BY <3>1, <3>2
  <2>5. \E m \in C(n) : \A c \in C(n) : m >= c
    BY <2>3, <2>4, OldestAndNewest
  <2>6. Max(C(n)) \in C(n) /\ \A c \in C(n) : Max(C(n)) >= c
    BY <2>5 DEF Max
  <2> QED BY <1>8, <2>1, <2>3, <2>4, <2>6
<1>10. JournalInv'
  <2>1. RailShape'
    BY <1>1, <1>2, <1>9 DEF RailShape
  <2>2. ASSUME NEW n \in Node PROVE NodeOK(n)'
    <3>1. Top(n)' = Top(n) /\ RetainedFrom(n)' = RetainedFrom(n)
      BY <1>1 DEF Top, Newest, RetainedFrom
    <3> QED BY <1>1, <1>2, <1>9, <3>1 DEF NodeOK
  <2> QED BY <2>1, <2>2 DEF JournalInv
\* What was returned.
<1> DEFINE k == Len(merged)
<1>11. /\ merged \in Seq(RowOf) /\ page \in Seq(RowOf) /\ k \in Nat /\ DOMAIN merged = 1 .. k
  BY <1>3, <1>6 DEF FleetInv
<1>12. /\ merged' \in Seq(RowOf) /\ DOMAIN merged' = 1 .. k + Len(page)
       /\ \A i \in DOMAIN merged : merged'[i] = merged[i] /\ i \in DOMAIN merged'
       /\ \A i \in DOMAIN page : merged'[k + i] = page[i] /\ k + i \in DOMAIN merged'
       /\ \A i \in DOMAIN merged' : i \in DOMAIN merged \/ (i - k \in DOMAIN page /\ i = k + (i - k))
  BY <1>1, <1>11
<1>13. \A i \in DOMAIN merged : /\ merged[i] \in RowOf /\ merged[i].n \in Node
                                /\ merged[i].e.cursor \in Nat
                                /\ merged[i].e.cursor <= floor[merged[i].n]
  <2> TAKE i \in DOMAIN merged
  <2>1. merged[i] \in RowOf
    BY <1>11
  <2>2. merged[i].n \in Node /\ merged[i].e \in EventOf
    BY <2>1 DEF RowOf
  <2>3. merged[i].e.cursor \in Nat
    BY <2>2 DEF EventOf
  <2> QED BY <2>1, <2>2, <2>3 DEF FleetInv
<1>14. \A i \in DOMAIN page : /\ page[i].n \in Node /\ page[i].e.cursor \in Nat
                              /\ page[i].e.cursor > floor[page[i].n]
                              /\ page[i].e.cursor \in C(page[i].n)
  BY <1>3, <1>7, <1>8
<1>15. ASSUME NEW i \in DOMAIN merged', NEW j \in DOMAIN merged', i < j, merged'[i].n = merged'[j].n
       PROVE  merged'[i].e.cursor < merged'[j].e.cursor
  <2>0. i \in Nat /\ j \in Nat /\ i >= 1
    BY <1>11, <1>12
  <2>1. CASE i \in DOMAIN merged /\ j \in DOMAIN merged
    BY <1>12, <1>15, <2>1 DEF FleetInv, FleetSkipsNothing
  <2>2. CASE i \in DOMAIN merged /\ j \notin DOMAIN merged
    <3>1. j - k \in DOMAIN page /\ merged'[j] = page[j - k] /\ merged'[i] = merged[i]
      BY <1>12, <2>2
    <3>2. merged[i].n = page[j - k].n
      BY <1>15, <3>1
    <3>3. floor[merged[i].n] \in Nat
      BY <1>2, <1>13, <2>2
    <3> HIDE DEF C
    <3>4. merged[i].e.cursor < page[j - k].e.cursor
      BY <1>13, <1>14, <2>2, <3>1, <3>2, <3>3
    <3> QED BY <3>1, <3>4
  <2>3. CASE i \notin DOMAIN merged
    <3>1. j \notin DOMAIN merged
      <4>1. i > k
        BY <1>11, <2>0, <2>3
      <4>2. j > k
        BY <1>11, <1>15, <2>0, <4>1
      <4> HIDE DEF k
      <4> QED BY <1>11, <2>0, <4>2
    <3>2. /\ i - k \in DOMAIN page /\ j - k \in DOMAIN page
          /\ merged'[i] = page[i - k] /\ merged'[j] = page[j - k]
      BY <1>12, <2>3, <3>1
    <3>3. i - k < j - k
      BY <1>11, <1>15, <2>0
    <3>4. <<page[i - k], page[j - k]>> \in O
      BY <1>6, <3>2, <3>3
    <3> QED BY <1>4, <1>7, <1>15, <3>2, <3>4
  <2> QED BY <2>1, <2>2, <2>3
<1>16. ASSUME NEW i \in DOMAIN merged' PROVE merged'[i].e.cursor <= floor'[merged'[i].n]
  <2>1. CASE i \in DOMAIN merged
    <3>1. floor[merged[i].n] \in C(merged[i].n)
      OBVIOUS
    <3>2. floor[merged[i].n] <= floor'[merged[i].n] /\ floor'[merged[i].n] \in Nat
      BY <1>9, <1>13, <2>1, <3>1
    <3> HIDE DEF C
    <3> QED BY <1>2, <1>12, <1>13, <2>1, <3>2
  <2>2. CASE i \notin DOMAIN merged
    <3>1. i - k \in DOMAIN page /\ merged'[i] = page[i - k]
      BY <1>12, <2>2
    <3> HIDE DEF C
    <3> QED BY <1>9, <1>14, <3>1
  <2> QED BY <2>1, <2>2
<1>17. Range(merged) \subseteq Range(merged') /\ Range(page) \subseteq Range(merged')
  <2>1. \A x \in Range(merged) : \E i \in DOMAIN merged' : merged'[i] = x
    BY <1>12 DEF Range
  <2>2. \A x \in Range(page) : \E i \in DOMAIN merged' : merged'[i] = x
    <3> SUFFICES ASSUME NEW x \in Range(page) PROVE \E i \in DOMAIN merged' : merged'[i] = x
      OBVIOUS
    <3>1. PICK i \in DOMAIN page : page[i] = x
      BY DEF Range
    <3> QED BY <1>12, <3>1
  <2> QED BY <2>1, <2>2 DEF Range
<1>18. ASSUME NEW n \in Node, NEW e \in Range(rows[n]), e.cursor <= floor'[n]
       PROVE  [n |-> n, e |-> e] \in Range(merged')
  <2>1. CASE e.cursor <= floor[n]
    BY <1>17, <2>1 DEF FleetInv, FleetSkipsNothing
  <2>2. CASE ~(e.cursor <= floor[n])
    <3>1. floor'[n] # floor[n] /\ floor[n] < e.cursor
      BY <1>2, <1>8, <1>18, <2>2
    <3>2. PICK i \in DOMAIN page : page[i].n = n /\ floor'[n] = page[i].e.cursor
      BY <1>9, <3>1
    <3>3. page[i] \in N /\ page[i].e \in Range(rows[n]) /\ page[i] = [n |-> n, e |-> page[i].e]
      BY <1>3, <1>7, <3>2 DEF RowOf
    <3>4. CASE e.cursor = page[i].e.cursor
      <4>1. e = page[i].e
        BY <1>8, <3>3, <3>4
      <4> QED BY <1>7, <1>17, <3>2, <3>3, <4>1
    <3>5. CASE e.cursor < page[i].e.cursor
      <4> DEFINE r == [n |-> n, e |-> e]
      <4>1. r \in N
        BY <1>3, <3>1, <3>2, <3>3, <3>5
      <4>2. <<r, page[i]>> \in O
        BY <1>4, <3>2, <3>3, <3>5, <4>1
      <4>3. r \in Range(page)
        BY <1>6, <1>7, <3>2, <4>1, <4>2
      <4> QED BY <1>17, <4>3
    <3> QED BY <1>8, <1>18, <3>2, <3>3, <3>4, <3>5
  <2> QED BY <2>1, <2>2
<1>19. FleetSkipsNothing'
  BY <1>1, <1>15, <1>18 DEF FleetSkipsNothing
<1> QED BY <1>10, <1>12, <1>16, <1>19 DEF FleetInv

\* The publishers do not disturb the view: their rows are above the cursor map.
LEMMA FleetUnmoved ==
  ASSUME JournalInv, JournalInv', FleetInv, Grown, UNCHANGED <<floor, merged>> PROVE FleetInv'
<1>1. ASSUME NEW n \in Node, NEW e \in Range(rows'[n]), e.cursor <= floor[n]
      PROVE  [n |-> n, e |-> e] \in Range(merged)
  <2>1. floor[n] <= Top(n) /\ floor[n] \in Nat /\ Top(n) \in Nat
    BY TopFacts DEF JournalInv, NodeOK, RailShape
  <2>2. e \in Range(rows[n]) \/ e.cursor > Top(n)
    BY DEF Grown
  <2>3. CASE e \in Range(rows[n])
    BY <1>1, <2>3 DEF FleetInv, FleetSkipsNothing
  <2>4. CASE e \notin Range(rows[n])
    <3>1. e.cursor > Top(n) /\ e.cursor <= floor[n]
      BY <1>1, <2>2, <2>4
    <3>2. e.cursor \in Nat
      <4>1. rows'[n] \in Seq(EventOf)
        BY DEF JournalInv, RailShape
      <4> QED BY <1>1, <4>1, EventsAreTyped
    <3> QED BY <2>1, <3>1, <3>2
  <2> QED BY <2>3, <2>4
<1> QED BY <1>1 DEF FleetInv, FleetSkipsNothing

-----------------------------------------------------------------------------
(* The stream. *)

\* A batch that was read and not yet sent has, up to its last row, every event of
\* the filter beyond the cursor: the others were lost or trimmed before the read,
\* which is the gap the window will show.
BatchOK ==
    /\ Sorted(tail.batch)
    /\ \A e \in Range(tail.batch) : e.cursor > tail.cursor /\ e.cursor <= Top(Tailed)
    /\ tail.batch # << >> =>
         \A e \in Range(acked[Tailed]) :
            e.match /\ e.cursor > tail.cursor /\ e.cursor <= Last(tail.batch).cursor =>
                \/ e \in Range(tail.batch)
                \/ <<Tailed, e.cursor>> \in lost
                \/ e.cursor < RetainedFrom(Tailed) /\ e.cursor < Head(tail.batch).cursor

StreamInv ==
    /\ tail \in [step : {"read", "window"}, cursor : Nat, batch : Seq(EventOf)]
    /\ sent \in Seq(EventOf) /\ gaps \subseteq Nat
    /\ StreamIsHonest
    /\ sent = << >> <=> tail.cursor = 0
    /\ \A e \in Range(sent) : e.cursor <= tail.cursor
    /\ tail.cursor <= Top(Tailed)
    /\ tail.step = "window" => BatchOK

\* Events above the top concern neither what was sent nor what is about to be.
LEMMA StreamUnmoved ==
  ASSUME JournalInv, JournalInv', StreamInv, Grown, UNCHANGED stream PROVE StreamInv'
<1>1. /\ Tailed \in Node /\ UNCHANGED <<tail, sent, gaps>> /\ lost \subseteq lost'
      /\ Top(Tailed)' >= Top(Tailed) /\ RetainedFrom(Tailed)' >= RetainedFrom(Tailed)
      /\ \A e \in Range(acked'[Tailed]) : e \in Range(acked[Tailed]) \/ e.cursor > Top(Tailed)
  BY RailAssumption DEF Grown, stream
<1>2. /\ Top(Tailed) \in Nat /\ RetainedFrom(Tailed) \in Nat /\ tail.cursor \in Nat
      /\ tail.batch \in Seq(EventOf)
  BY <1>1, TopFacts DEF JournalInv, NodeOK, StreamInv
<1>3. Top(Tailed)' \in Nat /\ RetainedFrom(Tailed)' \in Nat
  <2>1. RailShape' /\ Sorted(rows'[Tailed])
    BY <1>1 DEF JournalInv, NodeOK
  <2>2. rows'[Tailed] \in Seq(EventOf) /\ head'[Tailed] \in Nat
    BY <1>1, <2>1 DEF RailShape
  <2>3. rows'[Tailed] # << >> => Last(rows'[Tailed]).cursor \in Nat /\ Head(rows'[Tailed]).cursor \in Nat
    BY <2>1, <2>2, EndsOfSorted, EventsAreTyped
  <2>4. Newest(Tailed)' \in Nat
    BY <2>3 DEF Newest
  <2> QED BY <2>2, <2>3, <2>4 DEF Top, RetainedFrom
<1>4. \A e \in Range(acked'[Tailed]) : e.cursor \in Nat
  <2>1. acked'[Tailed] \in Seq(EventOf)
    BY <1>1 DEF JournalInv, RailShape
  <2> QED BY <2>1, EventsAreTyped
<1>5. tail.cursor <= Top(Tailed)' /\ tail.cursor <= Top(Tailed)
  BY <1>1, <1>2, <1>3 DEF StreamInv
<1>6. StreamIsHonest'
  <2>1. ASSUME NEW e \in Range(acked'[Tailed]), sent # << >>, e.match, Head(sent).cursor <= e.cursor,
               e.cursor <= tail.cursor
        PROVE  e \in Range(sent) \/ e.cursor \in gaps \/ <<Tailed, e.cursor>> \in lost'
    <3>1. ~(e.cursor > Top(Tailed))
      BY <1>2, <1>4, <1>5, <2>1
    <3>2. e \in Range(acked[Tailed])
      BY <1>1, <3>1
    <3>3. e \in Range(sent) \/ e.cursor \in gaps \/ <<Tailed, e.cursor>> \in lost
      BY <2>1, <3>2 DEF StreamInv, StreamIsHonest
    <3> QED BY <1>1, <3>3
  <2>2. \A i, j \in DOMAIN sent : i < j => sent[i].cursor < sent[j].cursor
    BY DEF StreamInv, StreamIsHonest
  <2> QED BY <1>1, <2>1, <2>2 DEF StreamIsHonest
<1>7. ASSUME tail.step = "window" PROVE BatchOK'
  <2>1. BatchOK
    BY <1>7 DEF StreamInv
  <2>2. \A e \in Range(tail.batch) : e.cursor \in Nat
    BY <1>2, EventsAreTyped
  <2>3. \A e \in Range(tail.batch) : e.cursor > tail.cursor /\ e.cursor <= Top(Tailed)'
    BY <1>1, <1>2, <1>3, <2>1, <2>2 DEF BatchOK
  <2>4. ASSUME tail.batch # << >>, NEW e \in Range(acked'[Tailed]), e.match, e.cursor > tail.cursor,
               e.cursor <= Last(tail.batch).cursor
        PROVE  \/ e \in Range(tail.batch) \/ <<Tailed, e.cursor>> \in lost'
               \/ e.cursor < RetainedFrom(Tailed)' /\ e.cursor < Head(tail.batch).cursor
    <3>1. Last(tail.batch).cursor <= Top(Tailed) /\ Last(tail.batch).cursor \in Nat
      BY <1>2, <2>1, <2>2, <2>4, EndsOfSorted DEF BatchOK
    <3>2. ~(e.cursor > Top(Tailed))
      BY <1>2, <1>4, <2>4, <3>1
    <3>3. e \in Range(acked[Tailed])
      BY <1>1, <3>2
    <3>4. \/ e \in Range(tail.batch) \/ <<Tailed, e.cursor>> \in lost
          \/ e.cursor < RetainedFrom(Tailed) /\ e.cursor < Head(tail.batch).cursor
      BY <2>1, <2>4, <3>3 DEF BatchOK
    <3>5. e.cursor < RetainedFrom(Tailed) => e.cursor < RetainedFrom(Tailed)'
      BY <1>1, <1>2, <1>3, <1>4
    <3> QED BY <1>1, <3>4, <3>5
  <2>5. Sorted(tail.batch)
    BY <2>1 DEF BatchOK
  <2> QED BY <1>1, <2>3, <2>4, <2>5 DEF BatchOK
<1> QED BY <1>1, <1>5, <1>6, <1>7 DEF StreamInv

\* The batch is read.
LEMMA TailReadsKeeps == ASSUME JournalInv, StreamInv, TailReads PROVE StreamInv'
<1> DEFINE b == After(Tailed, tail.cursor, Batch, TRUE)
           B == Beyond(Tailed, tail.cursor, TRUE)
           R == Range(rows[Tailed])
<1>1. /\ tail' = [tail EXCEPT !.step = "window", !.batch = b] /\ UNCHANGED <<sent, gaps>>
      /\ UNCHANGED <<rows, head, acked, lost>>
  BY DEF TailReads, journal
<1>2. /\ Tailed \in Node /\ Batch \in Nat \ {0} /\ TRUE \in BOOLEAN /\ NodeOK(Tailed) /\ RailShape
      /\ tail.cursor \in Nat
  BY RailAssumption DEF JournalInv, StreamInv
<1>3. /\ b \in Seq(EventOf) /\ Range(b) \subseteq B /\ Sorted(b)
      /\ \A x \in B, y \in Range(b) : x.cursor < y.cursor => x \in Range(b)
  BY <1>2, AfterFacts
<1>4. \A x : x \in B <=> x \in R /\ x.cursor > tail.cursor /\ x.match
  BY DEF Beyond
<1> HIDE DEF b, B, R
<1>5. /\ tail'.step = "window" /\ tail'.cursor = tail.cursor /\ tail'.batch = b
      /\ tail' \in [step : {"read", "window"}, cursor : Nat, batch : Seq(EventOf)]
  BY <1>1, <1>3 DEF StreamInv
<1>6. Top(Tailed)' = Top(Tailed) /\ RetainedFrom(Tailed)' = RetainedFrom(Tailed)
  BY <1>1 DEF Top, Newest, RetainedFrom
<1>7. \A e \in R : e.cursor \in Nat /\ e.cursor <= Top(Tailed) /\ RetainedFrom(Tailed) <= e.cursor
  <2>1. rows[Tailed] \in Seq(EventOf) /\ Sorted(rows[Tailed])
    BY <1>2 DEF RailShape, NodeOK
  <2> QED BY <1>2, <2>1, TopFacts, EventsAreTyped DEF R
<1>8. \A x, y \in R : x.cursor = y.cursor => x = y
  <2> SUFFICES ASSUME NEW x \in R, NEW y \in R, x.cursor = y.cursor PROVE x = y
    OBVIOUS
  <2>1. PICK i \in DOMAIN rows[Tailed], j \in DOMAIN rows[Tailed] :
              x = rows[Tailed][i] /\ y = rows[Tailed][j]
    BY DEF Range, R
  <2>2. i \in Nat /\ j \in Nat /\ Sorted(rows[Tailed])
    BY <1>2 DEF RailShape, NodeOK
  <2>3. ~(i < j) /\ ~(j < i)
    BY <1>7, <2>1, <2>2 DEF Sorted
  <2> QED BY <2>1, <2>2, <2>3
<1>9. ASSUME b # << >>, NEW e \in Range(acked[Tailed]), e.match, e.cursor > tail.cursor,
             e.cursor <= Last(b).cursor
      PROVE  \/ e \in Range(b) \/ <<Tailed, e.cursor>> \in lost
             \/ e.cursor < RetainedFrom(Tailed) /\ e.cursor < Head(b).cursor
  <2>1. Last(b) \in Range(b) /\ Head(b) \in Range(b) /\ Range(b) \subseteq R
    BY <1>3, <1>4, <1>9, EndsOfSorted
  <2>2. e \in R \/ <<Tailed, e.cursor>> \in lost \/ e.cursor < RetainedFrom(Tailed)
    BY <1>2 DEF NodeOK, R
  <2>3. CASE e \in R
    <3>1. e \in B
      BY <1>4, <1>9, <2>3
    <3>2. CASE e.cursor = Last(b).cursor
      BY <1>8, <2>1, <2>3, <3>2
    <3>3. CASE e.cursor < Last(b).cursor
      BY <1>3, <2>1, <3>1, <3>3
    <3> QED BY <1>7, <1>9, <2>1, <2>3, <3>2, <3>3
  <2>4. CASE e.cursor < RetainedFrom(Tailed)
    <3>1. RetainedFrom(Tailed) <= Head(b).cursor /\ Head(b).cursor \in Nat /\ RetainedFrom(Tailed) \in Nat
      BY <1>2, <1>7, <2>1, TopFacts DEF NodeOK
    <3>2. e.cursor \in Nat
      <4>1. acked[Tailed] \in Seq(EventOf)
        BY <1>2 DEF RailShape
      <4> QED BY <4>1, EventsAreTyped
    <3> QED BY <2>4, <3>1, <3>2
  <2> QED BY <2>2, <2>3, <2>4
<1>10. BatchOK'
  <2>1. \A e \in Range(b) : e.cursor > tail.cursor /\ e.cursor <= Top(Tailed)
    BY <1>3, <1>4, <1>7
  <2> QED BY <1>1, <1>3, <1>5, <1>6, <1>9, <2>1 DEF BatchOK
<1>11. StreamIsHonest'
  BY <1>1, <1>5 DEF StreamInv, StreamIsHonest
<1> QED BY <1>1, <1>5, <1>6, <1>10, <1>11 DEF StreamInv

\* What a client has got after another batch.
LEMMA SentAndBatch ==
  ASSUME NEW s \in Seq(EventOf), NEW b \in Seq(EventOf), Sorted(s), Sorted(b),
         \A x \in Range(s), y \in Range(b) : x.cursor < y.cursor
  PROVE  /\ s \o b \in Seq(EventOf) /\ Sorted(s \o b) /\ Range(s \o b) = Range(s) \cup Range(b)
         /\ s # << >> => s \o b # << >> /\ Head(s \o b) = Head(s)
         /\ s = << >> => s \o b = b
<1> DEFINE t == s \o b
           n == Len(s)
<1>1. /\ t \in Seq(EventOf) /\ n \in Nat /\ DOMAIN s = 1 .. n /\ DOMAIN t = 1 .. n + Len(b)
      /\ DOMAIN b = 1 .. Len(b) /\ Len(b) \in Nat
      /\ \A i \in DOMAIN s : t[i] = s[i] /\ i \in DOMAIN t
      /\ \A i \in DOMAIN b : t[n + i] = b[i] /\ n + i \in DOMAIN t
  OBVIOUS
<1>2. \A i \in DOMAIN t : i \in DOMAIN s \/ (i - n \in DOMAIN b /\ t[i] = b[i - n] /\ i > n)
  BY <1>1
<1>3. (s # << >> => n # 0) /\ (s = << >> => t = b)
  OBVIOUS
<1>4. s # << >> => t # << >> /\ Head(t) = t[1] /\ Head(s) = s[1] /\ 1 \in DOMAIN s
  <2> SUFFICES ASSUME s # << >>
               PROVE  t # << >> /\ Head(t) = t[1] /\ Head(s) = s[1] /\ 1 \in DOMAIN s
    OBVIOUS
  <2> HIDE DEF t, n
  <2>1. 1 \in DOMAIN s /\ 1 \in DOMAIN t
    BY <1>1, <1>3
  <2>2. t # << >>
    BY <2>1, NothingLeft
  <2> QED BY <1>1, <2>1, <2>2
<1> HIDE DEF t, n
<1>5. Range(t) = Range(s) \cup Range(b)
  <2>1. Range(t) \subseteq Range(s) \cup Range(b)
    BY <1>1, <1>2 DEF Range
  <2>2. Range(s) \subseteq Range(t)
    BY <1>1 DEF Range
  <2>3. Range(b) \subseteq Range(t)
    BY <1>1 DEF Range
  <2> QED BY <2>1, <2>2, <2>3
<1>6. ASSUME NEW i \in DOMAIN t, NEW j \in DOMAIN t, i < j PROVE t[i].cursor < t[j].cursor
  <2>1. CASE j \in DOMAIN s
    <3>1. i \in DOMAIN s
      BY <1>1, <1>6, <2>1
    <3> QED BY <1>1, <1>6, <2>1, <3>1 DEF Sorted
  <2>2. CASE i \in DOMAIN s /\ j \notin DOMAIN s
    <3>1. t[i] \in Range(s) /\ t[j] \in Range(b)
      BY <1>1, <1>2, <2>2 DEF Range
    <3> QED BY <3>1
  <2>3. CASE i \notin DOMAIN s /\ j \notin DOMAIN s
    <3>1. /\ i - n \in DOMAIN b /\ j - n \in DOMAIN b /\ t[i] = b[i - n] /\ t[j] = b[j - n]
          /\ i - n < j - n
      BY <1>1, <1>2, <1>6, <2>3
    <3> QED BY <3>1 DEF Sorted
  <2> QED BY <2>1, <2>2, <2>3
<1>7. Sorted(t)
  BY <1>6 DEF Sorted
<1> QED BY <1>1, <1>3, <1>4, <1>5, <1>7 DEF t

\* The window is read and the batch sent, or the gap announced.
LEMMA TailSendsKeeps == ASSUME JournalInv, StreamInv, TailSends PROVE StreamInv'
<1> DEFINE from == RetainedFrom(Tailed)
           gap == tail.cursor # 0 /\ tail.cursor + 1 < from
           b == tail.batch
           c == tail.cursor
           A == Range(acked[Tailed])
<1>1. /\ tail.step = "window" /\ UNCHANGED <<rows, head, acked, lost>>
      /\ tail' = [step |-> "read", batch |-> <<>>,
                  cursor |-> IF gap THEN from - 1 ELSE IF b = <<>> THEN c ELSE Last(b).cursor]
      /\ sent' = IF gap THEN sent ELSE sent \o b
      /\ gaps' = IF gap THEN gaps \cup ((c + 1) .. (from - 1)) ELSE gaps
  BY DEF TailSends, journal
<1>2. /\ tail'.step = "read" /\ tail'.batch = << >>
      /\ tail'.cursor = IF gap THEN from - 1 ELSE IF b = <<>> THEN c ELSE Last(b).cursor
  BY <1>1
<1>3. /\ Tailed \in Node /\ NodeOK(Tailed) /\ RailShape /\ BatchOK /\ c \in Nat /\ b \in Seq(EventOf)
      /\ sent \in Seq(EventOf) /\ gaps \subseteq Nat /\ Sorted(sent)
  BY <1>1, RailAssumption DEF JournalInv, StreamInv, StreamIsHonest, Sorted
<1>4. from \in Nat /\ Top(Tailed) \in Nat /\ from <= Top(Tailed) + 1
  BY <1>3, TopFacts DEF NodeOK
<1>5. Top(Tailed)' = Top(Tailed)
  BY <1>1 DEF Top, Newest
<1>6. \A e \in A : e.cursor \in Nat
  <2>1. acked[Tailed] \in Seq(EventOf)
    BY <1>3 DEF RailShape
  <2> QED BY <2>1, EventsAreTyped
<1>7. /\ \A e \in Range(b) : e.cursor \in Nat \ {0} /\ e.cursor > c /\ e.cursor <= Top(Tailed)
      /\ \A e \in Range(sent) : e.cursor \in Nat \ {0} /\ e.cursor <= c
      /\ Sorted(b) /\ (sent = << >> <=> c = 0)
  BY <1>3, EventsAreTyped DEF BatchOK, StreamInv
<1>8. ASSUME NEW e \in A, sent # << >>, e.match, Head(sent).cursor <= e.cursor, e.cursor <= c
      PROVE  e \in Range(sent) \/ e.cursor \in gaps \/ <<Tailed, e.cursor>> \in lost
  BY <1>8 DEF StreamInv, StreamIsHonest
<1>9. ASSUME NEW e \in A, b # << >>, e.match, e.cursor > c, e.cursor <= Last(b).cursor
      PROVE  \/ e \in Range(b) \/ <<Tailed, e.cursor>> \in lost
             \/ e.cursor < from /\ e.cursor < Head(b).cursor
  BY <1>3, <1>9 DEF BatchOK
<1>10. c <= Top(Tailed)
  BY DEF StreamInv
<1> HIDE DEF from, b, c, A
<1>11. CASE gap
  <2>1. tail'.cursor = from - 1 /\ sent' = sent /\ gaps' = gaps \cup ((c + 1) .. (from - 1))
    BY <1>1, <1>2, <1>11
  <2>2. c + 1 < from /\ c # 0
    BY <1>11 DEF c
  <2> HIDE DEF gap
  <2>3. from - 1 \in Nat /\ from - 1 # 0 /\ from - 1 <= Top(Tailed) /\ c <= from - 1
    BY <1>3, <1>4, <2>2
  <2>4. tail' \in [step : {"read", "window"}, cursor : Nat, batch : Seq(EventOf)]
    BY <1>1, <2>1, <2>3, <1>2
  <2>5. gaps' \subseteq Nat
    BY <1>3, <1>4, <2>1
  <2>6. ASSUME NEW e \in A, sent # << >>, e.match, Head(sent).cursor <= e.cursor, e.cursor <= from - 1
        PROVE  e \in Range(sent) \/ e.cursor \in gaps' \/ <<Tailed, e.cursor>> \in lost
    <3>1. CASE e.cursor <= c
      BY <1>8, <2>1, <2>6, <3>1
    <3>2. CASE ~(e.cursor <= c)
      <4>1. e.cursor \in (c + 1) .. (from - 1)
        BY <1>3, <1>4, <1>6, <2>6, <3>2
      <4> QED BY <2>1, <4>1
    <3> QED BY <3>1, <3>2
  <2>7. StreamIsHonest'
    BY <1>1, <1>3, <2>1, <2>6 DEF StreamIsHonest, Sorted, A
  <2>8. \A e \in Range(sent) : e.cursor <= from - 1
    BY <1>3, <1>7, <2>3
  <2> QED BY <1>1, <1>2, <1>3, <1>5, <1>7, <2>1, <2>2, <2>3, <2>4, <2>5, <2>7, <2>8 DEF StreamInv
<1>12. CASE ~gap /\ b = << >>
  <2>1. tail'.cursor = c /\ sent' = sent \o b /\ gaps' = gaps
    BY <1>1, <1>2, <1>12
  <2>2. sent' = sent
    BY <1>3, <1>12, <2>1
  <2> HIDE DEF gap
  <2>3. tail' \in [step : {"read", "window"}, cursor : Nat, batch : Seq(EventOf)]
    BY <1>1, <1>2, <1>3, <2>1
  <2>4. StreamIsHonest'
    BY <1>1, <1>3, <1>8, <2>1, <2>2 DEF StreamIsHonest, Sorted, A
  <2> QED BY <1>1, <1>2, <1>3, <1>5, <1>7, <1>10, <2>1, <2>2, <2>3, <2>4 DEF StreamInv
<1>13. CASE ~gap /\ b # << >>
  <2>1. tail'.cursor = Last(b).cursor /\ sent' = sent \o b /\ gaps' = gaps
    BY <1>1, <1>2, <1>13
  <2>2. c = 0 \/ from <= c + 1
    BY <1>3, <1>4, <1>13 DEF c
  <2> HIDE DEF gap
  <2>3. /\ sent' \in Seq(EventOf) /\ Sorted(sent') /\ Range(sent') = Range(sent) \cup Range(b)
        /\ sent # << >> => sent' # << >> /\ Head(sent') = Head(sent)
        /\ sent = << >> => sent' = b
    <3>1. \A x \in Range(sent), y \in Range(b) : x.cursor < y.cursor
      BY <1>3, <1>7
    <3> QED BY <1>3, <1>7, <2>1, <3>1, SentAndBatch
  <2>4. /\ Last(b) \in Range(b) /\ Head(b) \in Range(b)
        /\ \A e \in Range(b) : e.cursor <= Last(b).cursor
    BY <1>3, <1>7, <1>13, EndsOfSorted
  <2>5. /\ Last(b).cursor \in Nat /\ Last(b).cursor # 0 /\ Last(b).cursor <= Top(Tailed)
        /\ Head(b).cursor \in Nat /\ c < Last(b).cursor
    BY <1>3, <1>7, <2>4
  <2>6. sent' # << >>
    BY <1>13, <2>3
  <2>7. tail' \in [step : {"read", "window"}, cursor : Nat, batch : Seq(EventOf)]
    BY <1>1, <1>2, <2>1, <2>5
  <2>8. ASSUME NEW e \in A, e.match, Head(sent').cursor <= e.cursor, e.cursor <= Last(b).cursor
        PROVE  e \in Range(sent') \/ e.cursor \in gaps \/ <<Tailed, e.cursor>> \in lost
    <3>1. CASE e.cursor <= c
      <4>1. c # 0
        <5>1. ASSUME c = 0 PROVE FALSE
          <6>1. Head(sent') = Head(b) /\ Head(b).cursor > c
            BY <1>7, <2>3, <2>4, <5>1
          <6> QED BY <1>3, <1>6, <2>5, <2>8, <3>1, <6>1
        <5> QED BY <5>1
      <4>2. sent # << >> /\ Head(sent') = Head(sent)
        BY <1>7, <2>3, <4>1
      <4> QED BY <1>8, <2>3, <2>8, <3>1, <4>2
    <3>2. CASE e.cursor > c
      <4>1. \/ e \in Range(b) \/ <<Tailed, e.cursor>> \in lost
            \/ e.cursor < from /\ e.cursor < Head(b).cursor
        BY <1>9, <1>13, <2>8, <3>2
      <4>2. ~(e.cursor < from /\ e.cursor < Head(b).cursor)
        <5>1. CASE c = 0
          <6>1. Head(sent') = Head(b)
            BY <1>7, <2>3, <5>1
          <6> QED BY <1>6, <2>5, <2>8, <6>1
        <5>2. CASE from <= c + 1
          BY <1>3, <1>4, <1>6, <3>2, <5>2
        <5> QED BY <2>2, <5>1, <5>2
      <4> QED BY <2>3, <4>1, <4>2
    <3> QED BY <1>3, <1>6, <3>1, <3>2
  <2>9. StreamIsHonest'
    BY <1>1, <2>1, <2>3, <2>8 DEF StreamIsHonest, Sorted, A
  <2>10. \A e \in Range(sent') : e.cursor <= Last(b).cursor
    BY <1>3, <1>7, <2>3, <2>4, <2>5
  <2> QED BY <1>2, <1>3, <1>5, <2>1, <2>3, <2>5, <2>6, <2>7, <2>9, <2>10 DEF StreamInv
<1> QED BY <1>11, <1>12, <1>13

\* A viewer comes back with the cursor of the last event it got.
LEMMA ReconnectKeeps == ASSUME JournalInv, StreamInv, Reconnect PROVE StreamInv'
<1>1. /\ sent # << >> /\ tail' = [step |-> "read", batch |-> <<>>, cursor |-> Last(sent).cursor]
      /\ UNCHANGED <<sent, gaps, rows, head, acked, lost>>
  BY DEF Reconnect
<1>2. sent \in Seq(EventOf) /\ Sorted(sent) /\ Tailed \in Node /\ tail.cursor \in Nat
  BY RailAssumption DEF StreamInv, StreamIsHonest, Sorted
<1>3. /\ Last(sent) \in Range(sent) /\ Last(sent).cursor \in Nat \ {0}
      /\ \A e \in Range(sent) : e.cursor <= Last(sent).cursor
  BY <1>1, <1>2, EndsOfSorted, EventsAreTyped
<1>4. Last(sent).cursor <= tail.cursor
  BY <1>3 DEF StreamInv
<1>5. tail'.step = "read" /\ tail'.cursor = Last(sent).cursor
  BY <1>1
<1>6. tail' \in [step : {"read", "window"}, cursor : Nat, batch : Seq(EventOf)]
  BY <1>1, <1>3
<1>7. Top(Tailed)' = Top(Tailed) /\ Top(Tailed) \in Nat
  <2>1. Top(Tailed)' = Top(Tailed)
    BY <1>1 DEF Top, Newest
  <2> QED BY <1>2, <2>1, TopFacts DEF JournalInv, NodeOK
<1>8. \A e \in Range(acked[Tailed]) : e.cursor \in Nat
  <2>1. acked[Tailed] \in Seq(EventOf)
    BY <1>2 DEF JournalInv, RailShape
  <2> QED BY <2>1, EventsAreTyped
<1>9. \A e \in Range(acked[Tailed]) : e.cursor <= Last(sent).cursor => e.cursor <= tail.cursor
  BY <1>2, <1>3, <1>4, <1>8
<1>10. StreamIsHonest'
  BY <1>1, <1>5, <1>9 DEF StreamInv, StreamIsHonest
<1>11. Last(sent).cursor <= Top(Tailed)
  BY <1>2, <1>3, <1>4, <1>7 DEF StreamInv
<1> QED BY <1>1, <1>3, <1>5, <1>6, <1>7, <1>10, <1>11 DEF StreamInv

-----------------------------------------------------------------------------
(* The rail. *)

RailInv == JournalInv /\ FleetInv /\ StreamInv

\* Whoever leaves the journal alone leaves it grown, trivially.
LEMMA StillGrown ==
  ASSUME JournalInv, UNCHANGED <<rows, head, acked, lost>>
  PROVE  /\ Grown
         /\ UNCHANGED <<torn, floor>> /\ clock' \in Nat /\ clock' >= clock => JournalInv'
<1>1. \A n \in Node : Top(n)' = Top(n) /\ RetainedFrom(n)' = RetainedFrom(n)
  BY DEF Top, Newest, RetainedFrom
<1>2. \A n \in Node : Top(n) \in Nat /\ RetainedFrom(n) \in Nat
  BY TopFacts DEF JournalInv, NodeOK
<1>3. Grown
  BY <1>1, <1>2 DEF Grown
<1>4. ASSUME UNCHANGED <<torn, floor>>, clock' \in Nat, clock' >= clock PROVE JournalInv'
  <2>1. RailShape'
    BY <1>4 DEF JournalInv, RailShape
  <2>2. ASSUME NEW n \in Node PROVE NodeOK(n)'
    <3>1. NodeOK(n) /\ clock \in Nat /\ rows[n] \in Seq(EventOf)
      BY DEF JournalInv, RailShape
    <3>2. \A e \in Range(rows[n]) : e.at <= clock'
      BY <1>4, <3>1, EventsAreTyped DEF NodeOK
    <3> QED BY <1>1, <1>4, <3>1, <3>2 DEF NodeOK
  <2> QED BY <2>1, <2>2 DEF JournalInv
<1> QED BY <1>3, <1>4

LEMMA RailStep == ASSUME RailInv, [RailNext]_railVars PROVE RailInv'
<1>0. JournalInv /\ FleetInv /\ StreamInv /\ clock \in Nat /\ clock >= clock /\ clock + 1 \in Nat /\ clock + 1 >= clock
  BY DEF RailInv, JournalInv, RailShape
<1>1. ASSUME JournalInv', Grown, UNCHANGED fleet, UNCHANGED stream PROVE RailInv'
  BY <1>0, <1>1, FleetUnmoved, StreamUnmoved DEF RailInv, fleet
<1>2. ASSUME NEW n \in Node, NEW m \in BOOLEAN,
             \/ Publish(n, m) \/ ShortWrite(n, m)
             \/ \E w \in {"write", "head", "trim"} : PublisherDies(n, m, w)
      PROVE  RailInv'
  <2>1. JournalInv' /\ Grown
    BY <1>0, <1>2, PublisherKeeps
  <2>2. UNCHANGED fleet /\ UNCHANGED stream
    BY <1>2 DEF Publish, ShortWrite, PublisherDies
  <2> QED BY <1>1, <2>1, <2>2
<1>3. CASE Tick
  <2>1. UNCHANGED <<rows, head, acked, lost, torn, floor>> /\ clock' = clock + 1
        /\ UNCHANGED fleet /\ UNCHANGED stream
    BY <1>3 DEF Tick, journal, fleet
  <2>2. JournalInv' /\ Grown
    BY <1>0, <2>1, StillGrown
  <2> QED BY <1>1, <2>1, <2>2
<1>4. CASE UNCHANGED railVars
  <2>1. UNCHANGED <<rows, head, acked, lost, torn, floor, clock>>
        /\ UNCHANGED fleet /\ UNCHANGED stream
    BY <1>4 DEF railVars, journal, fleet
  <2>2. JournalInv' /\ Grown
    BY <1>0, <2>1, StillGrown
  <2> QED BY <1>1, <2>1, <2>2
<1>5. CASE TailReads \/ TailSends \/ Reconnect
  <2>1. UNCHANGED <<rows, head, acked, lost, torn, floor, clock>> /\ UNCHANGED fleet
    BY <1>5 DEF TailReads, TailSends, Reconnect, journal, fleet
  <2>2. JournalInv' /\ Grown
    BY <1>0, <2>1, StillGrown
  <2>3. FleetInv'
    BY <1>0, <2>1, <2>2, FleetUnmoved DEF fleet
  <2>4. StreamInv'
    BY <1>0, <1>5, TailReadsKeeps, TailSendsKeeps, ReconnectKeeps
  <2> QED BY <2>2, <2>3, <2>4 DEF RailInv
<1>6. CASE ReadFleet
  <2>1. JournalInv' /\ FleetInv'
    BY <1>0, <1>6, ReadFleetKeeps
  <2>2. UNCHANGED <<rows, head, acked, lost>> /\ UNCHANGED stream
    BY <1>6 DEF ReadFleet, journal
  <2>3. StreamInv'
    BY <1>0, <2>1, <2>2, StillGrown, StreamUnmoved
  <2> QED BY <2>1, <2>3 DEF RailInv
<1> QED BY <1>2, <1>3, <1>4, <1>5, <1>6 DEF RailNext

LEMMA RailStarts == ASSUME RailInit PROVE RailInv
<1>1. /\ << >> \in Seq(EventOf) /\ << >> \in Seq(RowOf) /\ DOMAIN << >> = {} /\ Range(<< >>) = {}
  BY NothingLeft DEF Range
<1>2. RailShape
  BY <1>1 DEF RailInit, RailShape
<1>3. Sorted(<< >>) /\ Timed(<< >>)
  BY <1>1 DEF Sorted, Timed
<1>4. \A n \in Node : Top(n) = 0
  BY DEF RailInit, Top, Newest
<1>5. ASSUME NEW n \in Node PROVE NodeOK(n)
  <2>1. rows[n] = << >> /\ acked[n] = << >> /\ floor[n] = 0
    BY DEF RailInit
  <2> QED BY <1>1, <1>3, <1>4, <2>1 DEF NodeOK
<1>6. FleetInv
  <2>1. merged = << >> /\ \A n \in Node : rows[n] = << >>
    BY DEF RailInit
  <2> QED BY <1>1, <2>1 DEF FleetInv, FleetSkipsNothing
<1>7. StreamInv
  <2>1. /\ tail = [step |-> "read", cursor |-> 0, batch |-> <<>>] /\ sent = << >> /\ gaps = {}
        /\ acked[Tailed] = << >> /\ Top(Tailed) = 0
    BY <1>4, RailAssumption DEF RailInit
  <2> QED BY <1>1, <2>1 DEF StreamInv, StreamIsHonest
<1> QED BY <1>2, <1>5, <1>6, <1>7 DEF RailInv, JournalInv

LEMMA RailInvIsHonest == ASSUME RailInv PROVE RailIsHonest
<1>1. RailTypeOK
  <2>1. tail.cursor \in Nat /\ tail.step \in {"read", "window"} /\ sent \in Seq(EventOf) /\ gaps \subseteq Nat
    BY DEF RailInv, StreamInv
  <2> QED BY <2>1 DEF RailInv, JournalInv, RailShape, RailTypeOK
<1>2. CursorsIdentify /\ AcknowledgedIsDurable
  BY DEF RailInv, JournalInv, NodeOK, Sorted, CursorsIdentify, AcknowledgedIsDurable
<1> QED BY <1>1, <1>2 DEF RailInv, FleetInv, StreamInv, RailIsHonest

\* For any number of nodes, events, faults, reads and reconnects: a cursor names
\* one event, what publish() returned is in the file until a trim takes it or its
\* write was short, the stream passes over no event in silence, and the merged
\* view skips no row that is retained (ActivityJournal, activity_stream,
\* read_fleet).
THEOREM RailStaysHonest == RailSpec => []RailIsHonest
<1>1. RailInv /\ [RailNext]_railVars => RailInv'
  BY RailStep
<1> QED BY RailStarts, <1>1, RailInvIsHonest, PTL DEF RailSpec

-----------------------------------------------------------------------------
(* The pool of workers. *)

\* Each member is tracked once, and is open, was closed by others or is archived,
\* unless a tmux command failed for it.
MembersOK ==
    /\ order \in Seq(Pane)
    /\ \A i, j \in 1 .. Len(order) : order[i] = order[j] => i = j
    /\ drained \subseteq Range(order) /\ open \subseteq Range(order)
    /\ Range(order) \subseteq open \cup external \cup transcript \cup failed
    /\ drained \cap open \subseteq failed

\* The drain results are of members, and archived means there is a transcript and
\* no pane, unless a tmux command failed for it.
ResultsOK ==
    /\ DOMAIN result = Range(order)
    /\ \A p \in DOMAIN result : result[p] = "archived" /\ p \notin failed => p \in transcript \ open

\* A proposal to grow was made below the band; what waits for evidence shrinks.
ProposalOK ==
    /\ proposal # NoProposal => proposal.direction \in {"up", "down"} /\ proposal.target \in Nat
    /\ proposal.direction = "up" =>
         proposal.target = proposal.seen.target /\ proposal.seen.current < proposal.seen.low
    /\ running # NoProposal => running.direction = "down" /\ running.target \in Nat

\* What the last call returned stays true until the next call.
DoneOK ==
    /\ done.call = "destroy" => done.before \subseteq Range(order)
    /\ done.call = "destroy" /\ done.ok => done.before \cap open \subseteq failed
    /\ done.call = "down" /\ done.ok => done.before \cap drained \subseteq transcript \cup failed
    /\ GrowsWithinHeadroom

FleetOK ==
    /\ fleetNow \in [Host -> View] /\ fleetSeen \in [Host -> View]
    /\ PlacedOnReadyNode

PoolInv ==
    /\ MembersOK /\ ResultsOK /\ ProposalOK /\ DoneOK /\ FleetOK /\ free \in 0 .. MaxFree

\* The members of a pool are finitely many.
LEMMA CurrentIsNumber ==
    ASSUME order \in Seq(Pane)
    PROVE  IsFiniteSet(Active) /\ Current \in Nat
<1>1. IsFiniteSet(1 .. Len(order)) BY FS_Interval
<1>2. Active \in SUBSET (1 .. Len(order)) BY DEF Active
<1> QED BY <1>1, <1>2, FS_Subset, FS_CardinalityType DEF Current

\* A set in a row: n of its elements, none twice.
LEMMA DrawnApart ==
    ASSUME NEW S, IsFiniteSet(S), NEW n \in Nat, n <= Cardinality(S)
    PROVE  LET q == SubSeq(SetToSeq(S), 1, n)
           IN  /\ q \in Seq(S) /\ Len(q) = n
               /\ \A i, j \in 1 .. n : q[i] = q[j] => i = j
<1> DEFINE c == Cardinality(S)
<1>1. c \in Nat /\ ExistsBijection(1 .. c, S) BY FS_CardinalityType
<1>2. PICK f \in [1 .. c -> S] : IsInjective(f)
  BY <1>1 DEF ExistsBijection, Bijection, Injection, IsInjective
<1> DEFINE g == SetToSeq(S)
<1>3. g \in [1 .. c -> S] /\ IsInjective(g) BY <1>2 DEF SetToSeq
<1>4. g \in Seq(S) /\ Len(g) = c BY <1>1, <1>3
<1> HIDE DEF g
<1>5. n <= Len(g) BY <1>4
<1>6. /\ SubSeq(g, 1, n) \in Seq(S) /\ Len(SubSeq(g, 1, n)) = n
      /\ \A i \in 1 .. n : SubSeq(g, 1, n)[i] = g[i]
  BY <1>4, <1>5, SubSeqProperties
<1> QED BY <1>3, <1>4, <1>5, <1>6 DEF IsInjective, g

\* The panes that came are unused ones, in order, after the members there were.
LEMMA SpawnsAppend ==
    ASSUME PoolAssumption, order \in Seq(Pane), NEW n \in Nat, NEW phantom, NEW bad,
           Spawns(n, phantom, bad)
    PROVE  \E k \in 0 .. n, q \in Seq(Pane) :
             LET came == {q[i] : i \in 1 .. k}
             IN  /\ Len(q) = k /\ order' = order \o q
                 /\ \A i, j \in 1 .. k : q[i] = q[j] => i = j
                 /\ came \cap Range(order) = {}
                 /\ result' = [p \in DOMAIN result \cup came |-> IF p \in came THEN "none" ELSE result[p]]
                 /\ open' = open \cup (came \ phantom)
                 /\ external' = external \cup (came \cap phantom)
                 /\ UNCHANGED <<drained, transcript, failed>>
<1>1. PICK fresh : fresh = NewPanes(n) OBVIOUS
<1> DEFINE I == {i \in 1 .. n : \A j \in 1 .. i : fresh[j] \notin With(bad, "raises")}
<1>2. PICK k : k = Cardinality(I) OBVIOUS
<1>3. k \in 0 .. n
  <2>1. IsFiniteSet(1 .. n) /\ Cardinality(1 .. n) = n BY FS_Interval
  <2>2. I \in SUBSET (1 .. n) OBVIOUS
  <2> HIDE DEF I
  <2>3. IsFiniteSet(I) /\ Cardinality(I) <= n BY <2>1, <2>2, FS_Subset
  <2>4. Cardinality(I) \in Nat BY <2>3, FS_CardinalityType
  <2> QED BY <1>2, <2>3, <2>4
<1>4. IsFiniteSet(Unused) /\ Unused \subseteq Pane
  <2>1. Unused \in SUBSET Pane BY DEF Unused
  <2> QED BY <2>1, FS_Subset, PoolAssumption DEF PoolAssumption
<1>5. n <= Cardinality(Unused) BY DEF Spawns
<1>6. /\ fresh \in Seq(Unused) /\ Len(fresh) = n
      /\ \A i, j \in 1 .. n : fresh[i] = fresh[j] => i = j
  BY <1>1, <1>4, <1>5, DrawnApart DEF NewPanes
<1>7. PICK q : q = SubSeq(fresh, 1, k) OBVIOUS
<1>8. q \in Seq(Unused) /\ Len(q) = k /\ \A i \in 1 .. k : q[i] = fresh[i]
  <2>1. \A i \in 1 .. k : fresh[i] \in Unused BY <1>3, <1>6
  <2> QED BY <1>3, <1>7, <2>1, SubSeqProperties
<1>9. q \in Seq(Pane) BY <1>4, <1>8
<1>10. {q[i] : i \in 1 .. k} = {fresh[i] : i \in 1 .. k} BY <1>8
<1>11. {q[i] : i \in 1 .. k} \cap Range(order) = {} BY <1>8 DEF Unused
<1>12. \A i, j \in 1 .. k : q[i] = q[j] => i = j BY <1>3, <1>6, <1>8
<1>13. /\ order' = order \o q
       /\ result' = [p \in DOMAIN result \cup {fresh[i] : i \in 1 .. k} |->
                       IF p \in {fresh[i] : i \in 1 .. k} THEN "none" ELSE result[p]]
       /\ open' = open \cup ({fresh[i] : i \in 1 .. k} \ phantom)
       /\ external' = external \cup ({fresh[i] : i \in 1 .. k} \cap phantom)
       /\ UNCHANGED <<drained, transcript, failed>>
  BY <1>1, <1>2, <1>7, Zenon DEF Spawns
<1> HIDE DEF I
<1> QED BY <1>3, <1>8, <1>9, <1>10, <1>11, <1>12, <1>13

\* Spawning keeps the books, and adds at most n to what is active.
LEMMA SpawnsKeep ==
    ASSUME PoolAssumption, MembersOK, ResultsOK, NEW n \in Nat, NEW phantom, NEW bad,
           Spawns(n, phantom, bad)
    PROVE  MembersOK' /\ ResultsOK' /\ Current' <= Current + n
<1>1. PICK k \in 0 .. n, q \in Seq(Pane) :
             LET came == {q[i] : i \in 1 .. k}
             IN  /\ Len(q) = k /\ order' = order \o q
                 /\ \A i, j \in 1 .. k : q[i] = q[j] => i = j
                 /\ came \cap Range(order) = {}
                 /\ result' = [p \in DOMAIN result \cup came |-> IF p \in came THEN "none" ELSE result[p]]
                 /\ open' = open \cup (came \ phantom)
                 /\ external' = external \cup (came \cap phantom)
                 /\ UNCHANGED <<drained, transcript, failed>>
  <2>1. order \in Seq(Pane) BY DEF MembersOK
  <2> QED BY <2>1, SpawnsAppend, Zenon
<1> DEFINE came == {q[i] : i \in 1 .. k}
<1>2. /\ Len(q) = k /\ order' = order \o q
      /\ \A i, j \in 1 .. k : q[i] = q[j] => i = j
      /\ came \cap Range(order) = {}
      /\ result' = [p \in DOMAIN result \cup came |-> IF p \in came THEN "none" ELSE result[p]]
      /\ open' = open \cup (came \ phantom)
      /\ external' = external \cup (came \cap phantom)
      /\ drained' = drained /\ transcript' = transcript /\ failed' = failed
  BY <1>1
<1>3. order \in Seq(Pane) BY DEF MembersOK
<1>4. PICK l \in Nat : l = Len(order) BY <1>3
<1>5. /\ order' \in Seq(Pane) /\ Len(order') = l + k
      /\ \A i \in 1 .. l : order'[i] = order[i]
      /\ \A i \in 1 .. k : order'[l + i] = q[i]
  <2>1. order \o q \in Seq(Pane) /\ Len(order \o q) = l + k
    BY <1>2, <1>3, <1>4, ConcatProperties
  <2>2. \A i \in 1 .. l : (order \o q)[i] = order[i] BY <1>2, <1>3, <1>4
  <2>3. \A i \in 1 .. k : (order \o q)[l + i] = q[i] BY <1>2, <1>3, <1>4
  <2>4. order' = order \o q BY <1>2
  <2> QED BY <2>1, <2>2, <2>3, <2>4
<1>6. DOMAIN order = 1 .. l /\ DOMAIN order' = 1 .. (l + k) BY <1>3, <1>4, <1>5
<1>7. \A i \in 1 .. (l + k) : i \in 1 .. l \/ (i > l /\ i - l \in 1 .. k /\ order'[i] = q[i - l])
  <2> TAKE i \in 1 .. (l + k)
  <2>1. CASE i <= l BY <2>1
  <2>2. CASE i > l
    <3>1. i - l \in 1 .. k /\ l + (i - l) = i BY <2>2
    <3> QED BY <1>5, <2>2, <3>1
  <2> QED BY <2>1, <2>2
<1>8. Range(order') = Range(order) \cup came
  <2>1. ASSUME NEW p \in Range(order') PROVE p \in Range(order) \cup came
    BY <1>5, <1>6, <1>7 DEF Range
  <2>2. ASSUME NEW p \in Range(order) PROVE p \in Range(order')
    BY <1>5, <1>6 DEF Range
  <2>3. ASSUME NEW p \in came PROVE p \in Range(order')
    <3>1. PICK i \in 1 .. k : p = q[i] OBVIOUS
    <3>2. l + i \in 1 .. (l + k) /\ order'[l + i] = p BY <1>5, <3>1
    <3> QED BY <1>6, <3>2 DEF Range
  <2> HIDE DEF came
  <2> QED BY <2>1, <2>2, <2>3
<1>9. \A i, j \in 1 .. Len(order') : order'[i] = order'[j] => i = j
  <2>1. SUFFICES ASSUME NEW i \in 1 .. (l + k), NEW j \in 1 .. (l + k), order'[i] = order'[j] PROVE i = j
    BY <1>5
  <2>2. CASE i \in 1 .. l /\ j \in 1 .. l BY <1>4, <1>5, <2>1, <2>2 DEF MembersOK
  <2>3. ASSUME NEW a \in 1 .. l, NEW b \in 1 .. k PROVE order'[a] # q[b]
    <3>1. order'[a] \in Range(order) BY <1>5, <1>6 DEF Range
    <3>2. q[b] \in came OBVIOUS
    <3> HIDE DEF came
    <3> QED BY <1>2, <3>1, <3>2
  <2>4. CASE i \in 1 .. l /\ j \notin 1 .. l BY <1>7, <2>1, <2>3, <2>4
  <2>5. CASE i \notin 1 .. l /\ j \in 1 .. l
    <3>1. j - 0 = j /\ order'[i] = q[i - l] /\ i - l \in 1 .. k BY <1>7, <2>5
    <3> QED BY <2>1, <2>3, <2>5, <3>1
  <2>6. CASE i \notin 1 .. l /\ j \notin 1 .. l
    <3>1. i - l \in 1 .. k /\ j - l \in 1 .. k /\ q[i - l] = q[j - l] BY <1>7, <2>1, <2>6
    <3>2. i - l = j - l BY <1>2, <3>1
    <3> QED BY <3>2
  <2> QED BY <2>2, <2>4, <2>5, <2>6
<1>10. MembersOK'
  <2>1. drained' \subseteq Range(order') /\ drained' \cap open' \subseteq failed'
    <3> HIDE DEF came
    <3> QED BY <1>2, <1>8 DEF MembersOK
  <2>2. open' \subseteq Range(order') /\ Range(order') \subseteq open' \cup external' \cup transcript' \cup failed'
    <3> HIDE DEF came
    <3> QED BY <1>2, <1>8 DEF MembersOK
  <2>3. Range(order)' = Range(order') BY DEF Range
  <2> QED BY <1>5, <1>9, <2>1, <2>2, <2>3 DEF MembersOK
<1>11. ResultsOK'
  <2> HIDE DEF came
  <2>1. DOMAIN result' = Range(order') BY <1>2, <1>8 DEF ResultsOK
  <2>2. ASSUME NEW p \in DOMAIN result', result'[p] = "archived", p \notin failed' PROVE p \in transcript' \ open'
    <3>1. p \notin came BY <1>2, <2>2
    <3> QED BY <1>2, <2>2, <3>1 DEF ResultsOK
  <2> QED BY <2>1, <2>2 DEF ResultsOK
<1>12. Current' <= Current + n
  <2>1. Active' \subseteq Active \cup ((l + 1) .. (l + k))
    <3>1. SUFFICES ASSUME NEW i \in Active' PROVE i \in Active \cup ((l + 1) .. (l + k)) OBVIOUS
    <3>2. i \in 1 .. (l + k) /\ order'[i] \notin drained BY <1>2, <1>6 DEF Active
    <3>3. CASE i \in 1 .. l BY <1>5, <1>6, <3>2, <3>3 DEF Active
    <3>4. CASE i \notin 1 .. l BY <3>2, <3>4
    <3> QED BY <3>3, <3>4
  <2>2. IsFiniteSet((l + 1) .. (l + k)) /\ Cardinality((l + 1) .. (l + k)) = k BY FS_Interval
  <2>3. IsFiniteSet(Active) /\ Current \in Nat BY <1>3, CurrentIsNumber
  <2> DEFINE U == Active \cup ((l + 1) .. (l + k))
  <2>4. IsFiniteSet(U) /\ Cardinality(U) = Current + k - Cardinality(Active \cap ((l + 1) .. (l + k)))
    BY <2>2, <2>3, FS_Union DEF Current
  <2>5. Cardinality(Active \cap ((l + 1) .. (l + k))) \in Nat
    <3>1. Active \cap ((l + 1) .. (l + k)) \in SUBSET Active OBVIOUS
    <3> QED BY <2>3, <3>1, FS_Subset, FS_CardinalityType
  <2>6. Active' \in SUBSET U BY <2>1
  <2> HIDE DEF U
  <2>7. Cardinality(Active') <= Cardinality(U) /\ IsFiniteSet(Active') BY <2>4, <2>6, FS_Subset
  <2>8. Cardinality(Active') \in Nat BY <2>7, FS_CardinalityType
  <2>9. Current' = Cardinality(Active') BY DEF Current
  <2>10. Cardinality(U) <= Current + n BY <2>3, <2>4, <2>5
  <2>11. Cardinality(U) \in Nat BY <2>4, FS_CardinalityType
  <2> QED BY <2>3, <2>7, <2>8, <2>9, <2>10, <2>11
<1> QED BY <1>10, <1>11, <1>12

\* Draining members keeps the books.
LEMMA DrainsKeep ==
    ASSUME MembersOK, ResultsOK, NEW places \in SUBSET (DOMAIN order), NEW bad,
           Drains(places, bad)
    PROVE  MembersOK' /\ ResultsOK'
<1>1. PICK gone : gone = {order[i] : i \in Stopped(places, bad)} OBVIOUS
<1>2. gone \subseteq Range(order) BY <1>1 DEF Stopped, Range
<1>3. PICK found : found = (gone \cap open) \ With(bad, "unlisted") OBVIOUS
<1>4. PICK amiss : amiss = {p \in gone \cap open : \E b \in bad : b.pane = p} OBVIOUS
<1>5. \A p \in gone \cap open : \A how : p \in With(bad, how) => p \in amiss
  <2> TAKE p \in gone \cap open
  <2> TAKE how
  <2> HAVE p \in With(bad, how)
  <2>1. \E b \in bad : b.pane = p BY DEF With
  <2> QED BY <1>4, <2>1
<1>6. /\ drained' = drained \cup gone
      /\ result' = [p \in DOMAIN result |-> IF p \notin gone THEN result[p]
                                            ELSE IF p \in found THEN "archived" ELSE "absent"]
      /\ transcript' = transcript \cup (found \ With(bad, "uncaptured"))
      /\ open' = open \ (found \ With(bad, "unkilled"))
      /\ failed' = failed \cup amiss
      /\ order' = order /\ external' = external
  BY <1>1, <1>3, <1>4, Zenon DEF Drains, Marked
<1>7. \A p \in gone : p \notin open' \/ p \in failed'
  BY <1>3, <1>5, <1>6
<1>8. \A p \in found : p \notin failed' => p \in transcript' \ open'
  BY <1>3, <1>5, <1>6
<1>9. MembersOK'
  <2>1. Range(order') \subseteq open' \cup external' \cup transcript' \cup failed'
    BY <1>2, <1>3, <1>6, <1>8 DEF MembersOK
  <2>2. drained' \cap open' \subseteq failed' BY <1>6, <1>7 DEF MembersOK
  <2> QED BY <1>2, <1>6, <2>1, <2>2 DEF MembersOK
<1>10. ResultsOK'
  <2>1. ASSUME NEW p \in DOMAIN result', result'[p] = "archived", p \notin failed' PROVE p \in transcript' \ open'
    <3>1. CASE p \notin gone BY <1>6, <2>1, <3>1 DEF ResultsOK
    <3>2. CASE p \in gone /\ p \in found BY <1>8, <2>1, <3>2
    <3>3. CASE p \in gone /\ p \notin found
      <4>1. result'[p] = "absent" BY <1>6, <3>3
      <4> QED BY <2>1, <4>1
    <3> QED BY <3>1, <3>2, <3>3
  <2>2. DOMAIN result' = Range(order') BY <1>6 DEF ResultsOK
  <2> QED BY <2>1, <2>2 DEF ResultsOK
<1> QED BY <1>9, <1>10

\* scale() keeps the books; growing leaves at most target active.
LEMMA ScalesKeeps ==
    ASSUME PoolAssumption, MembersOK, ResultsOK, NEW t \in Nat, NEW phantom, NEW bad,
           Scales(t, phantom, bad)
    PROVE  /\ MembersOK' /\ ResultsOK'
           /\ Current <= t => Current' <= t
<1>1. Current \in Nat BY CurrentIsNumber DEF MembersOK
<1>2. CASE Current > t
  <2>1. Oldest(Current - t) \in SUBSET (DOMAIN order) BY DEF Oldest, Active
  <2>2. Drains(Oldest(Current - t), bad) BY <1>2 DEF Scales
  <2>3. MembersOK' /\ ResultsOK' BY <2>1, <2>2, DrainsKeep
  <2> QED BY <1>1, <1>2, <2>3
<1>3. CASE ~(Current > t)
  <2>1. t - Current \in Nat /\ Current + (t - Current) = t BY <1>1, <1>3
  <2>2. Spawns(t - Current, phantom, bad) BY <1>3 DEF Scales
  <2>3. MembersOK' /\ ResultsOK' /\ Current' <= Current + (t - Current)
    BY <2>1, <2>2, SpawnsKeep
  <2> QED BY <2>1, <2>3
<1> QED BY <1>2, <1>3

\* A call that returned has told nothing that is not so.
LEMMA DoneAfterDestroy ==
    ASSUME MembersOK, MembersOK', NEW bad, Destroy(bad)
    PROVE  DoneOK'
<1>1. /\ done'.call = "destroy" /\ done'.before = Range(order) /\ done'.ok = (Active' = {})
      /\ order' = order
  BY DEF Destroy, Drains
<1>2. ASSUME Active' = {} PROVE Range(order) \cap open' \subseteq failed'
  <2>1. \A i \in DOMAIN order : order[i] \in drained' BY <1>1, <1>2 DEF Active
  <2> QED BY <2>1 DEF MembersOK, Range
<1> QED BY <1>1, <1>2 DEF DoneOK, GrowsWithinHeadroom

LEMMA DoneAfterFinish ==
    ASSUME MembersOK, ResultsOK, MembersOK', ResultsOK', NEW p, p.direction = "down",
           NEW phantom, NEW bad, Finish(p, phantom, bad)
    PROVE  DoneOK'
<1>1. /\ done'.call = "down" /\ done'.before = p.active
      /\ done'.ok => \A q \in p.active \ ActivePanes' : result'[q] = "archived"
  BY DEF Finish
<1>2. ASSUME done'.ok PROVE done'.before \cap drained' \subseteq transcript' \cup failed'
  <2>1. SUFFICES ASSUME NEW q \in p.active, q \in drained' PROVE q \in transcript' \cup failed' BY <1>1
  <2>2. q \notin ActivePanes' BY <2>1 DEF ActivePanes, Active
  <2>3. result'[q] = "archived" BY <1>1, <1>2, <2>2
  <2>4. q \in DOMAIN result' BY <2>1 DEF MembersOK, ResultsOK
  <2> QED BY <2>3, <2>4 DEF ResultsOK
<1> QED BY <1>1, <1>2 DEF DoneOK, GrowsWithinHeadroom

LEMMA NoProposalIsNone == NoProposal.direction = "none"
BY DEF NoProposal

\* What is observed is in numbers, and the target within the headroom.
LEMMA ObservedInNumbers ==
    ASSUME PoolAssumption, free \in 0 .. MaxFree
    PROVE  /\ Resolve \in Nat /\ Observe.headroom = Resolve /\ Observe.current = Current
           /\ Observe.target \in Nat /\ Observe.target <= Resolve
           /\ Observe.low <= Observe.target /\ Observe.low \in Nat
<1>1. Resolve \in Nat BY DEF Resolve, Lesser, PoolAssumption
<1>2. PICK m : m = Lesser(Target, Resolve) OBVIOUS
<1>3. m \in Nat /\ m <= Resolve BY <1>1, <1>2 DEF Lesser, PoolAssumption
<1>4. Lesser(SafeLow, m) \in Nat /\ Lesser(SafeLow, m) <= m BY <1>3 DEF Lesser, PoolAssumption
<1>5. /\ Observe.headroom = Resolve /\ Observe.current = Current /\ Observe.target = m
      /\ Observe.low = Lesser(SafeLow, m)
  BY <1>2 DEF Observe
<1> QED BY <1>1, <1>3, <1>4, <1>5

\* Growing on a proposal that is still what is observed stays within the headroom.
LEMMA DoneAfterExecuteUp ==
    ASSUME PoolAssumption, PoolInv, NEW phantom, NEW bad, ExecuteUp(phantom, bad)
    PROVE  MembersOK' /\ ResultsOK' /\ DoneOK'
<1>1. /\ proposal.direction = "up" /\ Observe = proposal.seen
      /\ proposal.target = proposal.seen.target /\ proposal.seen.current < proposal.seen.low
  BY DEF ExecuteUp, StillObserved, PoolInv, ProposalOK
<1>2. PICK t : t = proposal.target OBVIOUS
<1>3. t \in Nat /\ t <= Resolve /\ Resolve \in Nat /\ Current < Observe.low /\ Observe.low <= t
      /\ Observe.low \in Nat
  BY <1>1, <1>2, ObservedInNumbers DEF PoolInv
<1>4. Current \in Nat BY CurrentIsNumber DEF PoolInv, MembersOK
<1>5. Current <= t BY <1>3, <1>4
<1>6. Scales(t, phantom, bad) BY <1>2 DEF ExecuteUp, Finish
<1>7. MembersOK' /\ ResultsOK' /\ Current' <= t
  BY <1>3, <1>5, <1>6, ScalesKeeps DEF PoolInv
<1>8. Current' \in Nat
  <2>1. order' \in Seq(Pane) BY <1>7 DEF MembersOK
  <2>2. (order \in Seq(Pane) => Current \in Nat)' BY CurrentIsNumber, PTL
  <2> QED BY <2>1, <2>2
<1>9. Current' <= Resolve BY <1>3, <1>7, <1>8
<1>10. done'.call = "up" /\ done'.headroom = Resolve BY <1>1 DEF ExecuteUp, Finish
<1> QED BY <1>7, <1>9, <1>10 DEF DoneOK, GrowsWithinHeadroom

\* A step that leaves members, drain results and answers alone, or only has
\* others close a pane, leaves what was answered true.
LEMMA DoneStays ==
    ASSUME DoneOK, UNCHANGED <<order, drained, transcript, failed, done>>, open' \subseteq open
    PROVE  DoneOK'
<1>1. Current' = Current BY DEF Current, Active
<1> QED BY <1>1 DEF DoneOK, GrowsWithinHeadroom

LEMMA PoolStep ==
    ASSUME PoolAssumption, PoolInv, PoolNext
    PROVE  PoolInv'
<1> USE DEF PoolInv
<1>1. ASSUME NEW phantom \in SUBSET Unused, NEW bad \in Bad, ExecuteUp(phantom, bad) PROVE PoolInv'
  <2>1. MembersOK' /\ ResultsOK' /\ DoneOK' BY <1>1, DoneAfterExecuteUp
  <2>2. ProposalOK' BY <1>1, NoProposalIsNone DEF ExecuteUp, ProposalOK
  <2>3. FleetOK' /\ free' \in 0 .. MaxFree BY <1>1 DEF ExecuteUp, FleetOK, PlacedOnReadyNode, fleetState
  <2> QED BY <2>1, <2>2, <2>3
<1>2. ASSUME NEW phantom \in SUBSET Unused, NEW bad \in Bad, ExecuteDownScales(phantom, bad) PROVE PoolInv'
  <2>1. running.direction = "down" /\ running.target \in Nat BY <1>2 DEF ExecuteDownScales, ProposalOK
  <2>2. Finish(running, phantom, bad) /\ Scales(running.target, phantom, bad)
    BY <1>2 DEF ExecuteDownScales, Finish
  <2>3. MembersOK' /\ ResultsOK' BY <2>1, <2>2, ScalesKeeps
  <2>4. DoneOK' BY <2>1, <2>2, <2>3, DoneAfterFinish
  <2>5. ProposalOK' BY <1>2 DEF ExecuteDownScales, ProposalOK
  <2>6. FleetOK' /\ free' \in 0 .. MaxFree
    BY <1>2 DEF ExecuteDownScales, FleetOK, PlacedOnReadyNode, fleetState
  <2> QED BY <2>3, <2>4, <2>5, <2>6
<1>3. ASSUME NEW phantom \in SUBSET Unused, NEW bad \in Bad, NEW t \in 0 .. HardCeiling,
             Scale(t, phantom, bad)
      PROVE  PoolInv'
  <2>1. t \in Nat BY DEF PoolAssumption
  <2>2. MembersOK' /\ ResultsOK' BY <1>3, <2>1, ScalesKeeps DEF Scale
  <2>3. done'.call = "scale" BY <1>3 DEF Scale
  <2>4. DoneOK' BY <2>3 DEF DoneOK, GrowsWithinHeadroom
  <2>5. ProposalOK' /\ FleetOK' /\ free' \in 0 .. MaxFree
    BY <1>3 DEF Scale, ProposalOK, FleetOK, PlacedOnReadyNode, policy, fleetState
  <2> QED BY <2>2, <2>4, <2>5
<1>4. ASSUME NEW bad \in Bad, Destroy(bad) PROVE PoolInv'
  <2>1. Active \in SUBSET (DOMAIN order) BY DEF Active
  <2>2. MembersOK' /\ ResultsOK' BY <1>4, <2>1, DrainsKeep DEF Destroy
  <2>3. DoneOK' BY <1>4, <2>2, DoneAfterDestroy
  <2>4. ProposalOK' /\ FleetOK' /\ free' \in 0 .. MaxFree
    BY <1>4 DEF Destroy, ProposalOK, FleetOK, PlacedOnReadyNode, policy, fleetState
  <2> QED BY <2>2, <2>3, <2>4
<1>5. ASSUME NEW bad \in Bad, NEW i \in DOMAIN order, DrainOne(i, bad) PROVE PoolInv'
  <2>1. {i} \in SUBSET (DOMAIN order) OBVIOUS
  <2>2. MembersOK' /\ ResultsOK' BY <1>5, <2>1, DrainsKeep DEF DrainOne
  <2>3. done'.call = "drain" BY <1>5 DEF DrainOne
  <2>4. DoneOK' BY <2>3 DEF DoneOK, GrowsWithinHeadroom
  <2>5. ProposalOK' /\ FleetOK' /\ free' \in 0 .. MaxFree
    BY <1>5 DEF DrainOne, ProposalOK, FleetOK, PlacedOnReadyNode, policy, fleetState
  <2> QED BY <2>2, <2>4, <2>5
<1>6. ASSUME NEW p \in Pane, ExternallyClosed(p) PROVE PoolInv'
  <2>1. MembersOK' /\ ResultsOK' BY <1>6 DEF ExternallyClosed, MembersOK, ResultsOK
  <2>2. DoneOK' BY <1>6, DoneStays DEF ExternallyClosed
  <2>3. ProposalOK' /\ FleetOK' /\ free' \in 0 .. MaxFree
    BY <1>6 DEF ExternallyClosed, ProposalOK, FleetOK, PlacedOnReadyNode, policy, fleetState
  <2> QED BY <2>1, <2>2, <2>3
<1>7. ASSUME UNCHANGED <<poolState, done, fleetState>> PROVE MembersOK' /\ ResultsOK' /\ DoneOK' /\ FleetOK'
  <2>1. MembersOK' /\ ResultsOK' /\ FleetOK'
    BY <1>7 DEF poolState, fleetState, MembersOK, ResultsOK, FleetOK, PlacedOnReadyNode
  <2>2. DoneOK' BY <1>7, DoneStays DEF poolState
  <2> QED BY <2>1, <2>2
<1>8. CASE Evaluate
  <2>1. ProposalOK'
    <3>1. PICK o : o = Observe OBVIOUS
    <3>2. o.target \in Nat BY <3>1, ObservedInNumbers
    <3>3. running' = running BY <1>8 DEF Evaluate
    <3>4. CASE o.low <= o.current /\ o.current <= o.high
      BY <1>8, <3>1, <3>3, <3>4, NoProposalIsNone DEF Evaluate, ProposalOK
    <3>5. CASE ~(o.low <= o.current /\ o.current <= o.high) /\ o.current < o.low
      <4>1. proposal' = [direction |-> "up", target |-> o.target, seen |-> o]
        BY <1>8, <3>1, <3>5 DEF Evaluate
      <4> QED BY <3>2, <3>3, <3>5, <4>1 DEF ProposalOK
    <3>6. CASE ~(o.low <= o.current /\ o.current <= o.high) /\ ~(o.current < o.low)
      <4>1. proposal' = [direction |-> "down", target |-> o.target, seen |-> o]
        BY <1>8, <3>1, <3>6 DEF Evaluate
      <4> QED BY <3>2, <3>3, <4>1 DEF ProposalOK
    <3> QED BY <3>4, <3>5, <3>6
  <2> QED BY <1>7, <1>8, <2>1 DEF Evaluate
<1>9. CASE ExecuteDown
  <2>1. ProposalOK' BY <1>9, NoProposalIsNone DEF ExecuteDown, ProposalOK
  <2> QED BY <1>7, <1>9, <2>1 DEF ExecuteDown
<1>10. CASE Refused
  <2>1. ProposalOK' BY <1>10, NoProposalIsNone DEF Refused, ProposalOK
  <2> QED BY <1>7, <1>10, <2>1 DEF Refused
<1>11. ASSUME NEW n \in 0 .. MaxFree, HostLoad(n) PROVE PoolInv'
  <2>1. ProposalOK' BY <1>11 DEF HostLoad, ProposalOK
  <2> QED BY <1>7, <1>11, <2>1 DEF HostLoad
<1> QED BY <1>1, <1>2, <1>3, <1>4, <1>5, <1>6, <1>8, <1>9, <1>10, <1>11 DEF PoolNext

LEMMA FleetStep ==
    ASSUME PoolInv, FleetNext
    PROVE  PoolInv'
<1> USE DEF PoolInv
<1>1. UNCHANGED <<poolState, policy, done>> BY DEF FleetNext, ObserveFleet, Place, FleetChanges
<1>2. MembersOK' /\ ResultsOK' /\ ProposalOK' /\ free' \in 0 .. MaxFree
  BY <1>1 DEF poolState, policy, MembersOK, ResultsOK, ProposalOK
<1>3. DoneOK' BY <1>1, DoneStays DEF poolState
<1>4. CASE ObserveFleet BY <1>2, <1>3, <1>4 DEF ObserveFleet, FleetOK, PlacedOnReadyNode
<1>5. ASSUME NEW h \in Host, Place(h) PROVE PoolInv'
  BY <1>2, <1>3, <1>5 DEF Place, Functional, Eligible, FleetOK, PlacedOnReadyNode
<1>6. ASSUME NEW h \in Host, NEW v \in View, FleetChanges(h, v) PROVE PoolInv'
  BY <1>2, <1>3, <1>6 DEF FleetChanges, FleetOK, PlacedOnReadyNode
<1> QED BY <1>4, <1>5, <1>6 DEF FleetNext

LEMMA PoolStart ==
    ASSUME PoolAssumption, PoolInit
    PROVE  PoolInv
<1>1. MembersOK /\ ResultsOK BY DEF PoolInit, MembersOK, ResultsOK, Range
<1>2. ProposalOK /\ DoneOK BY NoProposalIsNone DEF PoolInit, ProposalOK, DoneOK, GrowsWithinHeadroom
<1>3. FleetOK /\ free \in 0 .. MaxFree
  BY DEF PoolInit, FleetOK, View, PlacedOnReadyNode, PoolAssumption
<1> QED BY <1>1, <1>2, <1>3 DEF PoolInv

LEMMA PoolInvImplies ==
    ASSUME PoolInv
    PROVE  PoolIsSound
<1>1. PoolTypeOK
  <2>1. Range(order) \subseteq Pane BY DEF PoolInv, MembersOK, Range
  <2>2. DOMAIN order = 1 .. Len(order) BY DEF PoolInv, MembersOK
  <2> QED BY <2>1, <2>2 DEF PoolTypeOK, PoolInv, MembersOK, ResultsOK, FleetOK
<1>2. DrainedIsStopped /\ StoppedIsOnRecord
  BY DEF DrainedIsStopped, StoppedIsOnRecord, PoolInv, MembersOK, ResultsOK, DoneOK
<1>3. GrowsWithinHeadroom /\ PlacedOnReadyNode BY DEF PoolInv, DoneOK, FleetOK
<1> QED BY <1>1, <1>2, <1>3 DEF PoolIsSound

\* PoolController and AutoscalePolicy keep to PoolIsSound, for every number of
\* panes and nodes, every band and headroom, and calls that raise anywhere:
\* what is drained is stopped and on record unless others closed it or a tmux
\* command failed for it, which the pool does not notice; growing on a proposal
\* stays within the headroom of that moment, and placements go to nodes that
\* were ready.
THEOREM PoolStaysSound == PoolSpec => []PoolIsSound
<1>1. PoolInit => PoolInv BY PoolStart, PoolAssumption
<1>2. PoolInv /\ [PoolNext \/ FleetNext]_poolVars => PoolInv'
  <2> SUFFICES ASSUME PoolInv, [PoolNext \/ FleetNext]_poolVars PROVE PoolInv' OBVIOUS
  <2>1. CASE PoolNext BY <2>1, PoolStep, PoolAssumption
  <2>2. CASE FleetNext BY <2>2, FleetStep
  <2>3. CASE UNCHANGED poolVars
    <3>1. MembersOK' /\ ResultsOK' /\ ProposalOK' /\ FleetOK' /\ free' \in 0 .. MaxFree
      BY <2>3 DEF PoolInv, poolVars, poolState, policy, fleetState, MembersOK, ResultsOK, ProposalOK,
                  FleetOK, PlacedOnReadyNode
    <3>2. DoneOK' BY <2>3, DoneStays DEF PoolInv, poolVars, poolState
    <3> QED BY <3>1, <3>2 DEF PoolInv
  <2> QED BY <2>1, <2>2, <2>3
<1> QED BY <1>1, <1>2, PoolInvImplies, PTL DEF PoolSpec
=============================================================================
