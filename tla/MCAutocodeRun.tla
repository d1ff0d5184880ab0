----------------------------- MODULE MCAutocodeRun -----------------------------
(***************************************************************************)
(* Small autopilot instances.  The build cycle: one world passes the gate,  *)
(* one misses its coverage floor, one is salvaged; the checks of a request  *)
(* pass, are skipped or cancelled, fail, are pending or absent, and no      *)
(* merge method is allowed or one.  The board: two epics, proposals of one  *)
(* and two titles, one title in two spellings, and the operator's           *)
(* decisions.  These parts share no state, so a behaviour follows one of    *)
(* them, chosen in its initial state (lane).                                *)
(***************************************************************************)
EXTENDS AutocodeRun, AutocodeEpics, TLC

CONSTANTS
    Lanes,
    e1, e2

VARIABLE lane

Measured(covered, missed) ==
    [cmd |-> TRUE, removable |-> TRUE, exited |-> TRUE, report |-> TRUE,
     covered |-> covered, missed |-> missed, source |-> TRUE]

World(ci, run, m, score, promise) ==
    [ci |-> ci, run |-> run, m |-> m, score |-> score, promise |-> promise]

MCWorlds == {
    World("local", "success", Measured(1, 0), "five", TRUE),
    World("local", "success", Measured(1, 1), "five", TRUE),
    World("local", "success", Measured(0, 0), "none", FALSE)}

Seen(core, sec) == [core |-> core, sec |-> sec]

MCChecks == {
    Seen({"pass", "cancel"}, {"skipping"}),
    Seen({"pass", "fail"}, {}), Seen({"pass"}, {"fail"}), Seen({"pass", "pending"}, {}), Seen({}, {"pass"})}
MCPassed == {Seen({"pass"}, {})}

MCPolicies == {
    [repository |-> {"squash", "merge"}, rules |-> {{"merge"}}],
    [repository |-> {"squash"}, rules |-> {{"merge"}}]}

MCAssessments == {[c \in Card |-> "valid"], [c \in Card |-> IF c \in DirectCards THEN "decide" ELSE "obsolete"]}
MCPlacements == {{}, DirectCards}
MCValid == {[c \in Card |-> "valid"]}
MCLocal == {{}}

MCPicks == <<{1, 2}, {1}>>
MCOnes == <<{1}, {1}>>

MCRepoOf == [e \in Epic |-> TRUE]
MCDepthOf == [e \in Epic |-> IF e = e2 THEN 1 ELSE 0]

Ground(named, resolved, create) ==
    [grounded |-> TRUE, named |-> named, resolved |-> resolved, create |-> create]

MCGrounds == {Ground(2, 1, FALSE), Ground(2, 0, FALSE), Ground(2, 0, TRUE)}

MCSplits == {<<>>, <<<<"c", 1>>>>, <<<<"a", 1>>, <<"b", 1>>>>, <<<<"a", 2>>, <<"c", 1>>>>}
MCHandTitles == {<<"c", 1>>}
MCCoherent == {<<"a", 1>>, <<"a", 2>>, <<"b", 1>>, <<"c", 1>>}

AutopilotInit == Init /\ EpicsInit /\ lane \in Lanes

\* The board may be at rest at any time, the autopilot only between two
\* invocations: one that waits for itself, after a lost claim, a spent budget or a
\* kill switch, is a deadlock.
AtRest == (lane = "cycle" => phase = "idle") /\ UNCHANGED <<vars, epicVars>>

\* Bound: a behaviour of the cycle has a crash, a kill switch or a failing call, and
\* the call fails while there is one worker.
OneDisturbance ==
    /\ crashes' + ghost'.faults + (IF stopped' THEN 1 ELSE 0) <= 1
    /\ ghost'.faults = ghost.faults \/ workers = 1

\* Bound: after a crash the peer claims and releases nothing, this node's claims are
\* stale, every open card is assessed valid and the fleet places none elsewhere.
QuietAfterCrash ==
    crashes > 0 =>
        /\ \A c \in Card : board'[c].holder = Peer <=> board[c].holder = Peer
        /\ phase = "assess" /\ phase' = "triage" =>
              scope' = {c \in Card : Open(c)} /\ \A c \in Card : board'[c].holder # Self
        /\ \A c \in Card : mem'[c].state = "off-node" => mem[c].state = "off-node"

AutopilotNext ==
    /\ lane' = lane
    /\ \/ lane = "cycle" /\ Next /\ OneDisturbance /\ QuietAfterCrash /\ UNCHANGED epicVars
       \/ lane = "split" /\ Epics /\ UNCHANGED vars
       \/ lane = "answer" /\ Decisions /\ UNCHANGED vars
       \/ AtRest

AutopilotSpec == AutopilotInit /\ [][AutopilotNext]_<<vars, epicVars, lane>>
=============================================================================
