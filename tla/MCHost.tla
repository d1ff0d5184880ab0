---------------------------------- MODULE MCHost ----------------------------------
(***************************************************************************)
(* The host daemon's parts on small instances.  They share no state, so a   *)
(* behaviour follows one of them, chosen in its initial state (lane).       *)
(***************************************************************************)
EXTENDS ActivityRail, HostSessions, HostFeeds, WorkerPool, TLC

VARIABLE lane

MCScopes == ("ann" :> {"stream", "inject", "dispatch"}) @@ ("bob" :> {"inject", "dispatch"})
            @@ ("eve" :> {"stream"})
MCRank == ("n1" :> 1) @@ ("n2" :> 2)

RailLane ==
    \/ /\ lane = "stream" /\ UNCHANGED <<fleet, clock>> /\ RailNext
       /\ \A n \in Node \ {Tailed} : head'[n] = head[n] /\ rows'[n] = rows[n]
    \/ /\ lane = "fleet" /\ UNCHANGED <<stream, faults>> /\ RailNext
       /\ \A n \in Node : \A e \in Range(acked'[n]) : e.match

FeedsLane ==
    \/ /\ lane \in {"feeds", "screen"} /\ UNCHANGED store /\ FeedsNext
       /\ lane = "screen" => UNCHANGED changes
    \/ lane = "archive" /\ UNCHANGED <<pumps, jobs, misses>> /\ FeedsNext

SessionsLane ==
    \/ lane = "sessions" /\ UNCHANGED archiver /\ HostsNext
    \/ /\ lane = "archiver" /\ UNCHANGED <<brake, refusals>> /\ HostsNext
       /\ Cardinality(calls') < MaxCalls /\ \A r \in calls' : r.by \in Cleared

PoolLane ==
    \/ lane = "pool" /\ UNCHANGED failed /\ PoolNext
    \/ lane = "troubled" /\ UNCHANGED <<external, free>> /\ PoolNext
    \/ lane = "placement" /\ FleetNext

HostInit ==
    /\ RailInit /\ HostsInit /\ FeedsInit /\ PoolInit
    /\ lane \in {"stream", "fleet", "sessions", "archiver", "feeds", "screen", "archive",
               "pool", "troubled", "placement"}
    /\ lane # "feeds" => status = [j \in Job |-> "ok"]
    /\ alive = IF lane = "feeds" THEN Feed \ Scraped ELSE Scraped

HostNext ==
    /\ lane' = lane
    /\ \/ RailLane /\ UNCHANGED hostVars /\ UNCHANGED feedVars /\ UNCHANGED poolVars
       \/ SessionsLane /\ UNCHANGED railVars /\ UNCHANGED feedVars /\ UNCHANGED poolVars
       \/ FeedsLane /\ UNCHANGED railVars /\ UNCHANGED hostVars /\ UNCHANGED poolVars
       \/ /\ PoolLane
          /\ UNCHANGED railVars /\ UNCHANGED hostVars /\ UNCHANGED feedVars

HostVars == <<railVars, hostVars, feedVars, poolVars, lane>>

HostSpec ==
    /\ HostInit /\ [][HostNext]_HostVars
    /\ WF_railVars(lane = "stream" /\ TailReads)
    /\ WF_railVars(lane = "stream" /\ TailSends)
    /\ WF_feedVars(lane \in {"feeds", "screen"} /\ SuperviseNext)
    /\ \A s \in Feed : WF_feedVars(lane \in {"feeds", "screen"} /\ PumpNext(s))

(* In the lanes where they run. *)
StreamCaughtUp == lane = "stream" => StreamCatchesUp
FeedsReachRail == lane \in {"feeds", "screen"} => EventsReachRail
FeedsAnnounced == lane \in {"feeds", "screen"} => JobsAnnounced

(* What hostd owes its clients in the end: the stream passes every event    *)
(* (activity_stream), a session's events reach the rail although pumps die  *)
(* (_supervise_session_activity), and a job's state is announced.           *)
HostDelivers == StreamCaughtUp /\ FeedsReachRail /\ FeedsAnnounced
=============================================================================
