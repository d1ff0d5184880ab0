--------------------------------- MODULE MCRecords ---------------------------------
(***************************************************************************)
(* The records on small instances: the arena's event segment, artifacts and *)
(* job ledger, its refinement journal, collaboration access and             *)
(* verification, and the joule wallet, cost ledger, deploys and work grades *)
(* of autocode.  They share no state, so a behaviour follows one of them,   *)
(* chosen in its initial state (lane).                                      *)
(***************************************************************************)
EXTENDS ArenaStore, ArenaRefinement, ArenaAccess, ArenaVerdict, JouleWallet, CostLedger,
        ChangeDeploy, WorkGrading, TLC

CONSTANT Lanes       \* the records a run is about

VARIABLE lane

AllLanes == {"segment", "artifacts", "jobs", "refine", "access", "verify", "frontier",
             "wallet", "bridge", "midnight", "engine", "change", "grading", "quality"}

MCProposer == ("p" :> "ann") @@ ("q" :> "bob")
MCEarns == ("s1" :> 2) @@ ("s2" :> 1)
MCCosts == ("s1" :> 1) @@ ("s2" :> 2)
MCCardOf == ("d1" :> "c1") @@ ("d2" :> "c1") @@ ("d3" :> "c2")
MCRunner == ("e1" :> "ann") @@ ("e2" :> "bob")
MCAxes == {[size |-> 0, risk |-> 2, advice |-> "public"]}
MCTolerance == [o \in Objective |-> 0]

Zero == [c \in Candidate |-> [o \in Objective |-> 0]]

RecordsInit ==
    /\ StoreInit /\ RefineInit /\ AccessInit /\ VerifyInit /\ WalletInit /\ CostInit /\ DeployInit
    /\ GradingInit
    /\ lane \in Lanes
    /\ metrics \in (IF lane = "frontier" THEN [Candidate -> [Objective -> Value]] ELSE {Zero})
    /\ frontier = {"none"}
    /\ claim \/ lane = "verify"
    /\ lane = "change" \/ (change.by = "bob" /\ change.mode = "auto")
    /\ card.grade = HalfGrade /\ card.text = "plain"
    /\ extended /\ (lane = "grading" \/ overrides)
    /\ lane = "quality" \/ (route.default = NoMark /\ route.floor = NoMark /\ route.tag = NoMark)

arenaVars == <<storeVars, refineVars, accessVars, verdictVars>>
economyVars == <<walletVars, costVars, deployVars, gradingVars, route>>

RecordsNext ==
    /\ lane' = lane
    /\ \/ /\ UNCHANGED economyVars
          /\ \/ /\ lane \in {"segment", "artifacts", "jobs"}
                /\ UNCHANGED <<refineVars, accessVars, verdictVars>>
                /\ \/ lane = "segment" /\ SegmentNext
                   \/ lane = "artifacts" /\ ArtifactNext
                   \/ lane = "jobs" /\ JobNext
             \/ /\ lane = "refine" /\ UNCHANGED <<storeVars, accessVars, verdictVars>>
                /\ RefineNext
             \/ /\ lane = "access" /\ UNCHANGED <<storeVars, refineVars, verdictVars>>
                /\ AccessNext
             \/ /\ lane \in {"verify", "frontier"}
                /\ UNCHANGED <<storeVars, refineVars, accessVars>>
                /\ \/ lane = "verify" /\ VerifyNext
                   \/ lane = "frontier" /\ ComputeFrontier
       \/ /\ UNCHANGED <<arenaVars, gradingVars, route>>
          /\ \/ lane = "wallet" /\ UNCHANGED <<costVars, deployVars>> /\ WalletNext
             \/ /\ lane = "bridge" /\ UNCHANGED <<walletVars, deployVars>>
                /\ \E d \in Dispatch : DispatchNext(d)
             \/ /\ lane = "midnight" /\ UNCHANGED <<walletVars, deployVars, mishaps>>
                /\ NextDay \/ \E d \in Dispatch : DispatchNext(d)
             \/ /\ lane = "engine" /\ UNCHANGED <<walletVars, deployVars>>
                /\ \/ EngineNext \/ NextDay
                   \/ \E run \in {"name", "airun"} : TestRow(run)
                   \/ DispatchNext("d3") /\ UNCHANGED mishaps
             \/ lane = "change" /\ UNCHANGED <<walletVars, costVars>> /\ ChangeNext
       \/ /\ UNCHANGED <<arenaVars, walletVars, costVars, deployVars>>
          /\ \/ lane = "grading" /\ UNCHANGED route /\ GradingNext
             \/ lane = "quality" /\ UNCHANGED gradingVars /\ Classify

RecordsVars == <<arenaVars, economyVars, lane>>

RecordsSpec ==
    /\ RecordsInit /\ [][RecordsNext]_RecordsVars
    /\ \A s \in Settler \ Hanging : WF_walletVars(lane = "wallet" /\ SettlerNext(s))
    /\ \A d \in Deploy : WF_deployVars(lane = "change" /\ DeployNext(d))

(* What was begun comes to an end: a settlement ends although the holder of *)
(* the lock hangs (joules.py, settle_lock), and a change that is being      *)
(* implemented gets its outcome unless a dispatch died or its event was     *)
(* lost (change_deploy_bridge.py).                                          *)
RecordsSettle == SettlementsEnd /\ DeploysEnd
=============================================================================
