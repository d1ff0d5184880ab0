------------------------------- MODULE MCSwarmRun -------------------------------
(***************************************************************************)
(* A plan of two phases: a scout and a read-only tester in parallel, then a *)
(* builder.  The two parallel workers interleave with each other and with   *)
(* Atlas; the builder shows the commit chain.                               *)
(***************************************************************************)
EXTENDS SwarmRun, TLC

MCContract == {"s", "b", "t"}
MCRole == ("s" :> "scout") @@ ("b" :> "builder") @@ ("t" :> "tester")
MCPhases == <<{"s", "t"}, {"b"}>>
MCAfter == (1 :> {}) @@ (2 :> {1})

R(status, ok, assess, findings) ==
    [kind |-> "run", status |-> status, ok |-> ok, assess |-> assess, findings |-> findings]

MCRaws == ("s" :> {R("none", TRUE, "actionable", "typed"), R("none", TRUE, None, "absent"),
                   R("none", TRUE, "actionable", "absent")})
       @@ ("b" :> {R("none", TRUE, None, "absent"), R("none", FALSE, None, "absent")})
       @@ ("t" :> {R("none", TRUE, None, "absent")})

E(passed, source, test) == [passed |-> passed, source |-> source, test |-> test]
A(by, signed, verdict, stale, e) ==
    [by |-> by, signed |-> signed, verdict |-> verdict, stale |-> stale,
     criteria |-> [k \in Criteria |-> e]]

MCGood == E(TRUE, "verifier", "preexisting")
MCAttestations ==
    {None, A("b", TRUE, "approved", "nothing", MCGood), A("v", FALSE, "approved", "nothing", MCGood),
     A("v", TRUE, "rejected", "nothing", MCGood),
     A("v", TRUE, "approved", "nothing", E(TRUE, "verifier", "worker_authored"))}
    \cup {A("v", TRUE, "approved", stale, MCGood) : stale \in {"nothing", "lineage", "commit", "results"}}
=============================================================================
