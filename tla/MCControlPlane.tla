---------------------------- MODULE MCControlPlane ----------------------------
(***************************************************************************)
(* Small control planes: a session message that names an expected state, a  *)
(* cancel of one agent, a cancel of a run and an unsupported job retry.     *)
(***************************************************************************)
EXTENDS ControlPlane, TLC

MCContents == {"message", "cancelAgent", "cancelRun", "retryJob"}
MCKindOf ==
    ("message" :> "session") @@ ("cancelAgent" :> "agent")
    @@ ("cancelRun" :> "run") @@ ("retryJob" :> "job")

MCMixed == {"message", "cancelAgent"}

MCKindMixed == [x \in MCMixed |-> MCKindOf[x]]

MCEveryone == [o \in Owner |-> {x \in Content : Kind[x] \in {"run", "agent"}}]
=============================================================================
