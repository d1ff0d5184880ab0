---------------------------- MODULE CommandMailbox ----------------------------
(***************************************************************************)
(* What the Atlas control plane promises of one steering command, whoever   *)
(* submits, polls, crashes or retries: it is accepted once, moves forward   *)
(* through queued and applying to one terminal receipt, is acted upon at    *)
(* most once and only while it is being applied, and an applied receipt     *)
(* means that it was acted upon.                                            *)
(***************************************************************************)
EXTENDS Naturals

CONSTANT Id

VARIABLES
    status,   \* the latest receipt of each command, "none" before the first
    acted     \* how many times the target of each command was acted upon

mailbox == <<status, acted>>

Terminal == {"applied", "rejected", "unsupported", "conflict", "expired"}

Init ==
    /\ status = [c \in Id |-> "none"]
    /\ acted = [c \in Id |-> 0]

\* A command is durably queued with its first receipt.
Accept(c) ==
    /\ status[c] = "none"
    /\ status' = [status EXCEPT ![c] = "queued"]
    /\ UNCHANGED acted

\* A controller takes the command to apply it.
Take(c) ==
    /\ status[c] = "queued"
    /\ status' = [status EXCEPT ![c] = "applying"]
    /\ UNCHANGED acted

\* The controller acts on the target.
Act(c) ==
    /\ status[c] = "applying"
    /\ acted[c] = 0
    /\ acted' = [acted EXCEPT ![c] = 1]
    /\ UNCHANGED status

\* The controller reports how an applying command ended.
Settle(c) ==
    /\ status[c] = "applying"
    /\ \E s \in Terminal :
        /\ s = "applied" => acted[c] = 1
        /\ s \notin {"applied", "rejected"} => acted[c] = 0
        /\ status' = [status EXCEPT ![c] = s]
    /\ UNCHANGED acted

\* Queued commands are refused, or expire, without anyone acting on them;
\* one poll of the mailbox may expire several.
Drop ==
    /\ \E D \in SUBSET {c \in Id : status[c] = "queued"} :
        \E s \in Terminal \ {"applied", "rejected"} :
            status' = [c \in Id |-> IF c \in D THEN s ELSE status[c]]
    /\ UNCHANGED acted

Next ==
    \/ \E c \in Id : Accept(c) \/ Take(c) \/ Act(c) \/ Settle(c)
    \/ Drop

Spec == Init /\ [][Next]_mailbox
=============================================================================
