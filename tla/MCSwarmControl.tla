---------------------------- MODULE MCSwarmControl ----------------------------
(***************************************************************************)
(* Small teams for SwarmControl: two builders 1 and 2 (roots) and, in the   *)
(* three-contract plan, a tester 3 that depends on both.                    *)
(***************************************************************************)
EXTENDS SwarmControl, TLC

U(w, n) == [wall |-> w, units |-> n]

MCTwo == {1, 2}
MCThree == {1, 2, 3}

MCBudgetTwo == [c \in MCTwo |-> U(2, 2)]
MCBudgetThree == [c \in MCThree |-> U(2, 2)]
MCTeamRoomy == U(6, 6)
MCTeamTight == U(6, 3)

MCPredTwo == [c \in MCTwo |-> {}]
MCPredThree == (1 :> {}) @@ (2 :> {}) @@ (3 :> {1, 2})

MCWorktreeTwo == [c \in MCTwo |-> "w"]
MCWorktreeThree == [c \in MCThree |-> "w"]
MCDisjointTwo == [c \in MCTwo |-> {c}]
MCSharedThree == (1 :> {1}) @@ (2 :> {1}) @@ (3 :> {})

Outcome(disposition, commit) ==
    [disposition |-> disposition, commit |-> commit, reason |-> None, budget |-> FALSE]
MCCompleted == {Outcome("completed", None)}
MCOutcomes == {Outcome("completed", k) : k \in Commit} \cup {Outcome("failed", None)}
MCKeySymmetry == Permutations(Key)

MCOne == {U(0, 1)}
MCMixed == {U(0, 1), U(0, 3)}
=============================================================================
