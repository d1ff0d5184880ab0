---------------------------- MODULE MCArenaAttempt ----------------------------
(***************************************************************************)
(* Small instances of ArenaAttempt: the deliveries may carry the same or    *)
(* different attempts.                                                      *)
(***************************************************************************)
EXTENDS ArenaAttempt, TLC

MCSymmetry == Permutations(Attempt) \cup Permutations(Delivery)
=============================================================================
