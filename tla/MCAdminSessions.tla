---------------------------- MODULE MCAdminSessions ----------------------------
(***************************************************************************)
(* Instances of AdminSessions for TLC.                                     *)
(***************************************************************************)
EXTENDS AdminSessions, TLC

MCSymmetry == Permutations(Threads) \cup Permutations(Sids)

===============================================================================
