---------------------------- MODULE MCSubscriptions ----------------------------
(***************************************************************************)
(* Instances of Subscriptions for TLC.                                     *)
(***************************************************************************)
EXTENDS Subscriptions, TLC

MCSymmetry ==
  Permutations(Threads) \cup Permutations(SubRows) \cup Permutations(Customers)

===============================================================================
