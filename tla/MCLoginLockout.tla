---------------------------- MODULE MCLoginLockout -----------------------------
(***************************************************************************)
(* Instances of LoginLockout for TLC.                                      *)
(***************************************************************************)
EXTENDS LoginLockout, TLC

MCSymmetry == Permutations(Threads) \cup Permutations(Ips) \cup Permutations(LockRows)

===============================================================================
