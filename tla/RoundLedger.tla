----------------------------- MODULE RoundLedger -----------------------------
(***************************************************************************)
(* What the round ledger promises its callers: an idempotency key is       *)
(* decided at most once, a decision is never revised, and the ledger line  *)
(* of a committed round appears in the very step that decides its key.     *)
(* GameRounds implements this with sessions, row locks and a unique index. *)
(***************************************************************************)
EXTENDS Integers, Sequences

CONSTANTS
  Keys,          \* idempotency tuples (user_id, game_id, idempotency_key)
  AllowedPayouts \* the payouts, in token units, a round of each key may have

VARIABLES
  rounds,       \* the game_rounds row of each key, NoRound if there is none
  charged       \* the ledger deltas posted by rounds of each key, oldest first

vars == <<rounds, charged>>

\* The persisted part of a game_rounds row that a caller can observe.
Round == [status: {"committed", "rejected", "failed"}, payout: Int]

NoRound == [status |-> "none", payout |-> 0]

Init ==
  /\ rounds = [k \in Keys |-> NoRound]
  /\ charged = [k \in Keys |-> <<>>]

\* A round that took effect: its payout is the one ledger line of its key.
DecideCommitted(k) ==
  /\ rounds[k] = NoRound
  /\ \E p \in AllowedPayouts[k] :
       /\ rounds' = [rounds EXCEPT ![k] = [status |-> "committed", payout |-> p]]
       /\ charged' = [charged EXCEPT ![k] = Append(@, p)]

\* A round that was refused, or the record of an attempt that broke down.
DecideWithoutCharge(k) ==
  /\ rounds[k] = NoRound
  /\ \E s \in {"rejected", "failed"} :
       rounds' = [rounds EXCEPT ![k] = [status |-> s, payout |-> 0]]
  /\ UNCHANGED charged

Next == \E k \in Keys : DecideCommitted(k) \/ DecideWithoutCharge(k)

Spec == Init /\ [][Next]_vars

==============================================================================
