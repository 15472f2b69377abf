----------------------------- MODULE MCGameRounds -----------------------------
(***************************************************************************)
(* Instances of GameRounds for TLC: one user with one account.  Units are  *)
(* half tokens, so the odd multiples of the wheel stay whole.              *)
(***************************************************************************)
EXTENDS GameRounds, TLC

CONSTANTS u1, flip, flip2, wheel, plain, toobig

MCKeyUser == [k \in Keys |-> u1]

MCKeyGame ==
  [k \in Keys |-> CASE k \in {flip, flip2} -> "coin_flip"
                    [] k = wheel -> "bonus_wheel"
                    [] OTHER -> "phase1:test"]

\* A one-token bet for each game, a two-token debit without the engine, and a bet
\* above every limit.
MCKeyBet == [k \in Keys |-> CASE k = plain -> 2 [] k = toobig -> 5 [] OTHER -> 1]

MCMinBet == [g \in {"coin_flip", "bonus_wheel"} |-> 1]
MCMaxBet == [g \in {"coin_flip", "bonus_wheel"} |-> 2]

MCOpeningBalance == [u \in Users |-> 2]

\* Adjustments by admins: a credit and a debit, only debits, only credits.
MCCreditAndDebit == {1, -2}
MCDebit == {-1}
MCCredit == {1}

\* Workers are interchangeable, and so are admins.
MCSymmetry == Permutations(Workers) \cup Permutations(Admins)

===============================================================================
