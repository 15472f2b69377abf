------------------------------ MODULE GameRounds ------------------------------
(***************************************************************************)
(* Game rounds against the token ledger, as PostgreSQL sessions run them.  *)
(*                                                                         *)
(* A worker is a session of the Telegram process inside                    *)
(* _telegram_game_work: one transaction around run_game_detailed and       *)
(* execute_game_round.  An admin is a session of the API process inside    *)
(* the token adjustment endpoint.  Both end in adjust_user_tokens.         *)
(*                                                                         *)
(* The tables are the committed state.  What a transaction has written and *)
(* not yet committed is in the session's own variables, and reaches other  *)
(* sessions only through the account row lock and the unique index on      *)
(* (user_id, game_id, idempotency_key).  Every read is a statement of its  *)
(* own under READ COMMITTED, so each is a step of its own.                 *)
(***************************************************************************)
EXTENDS Integers, Sequences

CONSTANTS
  Workers,              \* sessions that run game rounds
  Admins,               \* sessions that adjust a user's tokens
  Users,
  Keys,                 \* idempotency tuples (user_id, game_id, idempotency_key)
  KeyUser, KeyGame,     \* the user and the game of each key
  KeyBet,               \* the whole-token bet of the update that carries the key
  DirectKeys,           \* keys passed to execute_game_round without the engine
  GamesEnabled,         \* setting: the games that may be played
  MinBet, MaxBet,       \* settings: the bet range of each game, in whole tokens
  CooldownGames,        \* games whose effective cooldown is above zero
  TokenUnitScale,       \* setting: token units in a whole token
  GameAccessMinTokens,  \* setting: whole tokens a user needs to play at all
  MaxBetAmount,         \* the round service's own limit on a bet
  OpeningBalance,       \* units each account starts with, funded through the ledger
  AdminDeltas,          \* the adjustments admins make, in units
  MaxBalance,           \* bound: admins credit no account beyond this
  MaxCounted,           \* bound: the metrics counter of a key saturates here
  NoKey, Nobody

Sessions == Workers \cup Admins

ASSUME ConstantsAssumption ==
  /\ KeyUser \in [Keys -> Users]
  /\ KeyBet \in [Keys -> Nat]
  /\ DirectKeys \subseteq Keys
  /\ TokenUnitScale \in Nat \ {0}
  /\ GameAccessMinTokens \in Nat \ {0}
  /\ MaxBetAmount \in Nat
  /\ OpeningBalance \in [Users -> Nat]
  /\ AdminDeltas \subseteq Int
  /\ MaxCounted \in Nat
  /\ Workers \cap Admins = {}
  /\ Nobody \notin Sessions
  /\ NoKey \notin Keys

VARIABLES
  \* committed tables
  rounds,       \* the game_rounds row of each key, NoRound if there is none
  charged,      \* ledger deltas posted by rounds of each key, oldest first
  balance,      \* token_accounts.balance_units of each user
  posted,       \* the sum of each user's ledger_entries.delta_units
  cooling,      \* <<user, game>> whose last committed round is within the cooldown
  \* locks held by open transactions
  accountLock,  \* the session holding each user's account row FOR UPDATE
  \* sessions
  pc,           \* where each session is
  key,          \* the key each worker is serving
  via,          \* how a worker got its row: own insert, found, replay, or none yet
  row,          \* the round a worker holds, uncommitted when via is own
  acct,         \* balance_units of the account object in the session's identity map
  order,        \* the user and delta each admin is working on
  \* the metrics of the bot process
  counted       \* times the metrics counted a key's round as a first write

tables == <<rounds, charged, balance, posted, cooling>>
vars == <<tables, accountLock, pc, key, via, row, acct, order, counted>>

-------------------------------------------------------------------------------
(* Rounds, stakes and payouts *)

Round == [status: {"committed", "rejected", "failed"}, payout: Int]

NoRound == [status |-> "none", payout |-> 0]

NoOrder == [user |-> Nobody, delta |-> 0]

StakeUnits(k) == KeyBet[k] * TokenUnitScale

CoinFlipPayouts(stake) == {stake, -stake}

BonusWheelPayouts(stake) == {-stake, stake \div 2, stake, (stake * 5) \div 2}

\* Without an outcome from a game, a round debits its stake.
Payouts(k) ==
  IF k \in DirectKeys THEN {-StakeUnits(k)}
  ELSE IF KeyGame[k] = "coin_flip" THEN CoinFlipPayouts(StakeUnits(k))
  ELSE BonusWheelPayouts(StakeUnits(k))

Slot(k) == <<KeyUser[k], KeyGame[k]>>

\* The request passes the checks that come before any read of the database.
Admissible(k) ==
  /\ KeyGame[k] \in GamesEnabled
  /\ MinBet[KeyGame[k]] <= KeyBet[k]
  /\ KeyBet[k] <= MaxBet[KeyGame[k]]

-------------------------------------------------------------------------------
(* Locks and transactions *)

HoldsIndexEntry(w) == via[w] = "own"

\* Mutant of IndexFree: an index that is not unique.
IndexAlwaysFree(w) == TRUE

\* An insert of a key waits for the open transaction that has inserted it.
IndexFree(w) ==
  \A v \in Workers \ {w} : HoldsIndexEntry(v) => key[v] # key[w]

\* The locks left once the sessions in S end their transactions.
Unlocked(S) ==
  [u \in Users |-> IF accountLock[u] \in S THEN Nobody ELSE accountLock[u]]

Goto(s, label) == pc' = [pc EXCEPT ![s] = label]

\* Mutant of Leave: the session goes back to the pool inside its transaction.
LeaveLocked(w) ==
  /\ Goto(w, "idle")
  /\ key' = [key EXCEPT ![w] = NoKey]
  /\ via' = [via EXCEPT ![w] = "none"]
  /\ row' = [row EXCEPT ![w] = NoRound]
  /\ acct' = [acct EXCEPT ![w] = 0]
  /\ UNCHANGED accountLock

\* Worker w is done with its update: nothing of its transaction is left.
Leave(w) ==
  /\ Goto(w, "idle")
  /\ key' = [key EXCEPT ![w] = NoKey]
  /\ via' = [via EXCEPT ![w] = "none"]
  /\ row' = [row EXCEPT ![w] = NoRound]
  /\ acct' = [acct EXCEPT ![w] = 0]
  /\ accountLock' = Unlocked({w})

Abandon(w) == Leave(w) /\ UNCHANGED <<tables, order, counted>>

\* Mutant of Violates: the balance is checked before the debit, not after it.
ViolatesBefore(units, delta) == delta < 0 /\ units < 0

\* compliance registry: only a debit is held to a non-negative result.
Violates(units, delta) == delta < 0 /\ units + delta < 0

\* The UPDATE a flush emits for `account.balance_units += delta`: the sum as
\* computed in Python, and nothing when the attribute did not change.
WrittenBalance(u, units, delta) ==
  IF delta = 0 THEN balance[u] ELSE units + delta

PostLedgerLine(u, units, delta) ==
  /\ balance' = [balance EXCEPT ![u] = WrittenBalance(u, units, delta)]
  /\ posted' = [posted EXCEPT ![u] = @ + delta]

-------------------------------------------------------------------------------
(* A worker runs one update *)

\* Telegram delivers an update, for the first time or again.
RunGame(w) ==
  /\ pc[w] = "idle"
  /\ \E k \in Keys \ DirectKeys : key' = [key EXCEPT ![w] = k]
  /\ Goto(w, "lookup")
  /\ UNCHANGED <<tables, accountLock, via, row, acct, order, counted>>

\* execute_game_round is also called without the engine.
ExecuteDirectly(w) ==
  /\ pc[w] = "idle"
  /\ \E k \in DirectKeys : key' = [key EXCEPT ![w] = k]
  /\ Goto(w, "execute")
  /\ UNCHANGED <<tables, accountLock, via, row, acct, order, counted>>

\* Mutant of TakeRow: the query's result is used without looking whether there is one.
TakeRowUnchecked(w, how) ==
  /\ row' = [row EXCEPT ![w] = rounds[key[w]]]
  /\ via' = [via EXCEPT ![w] = how]
  /\ Goto(w, "record")
  /\ UNCHANGED <<tables, accountLock, key, acct, order, counted>>

\* The worker's query returned the committed row of its key.
TakeRow(w, how) ==
  /\ rounds[key[w]] # NoRound
  /\ row' = [row EXCEPT ![w] = rounds[key[w]]]
  /\ via' = [via EXCEPT ![w] = how]
  /\ Goto(w, "record")
  /\ UNCHANGED <<tables, accountLock, key, acct, order, counted>>

Proceed(w, label) ==
  /\ Goto(w, label)
  /\ UNCHANGED <<tables, accountLock, key, via, row, acct, order, counted>>

Lookup(w) ==
  /\ pc[w] = "lookup"
  /\ \/ ~Admissible(key[w]) /\ Abandon(w)
     \/ Admissible(key[w]) /\ TakeRow(w, "replay")
     \/ Admissible(key[w]) /\ rounds[key[w]] = NoRound /\ Proceed(w, "gate")

\* The unlocked read of the account puts it into the identity map.
Gate(w) ==
  LET units == balance[KeyUser[key[w]]]
      enough == units >= GameAccessMinTokens * TokenUnitScale
  IN /\ pc[w] = "gate"
     /\ \/ ~enough /\ Abandon(w)
        \/ /\ enough
           /\ acct' = [acct EXCEPT ![w] = units]
           /\ Goto(w, "cooldown")
           /\ UNCHANGED <<tables, accountLock, key, via, row, order, counted>>

\* Mutant of CheckCooldown: only the stake is looked at.
CheckStakeOnly(w) ==
  LET refused == acct[w] < StakeUnits(key[w])
  IN /\ pc[w] = "cooldown"
     /\ \/ refused /\ Abandon(w)
        \/ ~refused /\ Proceed(w, "execute")

\* The last committed round of the slot is read after the balance; the stake is
\* compared with the balance read before.
CheckCooldown(w) ==
  LET refused == Slot(key[w]) \in cooling \/ acct[w] < StakeUnits(key[w])
  IN /\ pc[w] = "cooldown"
     /\ \/ refused /\ Abandon(w)
        \/ ~refused /\ Proceed(w, "execute")

Execute(w) ==
  LET valid == 0 < KeyBet[key[w]] /\ KeyBet[key[w]] <= MaxBetAmount
  IN /\ pc[w] = "execute"
     /\ \/ TakeRow(w, "found")
        \/ rounds[key[w]] = NoRound /\ ~valid /\ Abandon(w)
        \/ rounds[key[w]] = NoRound /\ valid /\ Proceed(w, "insert")

\* Mutant of Insert: a duplicate that is still open fails the insert at once.
InsertWithoutWaiting(w) ==
  /\ pc[w] = "insert"
  /\ \/ /\ IndexFree(w)
        /\ rounds[key[w]] = NoRound
        /\ \E p \in Payouts(key[w]) :
             row' = [row EXCEPT ![w] = [status |-> "failed", payout |-> p]]
        /\ via' = [via EXCEPT ![w] = "own"]
        /\ Goto(w, "adjust")
        /\ UNCHANGED <<tables, accountLock, key, acct, order, counted>>
     \/ ~(IndexFree(w) /\ rounds[key[w]] = NoRound) /\ Proceed(w, "poll")

\* The flush of the new row waits for an open insert of the same key, and fails
\* when that one committed: the whole transaction is rolled back.
Insert(w) ==
  /\ pc[w] = "insert"
  /\ IndexFree(w)
  /\ \/ /\ rounds[key[w]] = NoRound
        /\ \E p \in Payouts(key[w]) :
             row' = [row EXCEPT ![w] = [status |-> "failed", payout |-> p]]
        /\ via' = [via EXCEPT ![w] = "own"]
        /\ Goto(w, "adjust")
        /\ UNCHANGED <<tables, accountLock, key, acct, order, counted>>
     \/ rounds[key[w]] # NoRound /\ Proceed(w, "poll")

\* The row whose index entry made the insert fail is committed: the poll finds it.
Poll(w) == pc[w] = "poll" /\ TakeRow(w, "found")

\* Mutant of Adjust: a rejected round keeps the payout it was to have.
AdjustKeepsPayout(w) ==
  LET u == KeyUser[key[w]]
      units == IF key[w] \in DirectKeys THEN balance[u] ELSE acct[w]
      violates == Violates(units, row[w].payout)
  IN /\ pc[w] = "adjust"
     /\ accountLock[u] = Nobody
     /\ accountLock' = [accountLock EXCEPT ![u] = w]
     /\ acct' = [acct EXCEPT ![w] = units]
     /\ row' = [row EXCEPT ![w].status = IF violates THEN "rejected" ELSE "committed"]
     /\ Goto(w, "record")
     /\ UNCHANGED <<tables, key, via, order, counted>>

\* adjust_user_tokens inside the savepoint.  The SELECT ... FOR UPDATE waits for
\* the row, then hands back the account object the gate has loaded, unrefreshed.
Adjust(w) ==
  LET u == KeyUser[key[w]]
      units == IF key[w] \in DirectKeys THEN balance[u] ELSE acct[w]
      violates == Violates(units, row[w].payout)
  IN /\ pc[w] = "adjust"
     /\ accountLock[u] = Nobody
     /\ accountLock' = [accountLock EXCEPT ![u] = w]
     /\ acct' = [acct EXCEPT ![w] = units]
     /\ \/ /\ violates
           /\ row' = [row EXCEPT ![w] = [status |-> "rejected", payout |-> 0]]
        \/ /\ ~violates
           /\ row' = [row EXCEPT ![w].status = "committed"]
     /\ Goto(w, "record")
     /\ UNCHANGED <<tables, key, via, order, counted>>

\* Mutant of RecordCompletion: what is counted as a first write is the replay.
RecordCompletionSwapped(w) ==
  LET k == key[w]
  IN /\ pc[w] = "record"
     /\ counted' = IF via[w] # "replay" \/ k \in DirectKeys \/ counted[k] = MaxCounted
                     THEN counted
                     ELSE [counted EXCEPT ![k] = @ + 1]
     /\ Goto(w, "commit")
     /\ UNCHANGED <<tables, accountLock, key, via, row, acct, order>>

\* record_game_round_completion: a round counts unless it is a replay.
CountFirstWrite(w) ==
  LET k == key[w]
  IN counted' = IF via[w] = "replay" \/ k \in DirectKeys \/ counted[k] = MaxCounted
                  THEN counted
                  ELSE [counted EXCEPT ![k] = @ + 1]

\* run_game_detailed feeds the metrics, before its caller commits; execute_game_round,
\* called directly, does not.
RecordCompletion(w) ==
  /\ pc[w] = "record"
  /\ CountFirstWrite(w)
  /\ Goto(w, "commit")
  /\ UNCHANGED <<tables, accountLock, key, via, row, acct, order>>

\* What COMMIT makes of the worker's own round.
PersistRound(w) ==
  LET k == key[w]
  IN /\ rounds' = [rounds EXCEPT ![k] = row[w]]
     /\ IF row[w].status = "committed"
          THEN /\ charged' = [charged EXCEPT ![k] = Append(@, row[w].payout)]
               /\ PostLedgerLine(KeyUser[k], acct[w], row[w].payout)
               /\ cooling' = IF KeyGame[k] \in CooldownGames
                               THEN cooling \cup {Slot(k)} ELSE cooling
          ELSE UNCHANGED <<charged, balance, posted, cooling>>

\* Mutant of Commit: a round that was found is applied to the account once more.
CommitFoundAgain(w) ==
  /\ pc[w] = "commit"
  /\ \/ via[w] = "own" /\ PersistRound(w)
     \/ /\ via[w] # "own"
        /\ balance' = [balance EXCEPT ![KeyUser[key[w]]] = @ + row[w].payout]
        /\ UNCHANGED <<rounds, charged, posted, cooling>>
  /\ via' = [via EXCEPT ![w] = "none"]
  /\ acct' = [acct EXCEPT ![w] = 0]
  /\ accountLock' = Unlocked({w})
  /\ Goto(w, "answer")
  /\ UNCHANGED <<key, row, order, counted>>

Commit(w) ==
  /\ pc[w] = "commit"
  /\ \/ via[w] = "own" /\ PersistRound(w)
     \/ via[w] # "own" /\ UNCHANGED tables
  /\ via' = [via EXCEPT ![w] = "none"]
  /\ acct' = [acct EXCEPT ![w] = 0]
  /\ accountLock' = Unlocked({w})
  /\ Goto(w, "answer")
  /\ UNCHANGED <<key, row, order, counted>>

\* The reply is built from the round and sent, or one of both fails: either way
\* the handler returns.
Answer(w) == pc[w] = "answer" /\ Abandon(w)

-------------------------------------------------------------------------------
(* What goes wrong for a worker *)

\* A statement of the round's savepoint fails: all of the transaction is rolled
\* back, and a separate one is to leave a record of the failure.
FailRound(w) ==
  /\ pc[w] \in {"insert", "adjust"}
  /\ via' = [via EXCEPT ![w] = "none"]
  /\ row' = [row EXCEPT ![w] = NoRound]
  /\ Goto(w, "save_failure")
  /\ UNCHANGED <<tables, accountLock, key, acct, order, counted>>

\* Mutant of SaveFailure: the record replaces the round that is already there.
SaveFailureOver(w) ==
  LET k == key[w]
  IN /\ pc[w] = "save_failure"
     /\ IndexFree(w)
     /\ rounds' = [rounds EXCEPT ![k] = [status |-> "failed", payout |-> 0]]
     /\ Leave(w)
     /\ UNCHANGED <<charged, balance, posted, cooling, order, counted>>

\* The failure record has the same key; losing it to a duplicate is ignored.
SaveFailure(w) ==
  LET k == key[w]
  IN /\ pc[w] = "save_failure"
     /\ IndexFree(w)
     /\ rounds' = IF rounds[k] = NoRound
                    THEN [rounds EXCEPT ![k] = [status |-> "failed", payout |-> 0]]
                    ELSE rounds
     /\ Leave(w)
     /\ UNCHANGED <<charged, balance, posted, cooling, order, counted>>

\* Any other statement fails, COMMIT included: the handler rolls back and the user
\* sees an error instead of a round.
Raise(w) ==
  /\ pc[w] \in {"lookup", "gate", "cooldown", "execute", "poll", "record", "commit",
                "save_failure"}
  /\ Abandon(w)

\* The bot process dies: its transactions roll back, its counters start over.
BotCrash ==
  /\ \E w \in Workers : pc[w] # "idle"
  /\ pc' = [s \in Sessions |-> IF s \in Workers THEN "idle" ELSE pc[s]]
  /\ key' = [w \in Workers |-> NoKey]
  /\ via' = [w \in Workers |-> "none"]
  /\ row' = [w \in Workers |-> NoRound]
  /\ acct' = [s \in Sessions |-> IF s \in Workers THEN 0 ELSE acct[s]]
  /\ accountLock' = Unlocked(Workers)
  /\ counted' = [k \in Keys |-> 0]
  /\ UNCHANGED <<tables, order>>

CooldownElapses(slot) ==
  /\ cooling' = cooling \ {slot}
  /\ UNCHANGED <<rounds, charged, balance, posted, accountLock, pc, key, via, row,
                 acct, order, counted>>

-------------------------------------------------------------------------------
(* An admin adjusts a user's tokens *)

AdminRequest(a) ==
  /\ pc[a] = "idle"
  /\ \E u \in Users, d \in AdminDeltas :
       /\ balance[u] + d <= MaxBalance
       /\ order' = [order EXCEPT ![a] = [user |-> u, delta |-> d]]
  /\ Goto(a, "adjust")
  /\ UNCHANGED <<tables, accountLock, key, via, row, acct, counted>>

\* The request's transaction is over.
AdminEnd(a) ==
  /\ Goto(a, "idle")
  /\ order' = [order EXCEPT ![a] = NoOrder]
  /\ acct' = [acct EXCEPT ![a] = 0]
  /\ accountLock' = Unlocked({a})
  /\ UNCHANGED <<rounds, charged, cooling, key, via, row, counted>>

\* Mutant of AdminAdjust: the account is read without FOR UPDATE.
AdminAdjustUnlocked(a) ==
  LET u == order[a].user
      violates == Violates(balance[u], order[a].delta)
  IN /\ pc[a] = "adjust"
     /\ \/ violates /\ UNCHANGED <<balance, posted>> /\ AdminEnd(a)
        \/ /\ ~violates
           /\ acct' = [acct EXCEPT ![a] = balance[u]]
           /\ Goto(a, "commit")
           /\ UNCHANGED <<tables, accountLock, key, via, row, order, counted>>

\* The locked read is this session's first of the account, so it is current.  A
\* violation ends the request with a 409 and nothing written.
AdminAdjust(a) ==
  LET u == order[a].user
      violates == Violates(balance[u], order[a].delta)
  IN /\ pc[a] = "adjust"
     /\ accountLock[u] = Nobody
     /\ \/ violates /\ UNCHANGED <<balance, posted>> /\ AdminEnd(a)
        \/ /\ ~violates
           /\ acct' = [acct EXCEPT ![a] = balance[u]]
           /\ accountLock' = [accountLock EXCEPT ![u] = a]
           /\ Goto(a, "commit")
           /\ UNCHANGED <<tables, key, via, row, order, counted>>

AdminCommit(a) ==
  /\ pc[a] = "commit"
  /\ PostLedgerLine(order[a].user, acct[a], order[a].delta)
  /\ AdminEnd(a)

\* A statement fails or the API process dies: the transaction rolls back.
AdminAbort(a) ==
  /\ pc[a] # "idle"
  /\ UNCHANGED <<balance, posted>>
  /\ AdminEnd(a)

-------------------------------------------------------------------------------

Init ==
  /\ rounds = [k \in Keys |-> NoRound]
  /\ charged = [k \in Keys |-> <<>>]
  /\ balance = OpeningBalance
  /\ posted = OpeningBalance
  /\ cooling = {}
  /\ accountLock = [u \in Users |-> Nobody]
  /\ pc = [s \in Sessions |-> "idle"]
  /\ key = [w \in Workers |-> NoKey]
  /\ via = [w \in Workers |-> "none"]
  /\ row = [w \in Workers |-> NoRound]
  /\ acct = [s \in Sessions |-> 0]
  /\ order = [a \in Admins |-> NoOrder]
  /\ counted = [k \in Keys |-> 0]

WorkerStep(w) ==
  \/ Lookup(w) \/ Gate(w) \/ CheckCooldown(w) \/ Execute(w)
  \/ Poll(w) \/ RecordCompletion(w) \/ Commit(w) \/ Answer(w)

\* The steps that may have to wait for another session's transaction.
WaitingStep(w) == Insert(w) \/ Adjust(w) \/ SaveFailure(w)

Next ==
  \/ \E w \in Workers :
       \/ RunGame(w) \/ ExecuteDirectly(w)
       \/ WorkerStep(w) \/ WaitingStep(w)
       \/ FailRound(w) \/ Raise(w)
  \/ BotCrash
  \/ \E slot \in cooling : CooldownElapses(slot)
  \/ \E a \in Admins :
       AdminRequest(a) \/ AdminAdjust(a) \/ AdminCommit(a) \/ AdminAbort(a)

Spec == Init /\ [][Next]_vars

\* A session goes on with its statements; PostgreSQL queues the waiters of a row
\* or an index entry, so one that waits again and again is served.
Fairness ==
  /\ \A w \in Workers : WF_vars(WorkerStep(w)) /\ SF_vars(WaitingStep(w))
  /\ \A a \in Admins : SF_vars(AdminAdjust(a)) /\ WF_vars(AdminCommit(a))

FairSpec == Spec /\ Fairness

-------------------------------------------------------------------------------
(* Properties *)

Labels == {"idle", "lookup", "gate", "cooldown", "execute", "insert", "poll", "adjust",
           "record", "commit", "answer", "save_failure"}

\* Every variable has its type, and a worker past its decision holds a round.
TypeOK ==
  /\ rounds \in [Keys -> Round \cup {NoRound}]
  /\ charged \in [Keys -> Seq(Int)]
  /\ balance \in [Users -> Int]
  /\ posted \in [Users -> Int]
  /\ cooling \subseteq Users \X {KeyGame[k] : k \in Keys}
  /\ accountLock \in [Users -> Sessions \cup {Nobody}]
  /\ pc \in [Sessions -> Labels]
  /\ key \in [Workers -> Keys \cup {NoKey}]
  /\ via \in [Workers -> {"none", "own", "found", "replay"}]
  /\ row \in [Workers -> Round \cup {NoRound}]
  /\ acct \in [Sessions -> Int]
  /\ order \in [Admins -> [user: Users \cup {Nobody}, delta: Int]]
  /\ counted \in [Keys -> 0..MaxCounted]
  /\ \A w \in Workers : pc[w] = "idle" <=> key[w] = NoKey
  /\ \A w \in Workers : pc[w] \in {"record", "commit", "answer"} => row[w] \in Round

\* A key's rounds have posted exactly one ledger line, of the payout of its row,
\* when that row is committed, and none when it is rejected, failed or missing.
\* The insert, the adjustment and every failure path of execute_game_round must
\* agree for this, whatever else runs or crashes meanwhile.
LedgerLineIffCommitted ==
  \A k \in Keys :
    charged[k] = IF rounds[k].status = "committed" THEN <<rounds[k].payout>> ELSE <<>>

\* No account is ever overdrawn, although a worker checks its debit against a
\* balance it read before it had the row lock.
BalanceNonNegative == \A u \in Users : balance[u] >= 0

\* Whatever round a user is shown, new, found or replayed, is the committed row of
\* that key; ImplementsRoundLedger has it stay so, so every delivery of an update
\* tells the same story.
AnswerIsPersisted ==
  \A w \in Workers : pc[w] = "answer" => row[w] = rounds[key[w]]

\* After an IntegrityError the row of the key is there to be read, so the poll of
\* execute_game_round ends at its first query and its timeout never strikes.
PollFindsRow == \A w \in Workers : pc[w] = "poll" => rounds[key[w]] # NoRound

Drift(u) == balance[u] - posted[u]

\* A worker commits a round of u that was computed from a balance no longer current.
StaleRoundCommits(u) ==
  \E w \in Workers :
    /\ pc[w] = "commit" /\ via[w] = "own" /\ key[w] \notin DirectKeys
    /\ KeyUser[key[w]] = u
    /\ acct[w] # balance[u]

\* The only step that can part a balance from the sum of its ledger lines is the
\* commit of a round whose unlocked read of the account (games/service.py) has gone
\* stale; no admin adjustment and no direct round ever does.
DriftOnlyFromStaleRound ==
  [][\A u \in Users : Drift(u)' # Drift(u) => StaleRoundCommits(u)]_vars

\* The balance of every user is the sum of the user's ledger lines.
LedgerMatchesBalance == \A u \in Users : balance[u] = posted[u]

\* A round of a game with a cooldown takes effect only while no committed round of
\* the same user and game is within it.
CooldownRespected ==
  [][\A k \in Keys :
       rounds[k] = NoRound /\ rounds'[k].status = "committed" => Slot(k) \notin cooling]_vars

\* No session of the engine commits a round that the metrics have not counted as newly
\* persisted.  They may count more: run_game_detailed counts before its caller commits,
\* so a round that then fails is counted once more when its update comes again.
MetricsMissNoRound ==
  [][\A w \in Workers :
       Commit(w) /\ via[w] = "own" /\ key[w] \notin DirectKeys /\ MaxCounted > 0
       => counted[key[w]] > 0]_vars

Ledger == INSTANCE RoundLedger WITH AllowedPayouts <- [k \in Keys |-> Payouts(k)]

\* The sessions together keep the promise of the round ledger.
ImplementsRoundLedger == Ledger!Spec

\* Every update a worker takes up comes to an end: no session waits for ever for a
\* row, an index entry or a poll.
EveryUpdateEnds == \A w \in Workers : (pc[w] # "idle") ~> (pc[w] = "idle")

===============================================================================
