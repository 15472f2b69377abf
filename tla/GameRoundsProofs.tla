---------------------------- MODULE GameRoundsProofs ----------------------------
(***************************************************************************)
(* Theorems about GameRounds, for every set of workers, admins, users and  *)
(* keys, every bet, and every setting.                                     *)
(***************************************************************************)
EXTENDS GameRounds, TLAPS

(***************************************************************************)
(* The inductive invariant.  The safety invariants alone are not inductive *)
(* because a commit publishes what its transaction gathered in earlier     *)
(* steps: they rest on what an open transaction guarantees meanwhile.      *)
(***************************************************************************)

\* The uncommitted rows of two workers have different keys.
IndexExclusive ==
  \A v, w \in Workers : via[v] = "own" /\ via[w] = "own" /\ key[v] = key[w] => v = w

\* A worker's own row is uncommitted, and its key undecided, until it commits.
OwnRowUndecided ==
  \A w \in Workers : via[w] = "own" =>
    pc[w] \in {"adjust", "record", "commit"} /\ rounds[key[w]] = NoRound

\* The row a worker is to adjust is its own, as inserted.
AdjustsOwnRow ==
  \A w \in Workers : pc[w] = "adjust" =>
    /\ via[w] = "own"
    /\ row[w].status = "failed"
    /\ row[w].payout \in Payouts(key[w])

\* After the adjustment the worker holds the account row, and what it is going
\* to write does not overdraw the account.
OwnRowDecided ==
  \A w \in Workers : pc[w] \in {"record", "commit"} /\ via[w] = "own" =>
    /\ accountLock[KeyUser[key[w]]] = w
    /\ row[w].status \in {"committed", "rejected"}
    /\ row[w].status = "committed" =>
         row[w].payout \in Payouts(key[w]) /\ ~Violates(acct[w], row[w].payout)
    /\ row[w].status = "rejected" => row[w].payout = 0
    /\ key[w] \in DirectKeys => acct[w] = balance[KeyUser[key[w]]]

\* A row a worker did not insert is the committed one.
FoundRowPersisted ==
  \A w \in Workers : pc[w] \in {"record", "commit", "answer"} /\ via[w] # "own" =>
    row[w] = rounds[key[w]]

SnapshotsNonNegative == \A s \in Sessions : acct[s] >= 0

\* An admin about to commit holds the account row and has read it since.
AdminReadCurrent ==
  \A a \in Admins :
    /\ pc[a] \in {"idle", "adjust", "commit"}
    /\ pc[a] # "idle" => order[a].user \in Users
    /\ pc[a] = "commit" =>
         /\ accountLock[order[a].user] = a
         /\ acct[a] = balance[order[a].user]
         /\ ~Violates(acct[a], order[a].delta)

IInv ==
  /\ TypeOK
  /\ IndexExclusive
  /\ OwnRowUndecided
  /\ AdjustsOwnRow
  /\ OwnRowDecided
  /\ FoundRowPersisted
  /\ SnapshotsNonNegative
  /\ AdminReadCurrent
  /\ LedgerLineIffCommitted
  /\ BalanceNonNegative
  /\ PollFindsRow

-------------------------------------------------------------------------------

\* A payout is a whole number of token units.
LEMMA PayoutsAreUnits == ASSUME NEW k \in Keys PROVE Payouts(k) \subseteq Int
<1>1. StakeUnits(k) \in Int
  BY ConstantsAssumption DEF StakeUnits
<1>2. QED
  BY <1>1 DEF Payouts, CoinFlipPayouts, BonusWheelPayouts

\* The invariant holds of the empty round ledger.
LEMMA InitEstablishes == Init => IInv
<1> SUFFICES ASSUME Init PROVE IInv
  OBVIOUS
<1>1. TypeOK
  BY ConstantsAssumption DEF Init, TypeOK, Round, NoRound, NoOrder, Sessions, Labels
<1>2. IndexExclusive /\ OwnRowUndecided /\ AdjustsOwnRow /\ OwnRowDecided
  BY DEF Init, IndexExclusive, OwnRowUndecided, AdjustsOwnRow, OwnRowDecided, Sessions
<1>3. FoundRowPersisted /\ SnapshotsNonNegative /\ PollFindsRow
  BY DEF Init, FoundRowPersisted, SnapshotsNonNegative, PollFindsRow, Sessions
<1>4. AdminReadCurrent
  BY DEF Init, AdminReadCurrent, Sessions
<1>5. LedgerLineIffCommitted /\ BalanceNonNegative
  BY ConstantsAssumption DEF Init, LedgerLineIffCommitted, BalanceNonNegative, NoRound
<1>6. QED
  BY <1>1, <1>2, <1>3, <1>4, <1>5 DEF IInv

\* A worker that leaves gives up its own locks and no other session's.
LEMMA LeaveKeepsOthers ==
  ASSUME IInv, NEW w \in Workers, Leave(w), UNCHANGED <<balance, order>>
  PROVE  OwnRowDecided' /\ AdminReadCurrent'
<1> USE ConstantsAssumption DEF IInv, Leave, Goto, Unlocked, TypeOK, Sessions
<1>1. OwnRowDecided'
  BY DEF OwnRowDecided
<1>2. AdminReadCurrent'
  BY DEF AdminReadCurrent
<1>3. QED
  BY <1>1, <1>2

\* Rolling a worker's transaction back leaves nothing behind that others rely on.
LEMMA AbandonKeeps ==
  ASSUME IInv, NEW w \in Workers, Abandon(w)
  PROVE  IInv'
<1> USE DEF IInv, Abandon, Leave, Goto, Unlocked, tables
<1>1. TypeOK'
  BY ConstantsAssumption DEF TypeOK, Sessions, Labels
<1>2. IndexExclusive' /\ OwnRowUndecided' /\ AdjustsOwnRow' /\ PollFindsRow'
  BY DEF TypeOK, Sessions, IndexExclusive, OwnRowUndecided, AdjustsOwnRow, PollFindsRow
<1>3. OwnRowDecided' /\ AdminReadCurrent'
  BY LeaveKeepsOthers DEF AdminReadCurrent
<1>4. FoundRowPersisted' /\ SnapshotsNonNegative'
  BY DEF TypeOK, Sessions, FoundRowPersisted, SnapshotsNonNegative
<1>5. LedgerLineIffCommitted' /\ BalanceNonNegative'
  BY DEF LedgerLineIffCommitted, BalanceNonNegative
<1>6. QED
  BY <1>1, <1>2, <1>3, <1>4, <1>5
\* A step that only moves a worker on, and not into a state with obligations.
LEMMA ProceedKeeps ==
  ASSUME IInv, NEW w \in Workers, pc[w] \notin {"idle", "adjust"}, via[w] # "own",
         NEW label \in {"gate", "execute", "insert", "poll"}, Proceed(w, label),
         label = "poll" => rounds[key[w]] # NoRound
  PROVE  IInv'
<1> USE DEF IInv, Proceed, Goto, tables
<1>1. TypeOK'
  BY ConstantsAssumption DEF TypeOK, Sessions, Labels
<1>2. IndexExclusive' /\ OwnRowUndecided' /\ AdjustsOwnRow' /\ PollFindsRow'
  BY DEF TypeOK, Sessions, IndexExclusive, OwnRowUndecided, AdjustsOwnRow, PollFindsRow
<1>3. OwnRowDecided'
  BY ConstantsAssumption DEF TypeOK, Sessions, AdjustsOwnRow, OwnRowDecided
<1>4. FoundRowPersisted' /\ SnapshotsNonNegative'
  BY ConstantsAssumption DEF TypeOK, Sessions, OwnRowUndecided, FoundRowPersisted, SnapshotsNonNegative
<1>5. AdminReadCurrent'
  BY ConstantsAssumption DEF TypeOK, Sessions, AdminReadCurrent
<1>6. LedgerLineIffCommitted' /\ BalanceNonNegative'
  BY ConstantsAssumption DEF TypeOK, Sessions, LedgerLineIffCommitted, BalanceNonNegative
<1>7. QED
  BY <1>1, <1>2, <1>3, <1>4, <1>5, <1>6

\* A worker that takes over the persisted row of its key.
LEMMA TakeRowKeeps ==
  ASSUME IInv, NEW w \in Workers, pc[w] \in {"lookup", "execute", "poll"},
         NEW how \in {"found", "replay"}, TakeRow(w, how)
  PROVE  IInv'
<1> USE DEF IInv, TakeRow, Goto, tables
<1>1. TypeOK'
  BY ConstantsAssumption DEF TypeOK, Sessions, Labels, Round, NoRound
<1>2. IndexExclusive' /\ OwnRowUndecided' /\ AdjustsOwnRow' /\ PollFindsRow'
  BY DEF TypeOK, Sessions, IndexExclusive, OwnRowUndecided, AdjustsOwnRow, PollFindsRow
<1>3. OwnRowDecided'
  BY ConstantsAssumption DEF TypeOK, Sessions, AdjustsOwnRow, OwnRowDecided
<1>4. FoundRowPersisted' /\ SnapshotsNonNegative'
  BY ConstantsAssumption DEF TypeOK, Sessions, OwnRowUndecided, FoundRowPersisted, SnapshotsNonNegative
<1>5. AdminReadCurrent'
  BY ConstantsAssumption DEF TypeOK, Sessions, AdminReadCurrent
<1>6. LedgerLineIffCommitted' /\ BalanceNonNegative'
  BY ConstantsAssumption DEF TypeOK, Sessions, LedgerLineIffCommitted, BalanceNonNegative
<1>7. QED
  BY <1>1, <1>2, <1>3, <1>4, <1>5, <1>6

\* An update reaches an idle worker.
LEMMA BeginKeeps ==
  ASSUME IInv, NEW w \in Workers, RunGame(w) \/ ExecuteDirectly(w)
  PROVE  IInv'
<1> USE DEF IInv
<1>1. /\ pc[w] = "idle"
      /\ via[w] # "own"
      /\ UNCHANGED <<tables, accountLock, via, row, acct, order, counted>>
  BY DEF RunGame, ExecuteDirectly, OwnRowUndecided
<1>2. PICK k \in Keys, label \in {"lookup", "execute"} :
        key' = [key EXCEPT ![w] = k] /\ pc' = [pc EXCEPT ![w] = label]
  BY ConstantsAssumption DEF RunGame, ExecuteDirectly, Goto
<1> USE DEF tables
<1>3. TypeOK'
  BY <1>1, <1>2, ConstantsAssumption DEF TypeOK, Sessions, Labels
<1>4. IndexExclusive' /\ OwnRowUndecided' /\ AdjustsOwnRow' /\ PollFindsRow'
  BY <1>1, <1>2
     DEF TypeOK, Sessions, IndexExclusive, OwnRowUndecided, AdjustsOwnRow, PollFindsRow
<1>5. OwnRowDecided'
  BY <1>1, <1>2, ConstantsAssumption DEF TypeOK, Sessions, OwnRowDecided
<1>6. FoundRowPersisted' /\ SnapshotsNonNegative'
  BY <1>1, <1>2, ConstantsAssumption
     DEF TypeOK, Sessions, FoundRowPersisted, SnapshotsNonNegative
<1>7. AdminReadCurrent'
  BY <1>1, <1>2, ConstantsAssumption DEF TypeOK, Sessions, AdminReadCurrent
<1>8. LedgerLineIffCommitted' /\ BalanceNonNegative'
  BY <1>1 DEF LedgerLineIffCommitted, BalanceNonNegative
<1>9. QED
  BY <1>3, <1>4, <1>5, <1>6, <1>7, <1>8

\* The gate's reading of the account is never negative.
LEMMA ReadGateKeeps ==
  ASSUME IInv, NEW w \in Workers, pc[w] = "gate",
         acct' = [acct EXCEPT ![w] = balance[KeyUser[key[w]]]],
         Goto(w, "cooldown"),
         UNCHANGED <<tables, accountLock, key, via, row, order, counted>>
  PROVE  IInv'
<1> USE DEF IInv, Goto, tables
<1>1. TypeOK'
  BY ConstantsAssumption
     DEF TypeOK, Sessions, Labels
<1>2. IndexExclusive' /\ OwnRowUndecided' /\ AdjustsOwnRow' /\ PollFindsRow'
  BY ConstantsAssumption
     DEF TypeOK, Sessions, IndexExclusive, OwnRowUndecided, AdjustsOwnRow, PollFindsRow
<1>3. OwnRowDecided'
  BY ConstantsAssumption
     DEF TypeOK, Sessions, AdjustsOwnRow, OwnRowUndecided, OwnRowDecided
<1>4. FoundRowPersisted' /\ SnapshotsNonNegative'
  BY ConstantsAssumption
     DEF TypeOK, Sessions, OwnRowUndecided, FoundRowPersisted, SnapshotsNonNegative, BalanceNonNegative
<1>5. AdminReadCurrent'
  BY ConstantsAssumption
     DEF TypeOK, Sessions, AdminReadCurrent
<1>6. LedgerLineIffCommitted' /\ BalanceNonNegative'
  BY ConstantsAssumption
     DEF TypeOK, Sessions, LedgerLineIffCommitted, BalanceNonNegative
<1>7. QED
  BY <1>1, <1>2, <1>3, <1>4, <1>5, <1>6

\* A new row enters the index only while no other open transaction has its key there.
LEMMA InsertRowKeeps ==
  ASSUME IInv, NEW w \in Workers, pc[w] = "insert", IndexFree(w),
         rounds[key[w]] = NoRound, NEW p \in Payouts(key[w]),
         row' = [row EXCEPT ![w] = [status |-> "failed", payout |-> p]],
         via' = [via EXCEPT ![w] = "own"],
         Goto(w, "adjust"),
         UNCHANGED <<tables, accountLock, key, acct, order, counted>>
  PROVE  IInv'
<1> USE DEF IInv, Goto, tables
<1>1. TypeOK'
  BY ConstantsAssumption, PayoutsAreUnits
     DEF TypeOK, Sessions, Labels, Round
<1>2. IndexExclusive' /\ OwnRowUndecided' /\ AdjustsOwnRow' /\ PollFindsRow'
  BY ConstantsAssumption
     DEF TypeOK, Sessions, IndexExclusive, OwnRowUndecided, AdjustsOwnRow, PollFindsRow, IndexFree, HoldsIndexEntry
<1>3. OwnRowDecided'
  BY ConstantsAssumption
     DEF TypeOK, Sessions, AdjustsOwnRow, OwnRowUndecided, OwnRowDecided
<1>4. FoundRowPersisted' /\ SnapshotsNonNegative'
  BY ConstantsAssumption
     DEF TypeOK, Sessions, OwnRowUndecided, FoundRowPersisted, SnapshotsNonNegative
<1>5. AdminReadCurrent'
  BY ConstantsAssumption
     DEF TypeOK, Sessions, AdminReadCurrent
<1>6. LedgerLineIffCommitted' /\ BalanceNonNegative'
  BY ConstantsAssumption
     DEF TypeOK, Sessions, LedgerLineIffCommitted, BalanceNonNegative
<1>7. QED
  BY <1>1, <1>2, <1>3, <1>4, <1>5, <1>6

\* The adjustment leaves the worker with the account row and a sum that is not negative.
LEMMA AdjustKeeps ==
  ASSUME IInv, NEW w \in Workers, Adjust(w)
  PROVE  IInv'
<1> DEFINE u == KeyUser[key[w]]
           units == IF key[w] \in DirectKeys THEN balance[u] ELSE acct[w]
<1> USE DEF IInv
<1>1. key[w] \in Keys /\ u \in Users /\ via[w] = "own" /\ pc[w] = "adjust"
  BY ConstantsAssumption DEF Adjust, TypeOK, AdjustsOwnRow, Sessions
<1>2. units \in Int /\ units >= 0
  BY <1>1 DEF TypeOK, SnapshotsNonNegative, BalanceNonNegative, Sessions
<1>3. row[w].payout \in Payouts(key[w]) /\ row[w].payout \in Int
  BY <1>1, PayoutsAreUnits DEF AdjustsOwnRow
<1>4. PICK r \in {[status |-> "rejected", payout |-> 0],
                  [status |-> "committed", payout |-> row[w].payout]} :
        /\ row' = [row EXCEPT ![w] = r]
        /\ r.status = "committed" => ~Violates(units, row[w].payout)
  BY <1>1 DEF Adjust, TypeOK, Round, NoRound
<1>5. r \in Round
  BY <1>3 DEF Round
<1>6. /\ accountLock' = [accountLock EXCEPT ![u] = w]
      /\ accountLock[u] = Nobody
      /\ acct' = [acct EXCEPT ![w] = units]
      /\ pc' = [pc EXCEPT ![w] = "record"]
      /\ UNCHANGED <<tables, key, via, order, counted>>
  BY DEF Adjust, Goto
<1> HIDE DEF u, units
<1> USE DEF tables
<1>7. TypeOK'
  BY <1>1, <1>2, <1>4, <1>5, <1>6, ConstantsAssumption DEF TypeOK, Sessions, Labels
<1>8. IndexExclusive' /\ OwnRowUndecided' /\ AdjustsOwnRow' /\ PollFindsRow'
  BY <1>1, <1>4, <1>6
     DEF TypeOK, Sessions, IndexExclusive, OwnRowUndecided, AdjustsOwnRow, PollFindsRow
<1>9. OwnRowDecided'
  <2>1. ASSUME NEW v \in Workers \ {w} PROVE accountLock[KeyUser[key[v]]] = v => KeyUser[key[v]] # u
    BY <1>6, ConstantsAssumption DEF Sessions
  <2>2. QED
    BY <1>1, <1>2, <1>3, <1>4, <1>6, <2>1, ConstantsAssumption
       DEF TypeOK, Sessions, OwnRowDecided, u, units
<1>10. FoundRowPersisted' /\ SnapshotsNonNegative'
  BY <1>1, <1>2, <1>4, <1>6, ConstantsAssumption
     DEF TypeOK, Sessions, FoundRowPersisted, SnapshotsNonNegative
<1>11. AdminReadCurrent'
  BY <1>1, <1>6, ConstantsAssumption DEF TypeOK, Sessions, AdminReadCurrent
<1>12. LedgerLineIffCommitted' /\ BalanceNonNegative'
  BY <1>6 DEF LedgerLineIffCommitted, BalanceNonNegative
<1>13. QED
  BY <1>7, <1>8, <1>9, <1>10, <1>11, <1>12

\* The metrics touch nothing the invariant speaks of.
LEMMA RecordCompletionKeeps ==
  ASSUME IInv, NEW w \in Workers, RecordCompletion(w)
  PROVE  IInv'
<1> USE DEF IInv, RecordCompletion, CountFirstWrite, Goto, tables
<1>1. TypeOK'
  BY ConstantsAssumption
     DEF TypeOK, Sessions, Labels
<1>2. IndexExclusive' /\ OwnRowUndecided' /\ AdjustsOwnRow' /\ PollFindsRow'
  BY ConstantsAssumption
     DEF TypeOK, Sessions, IndexExclusive, OwnRowUndecided, AdjustsOwnRow, PollFindsRow
<1>3. OwnRowDecided'
  BY ConstantsAssumption
     DEF TypeOK, Sessions, AdjustsOwnRow, OwnRowUndecided, OwnRowDecided
<1>4. FoundRowPersisted' /\ SnapshotsNonNegative'
  BY ConstantsAssumption
     DEF TypeOK, Sessions, OwnRowUndecided, FoundRowPersisted, SnapshotsNonNegative
<1>5. AdminReadCurrent'
  BY ConstantsAssumption
     DEF TypeOK, Sessions, AdminReadCurrent
<1>6. LedgerLineIffCommitted' /\ BalanceNonNegative'
  BY ConstantsAssumption
     DEF TypeOK, Sessions, LedgerLineIffCommitted, BalanceNonNegative
<1>7. QED
  BY <1>1, <1>2, <1>3, <1>4, <1>5, <1>6

\* A failed statement gives up the row and its index entry.
LEMMA FailRoundKeeps ==
  ASSUME IInv, NEW w \in Workers, FailRound(w)
  PROVE  IInv'
<1> USE DEF IInv, FailRound, Goto, tables
<1>1. TypeOK'
  BY ConstantsAssumption
     DEF TypeOK, Sessions, Labels
<1>2. IndexExclusive' /\ OwnRowUndecided' /\ AdjustsOwnRow' /\ PollFindsRow'
  BY ConstantsAssumption
     DEF TypeOK, Sessions, IndexExclusive, OwnRowUndecided, AdjustsOwnRow, PollFindsRow
<1>3. OwnRowDecided'
  BY ConstantsAssumption
     DEF TypeOK, Sessions, AdjustsOwnRow, OwnRowUndecided, OwnRowDecided
<1>4. FoundRowPersisted' /\ SnapshotsNonNegative'
  BY ConstantsAssumption
     DEF TypeOK, Sessions, OwnRowUndecided, FoundRowPersisted, SnapshotsNonNegative
<1>5. AdminReadCurrent'
  BY ConstantsAssumption
     DEF TypeOK, Sessions, AdminReadCurrent
<1>6. LedgerLineIffCommitted' /\ BalanceNonNegative'
  BY ConstantsAssumption
     DEF TypeOK, Sessions, LedgerLineIffCommitted, BalanceNonNegative
<1>7. QED
  BY <1>1, <1>2, <1>3, <1>4, <1>5, <1>6

\* The failure record decides its key without a charge, or not at all.
LEMMA SaveFailureKeeps ==
  ASSUME IInv, NEW w \in Workers, SaveFailure(w)
  PROVE  IInv'
<1> USE DEF IInv
<1>1. /\ pc[w] = "save_failure"
      /\ key[w] \in Keys
      /\ IndexFree(w)
      /\ Leave(w)
      /\ UNCHANGED <<charged, balance, posted, cooling, order, counted>>
  BY ConstantsAssumption DEF SaveFailure, TypeOK
<1>2. /\ rounds' \in [Keys -> Round \cup {NoRound}]
      /\ \A k \in Keys : rounds[k] # NoRound => rounds'[k] = rounds[k]
      /\ \A k \in Keys \ {key[w]} : rounds'[k] = rounds[k]
      /\ \A k \in Keys : rounds'[k].status = "committed" <=> rounds[k].status = "committed"
  BY <1>1 DEF SaveFailure, TypeOK, Round, NoRound
<1>3. TypeOK'
  BY <1>1, <1>2, ConstantsAssumption DEF TypeOK, Sessions, Labels, Leave, Unlocked, Goto
<1>4. IndexExclusive' /\ OwnRowUndecided' /\ AdjustsOwnRow' /\ PollFindsRow'
  BY <1>1, <1>2, ConstantsAssumption
     DEF TypeOK, Sessions, IndexExclusive, OwnRowUndecided, AdjustsOwnRow, PollFindsRow,
         IndexFree, HoldsIndexEntry, Leave, Goto
<1>5. OwnRowDecided' /\ AdminReadCurrent'
  BY <1>1, LeaveKeepsOthers
<1>6. FoundRowPersisted'
  <2>1. NoRound \notin Round
    BY DEF Round, NoRound
  <2>2. QED
    BY <1>1, <1>2, <2>1, ConstantsAssumption
       DEF TypeOK, Sessions, FoundRowPersisted, Leave, Goto
<1>7. SnapshotsNonNegative'
  BY <1>1 DEF TypeOK, Sessions, SnapshotsNonNegative, Leave
<1>8. LedgerLineIffCommitted' /\ BalanceNonNegative'
  <2>1. \A k \in Keys : rounds[k].status = "committed" => rounds'[k] = rounds[k]
    BY <1>2 DEF NoRound
  <2>2. QED
    BY <1>1, <1>2, <2>1 DEF LedgerLineIffCommitted, BalanceNonNegative
<1>9. QED
  BY <1>3, <1>4, <1>5, <1>6, <1>7, <1>8

\* When the bot dies, so do all its open transactions.
LEMMA BotCrashKeeps ==
  ASSUME IInv, BotCrash
  PROVE  IInv'
<1> USE DEF IInv, BotCrash, Unlocked, tables
<1>1. TypeOK'
  BY ConstantsAssumption
     DEF TypeOK, Sessions, Labels
<1>2. IndexExclusive' /\ OwnRowUndecided' /\ AdjustsOwnRow' /\ PollFindsRow'
  BY ConstantsAssumption
     DEF TypeOK, Sessions, IndexExclusive, OwnRowUndecided, AdjustsOwnRow, PollFindsRow
<1>3. OwnRowDecided'
  BY ConstantsAssumption
     DEF TypeOK, Sessions, AdjustsOwnRow, OwnRowUndecided, OwnRowDecided
<1>4. FoundRowPersisted' /\ SnapshotsNonNegative'
  BY ConstantsAssumption
     DEF TypeOK, Sessions, OwnRowUndecided, FoundRowPersisted, SnapshotsNonNegative
<1>5. AdminReadCurrent'
  BY ConstantsAssumption
     DEF TypeOK, Sessions, AdminReadCurrent
<1>6. LedgerLineIffCommitted' /\ BalanceNonNegative'
  BY ConstantsAssumption
     DEF TypeOK, Sessions, LedgerLineIffCommitted, BalanceNonNegative
<1>7. QED
  BY <1>1, <1>2, <1>3, <1>4, <1>5, <1>6

\* Time touches nothing but the cooldown.
LEMMA CooldownElapsesKeeps ==
  ASSUME IInv, NEW slot \in cooling, CooldownElapses(slot)
  PROVE  IInv'
<1> USE DEF IInv, CooldownElapses
<1>1. TypeOK'
  BY ConstantsAssumption
     DEF TypeOK, Sessions, Labels
<1>2. IndexExclusive' /\ OwnRowUndecided' /\ AdjustsOwnRow' /\ PollFindsRow'
  BY ConstantsAssumption
     DEF TypeOK, Sessions, IndexExclusive, OwnRowUndecided, AdjustsOwnRow, PollFindsRow
<1>3. OwnRowDecided'
  BY ConstantsAssumption
     DEF TypeOK, Sessions, AdjustsOwnRow, OwnRowUndecided, OwnRowDecided
<1>4. FoundRowPersisted' /\ SnapshotsNonNegative'
  BY ConstantsAssumption
     DEF TypeOK, Sessions, OwnRowUndecided, FoundRowPersisted, SnapshotsNonNegative
<1>5. AdminReadCurrent'
  BY ConstantsAssumption
     DEF TypeOK, Sessions, AdminReadCurrent
<1>6. LedgerLineIffCommitted' /\ BalanceNonNegative'
  BY ConstantsAssumption
     DEF TypeOK, Sessions, LedgerLineIffCommitted, BalanceNonNegative
<1>7. QED
  BY <1>1, <1>2, <1>3, <1>4, <1>5, <1>6

\* A request takes no lock and reads nothing yet.
LEMMA AdminRequestKeeps ==
  ASSUME IInv, NEW a \in Admins, AdminRequest(a)
  PROVE  IInv'
<1> USE DEF IInv, AdminRequest, Goto, tables
<1>1. TypeOK'
  BY ConstantsAssumption
     DEF TypeOK, Sessions, Labels
<1>2. IndexExclusive' /\ OwnRowUndecided' /\ AdjustsOwnRow' /\ PollFindsRow'
  BY ConstantsAssumption
     DEF TypeOK, Sessions, IndexExclusive, OwnRowUndecided, AdjustsOwnRow, PollFindsRow
<1>3. OwnRowDecided'
  BY ConstantsAssumption
     DEF TypeOK, Sessions, AdjustsOwnRow, OwnRowUndecided, OwnRowDecided
<1>4. FoundRowPersisted' /\ SnapshotsNonNegative'
  BY ConstantsAssumption
     DEF TypeOK, Sessions, OwnRowUndecided, FoundRowPersisted, SnapshotsNonNegative
<1>5. AdminReadCurrent'
  BY ConstantsAssumption
     DEF TypeOK, Sessions, AdminReadCurrent
<1>6. LedgerLineIffCommitted' /\ BalanceNonNegative'
  BY ConstantsAssumption
     DEF TypeOK, Sessions, LedgerLineIffCommitted, BalanceNonNegative
<1>7. QED
  BY <1>1, <1>2, <1>3, <1>4, <1>5, <1>6

\* A commit of a worker's own row decides its key, with its ledger line and its
\* balance, while the worker holds the account row and the index entry.
LEMMA CommitOwnKeeps ==
  ASSUME IInv, NEW w \in Workers, Commit(w), via[w] = "own"
  PROVE  IInv'
<1> DEFINE k == key[w]
           u == KeyUser[k]
<1> USE DEF IInv
<1>1. k \in Keys /\ u \in Users /\ pc[w] = "commit" /\ rounds[k] = NoRound
  BY ConstantsAssumption DEF Commit, TypeOK, OwnRowUndecided, Sessions
<1>2. /\ row[w] \in Round
      /\ accountLock[u] = w
      /\ row[w].status \in {"committed", "rejected"}
      /\ row[w].status = "committed" => ~Violates(acct[w], row[w].payout)
      /\ acct[w] \in Int /\ acct[w] >= 0 /\ row[w].payout \in Int
  BY <1>1 DEF OwnRowDecided, TypeOK, SnapshotsNonNegative, Sessions, Round
<1>3. /\ rounds' = [rounds EXCEPT ![k] = row[w]]
      /\ via' = [via EXCEPT ![w] = "none"]
      /\ acct' = [acct EXCEPT ![w] = 0]
      /\ accountLock' \in [Users -> Sessions \cup {Nobody}]
      /\ \A x \in Users : accountLock'[x] = IF accountLock[x] = w THEN Nobody ELSE accountLock[x]
      /\ pc' = [pc EXCEPT ![w] = "answer"]
      /\ UNCHANGED <<key, row, order, counted>>
  BY DEF Commit, PersistRound, Goto, Unlocked, TypeOK
<1>4. /\ charged' \in [Keys -> Seq(Int)]
      /\ \A x \in Keys \ {k} : charged'[x] = charged[x]
      /\ charged'[k] = IF row[w].status = "committed"
                         THEN Append(charged[k], row[w].payout) ELSE charged[k]
  <2>1. CASE row[w].status = "committed"
    <3>1. charged' = [charged EXCEPT ![k] = Append(@, row[w].payout)]
      BY <2>1 DEF Commit, PersistRound
    <3>2. Append(charged[k], row[w].payout) \in Seq(Int)
      BY <1>1, <1>2 DEF TypeOK
    <3>3. QED
      BY <1>1, <2>1, <3>1, <3>2 DEF TypeOK
  <2>2. CASE row[w].status # "committed"
    <3>1. charged' = charged
      BY <2>2 DEF Commit, PersistRound
    <3>2. QED
      BY <2>2, <3>1 DEF TypeOK
  <2>3. QED
    BY <2>1, <2>2
<1>5. /\ balance' \in [Users -> Int]
      /\ \A x \in Users : balance'[x] >= 0
      /\ \A x \in Users \ {u} : balance'[x] = balance[x]
      /\ posted' \in [Users -> Int]
  <2>1. CASE row[w].status = "committed"
    <3>1. /\ balance' = [balance EXCEPT ![u] = WrittenBalance(u, acct[w], row[w].payout)]
          /\ posted' = [posted EXCEPT ![u] = @ + row[w].payout]
      BY <2>1 DEF Commit, PersistRound, PostLedgerLine
    <3>2. /\ WrittenBalance(u, acct[w], row[w].payout) \in Int
          /\ WrittenBalance(u, acct[w], row[w].payout) >= 0
      BY <1>1, <1>2, <2>1 DEF WrittenBalance, Violates, TypeOK, BalanceNonNegative
    <3>3. QED
      BY <1>1, <1>2, <3>1, <3>2 DEF TypeOK, BalanceNonNegative
  <2>2. CASE row[w].status # "committed"
    <3>1. balance' = balance /\ posted' = posted
      BY <2>2 DEF Commit, PersistRound
    <3>2. QED
      BY <3>1 DEF TypeOK, BalanceNonNegative
  <2>3. QED
    BY <2>1, <2>2
<1>6. cooling' \subseteq Users \X {KeyGame[x] : x \in Keys}
  BY <1>1 DEF Commit, PersistRound, Slot, TypeOK
<1> HIDE DEF k, u
<1>7. TypeOK'
  <2>1. rounds' \in [Keys -> Round \cup {NoRound}]
    BY <1>1, <1>2, <1>3 DEF TypeOK
  <2>2. /\ pc' \in [Sessions -> Labels]
        /\ via' \in [Workers -> {"none", "own", "found", "replay"}]
        /\ acct' \in [Sessions -> Int]
    <3>1. pc' \in [Sessions -> Labels]
      BY <1>3 DEF TypeOK, Labels
    <3>2. via' \in [Workers -> {"none", "own", "found", "replay"}]
      BY <1>3 DEF TypeOK
    <3>3. acct' \in [Sessions -> Int]
      BY <1>3 DEF TypeOK, Sessions
    <3>4. QED
      BY <3>1, <3>2, <3>3
  <2>3. \A v \in Workers : /\ pc'[v] = "idle" <=> key[v] = NoKey
                           /\ pc'[v] \in {"record", "commit", "answer"} => row[v] \in Round
    BY <1>1, <1>2, <1>3 DEF TypeOK, Sessions
  <2>4. QED
    BY <1>3, <1>4, <1>5, <1>6, <2>1, <2>2, <2>3 DEF TypeOK
<1>8. IndexExclusive' /\ OwnRowUndecided' /\ AdjustsOwnRow' /\ PollFindsRow'
  <2>1. NoRound \notin Round
    BY DEF Round, NoRound
  <2>2. \A v \in Workers \ {w} : via[v] = "own" => key[v] # k
    BY DEF IndexExclusive, k
  <2>3. QED
    BY <1>1, <1>2, <1>3, <2>1, <2>2, ConstantsAssumption
       DEF TypeOK, Sessions, IndexExclusive, OwnRowUndecided, AdjustsOwnRow, PollFindsRow
<1>9. OwnRowDecided'
  <2> SUFFICES ASSUME NEW v \in Workers, pc'[v] \in {"record", "commit"}, via'[v] = "own"
               PROVE  /\ accountLock'[KeyUser[key[v]]] = v
                      /\ acct'[v] = acct[v]
                      /\ balance'[KeyUser[key[v]]] = balance[KeyUser[key[v]]]
                      /\ v # w
    BY <1>3 DEF TypeOK, Sessions, OwnRowDecided
  <2>1. v # w /\ pc[v] = pc'[v] /\ via[v] = "own"
    BY <1>3 DEF TypeOK, Sessions
  <2>2. key[v] \in Keys /\ KeyUser[key[v]] \in Users /\ accountLock[KeyUser[key[v]]] = v
    BY <2>1, ConstantsAssumption DEF TypeOK, OwnRowDecided, Sessions
  <2>3. QED
    BY <1>1, <1>2, <1>3, <1>5, <2>1, <2>2 DEF TypeOK, Sessions
<1>10. FoundRowPersisted'
  <2>1. NoRound \notin Round
    BY DEF Round, NoRound
  <2>2. QED
    BY <1>1, <1>2, <1>3, <2>1, ConstantsAssumption DEF TypeOK, Sessions, FoundRowPersisted, k
<1>11. SnapshotsNonNegative'
  BY <1>3 DEF TypeOK, Sessions, SnapshotsNonNegative
<1>12. AdminReadCurrent'
  <2> SUFFICES ASSUME NEW a \in Admins
               PROVE  /\ pc'[a] = pc[a]
                      /\ pc[a] = "commit" =>
                           /\ accountLock'[order[a].user] = a
                           /\ acct'[a] = acct[a]
                           /\ balance'[order[a].user] = balance[order[a].user]
    BY <1>3 DEF AdminReadCurrent
  <2>1. a # w
    BY ConstantsAssumption
  <2>2. QED
    BY <1>1, <1>2, <1>3, <1>5, <2>1 DEF TypeOK, Sessions, AdminReadCurrent
<1>13. LedgerLineIffCommitted' /\ BalanceNonNegative'
  <2>1. charged[k] = <<>>
    <3>1. rounds[k].status # "committed"
      BY <1>1 DEF NoRound
    <3>2. QED
      BY <1>1, <3>1, Zenon DEF LedgerLineIffCommitted
  <2>2. Append(<<>>, row[w].payout) = <<row[w].payout>>
    OBVIOUS
  <2>3. LedgerLineIffCommitted'
    BY <1>1, <1>2, <1>3, <1>4, <2>1, <2>2 DEF TypeOK, LedgerLineIffCommitted
  <2>4. QED
    BY <1>5, <2>3 DEF BalanceNonNegative
<1>14. QED
  BY <1>7, <1>8, <1>9, <1>10, <1>11, <1>12, <1>13

\* A commit with nothing of the worker's own to write only ends the transaction.
LEMMA CommitFoundKeeps ==
  ASSUME IInv, NEW w \in Workers, Commit(w), via[w] # "own"
  PROVE  IInv'
<1> USE DEF IInv
<1>1. /\ pc[w] = "commit"
      /\ via' = [via EXCEPT ![w] = "none"]
      /\ acct' = [acct EXCEPT ![w] = 0]
      /\ accountLock' = Unlocked({w})
      /\ pc' = [pc EXCEPT ![w] = "answer"]
      /\ UNCHANGED <<tables, key, row, order, counted>>
  BY DEF Commit, Goto
<1> USE DEF tables
<1>2. TypeOK'
  BY <1>1, ConstantsAssumption DEF TypeOK, Sessions, Labels, Unlocked
<1>3. IndexExclusive' /\ OwnRowUndecided' /\ AdjustsOwnRow' /\ PollFindsRow'
  BY <1>1
     DEF TypeOK, Sessions, IndexExclusive, OwnRowUndecided, AdjustsOwnRow, PollFindsRow
<1>4. OwnRowDecided'
  BY <1>1, ConstantsAssumption DEF TypeOK, Sessions, OwnRowDecided, Unlocked
<1>5. FoundRowPersisted' /\ SnapshotsNonNegative'
  BY <1>1 DEF TypeOK, Sessions, FoundRowPersisted, SnapshotsNonNegative
<1>6. AdminReadCurrent'
  BY <1>1, ConstantsAssumption DEF TypeOK, Sessions, AdminReadCurrent, Unlocked
<1>7. LedgerLineIffCommitted' /\ BalanceNonNegative'
  BY <1>1 DEF LedgerLineIffCommitted, BalanceNonNegative
<1>8. QED
  BY <1>2, <1>3, <1>4, <1>5, <1>6, <1>7

\* The end of an admin's transaction, with a balance written under its lock or none.
LEMMA AdminEndKeeps ==
  ASSUME IInv, NEW a \in Admins, pc[a] # "idle", AdminEnd(a),
         \/ UNCHANGED <<balance, posted>>
         \/ /\ pc[a] = "commit"
            /\ PostLedgerLine(order[a].user, acct[a], order[a].delta)
  PROVE  IInv'
<1> DEFINE u == order[a].user
<1> USE DEF IInv
<1>1. u \in Users /\ order[a].delta \in Int /\ a \notin Workers
  BY ConstantsAssumption DEF TypeOK, AdminReadCurrent
<1>2. /\ pc' = [pc EXCEPT ![a] = "idle"]
      /\ order' = [order EXCEPT ![a] = NoOrder]
      /\ acct' = [acct EXCEPT ![a] = 0]
      /\ accountLock' \in [Users -> Sessions \cup {Nobody}]
      /\ \A x \in Users : accountLock'[x] = IF accountLock[x] = a THEN Nobody ELSE accountLock[x]
      /\ UNCHANGED <<rounds, charged, cooling, key, via, row, counted>>
  BY DEF AdminEnd, Goto, Unlocked, TypeOK
<1>3. /\ balance' \in [Users -> Int] /\ posted' \in [Users -> Int]
      /\ \A x \in Users : balance'[x] >= 0
      /\ \A x \in Users : balance'[x] = balance[x] \/ accountLock[x] = a
  <2>1. CASE UNCHANGED <<balance, posted>>
    BY <2>1 DEF TypeOK, BalanceNonNegative
  <2>2. CASE pc[a] = "commit" /\ PostLedgerLine(u, acct[a], order[a].delta)
    <3>1. accountLock[u] = a /\ ~Violates(acct[a], order[a].delta)
      BY <2>2 DEF AdminReadCurrent
    <3>2. acct[a] \in Int /\ acct[a] >= 0
      BY DEF TypeOK, SnapshotsNonNegative, Sessions
    <3>3. /\ WrittenBalance(u, acct[a], order[a].delta) \in Int
          /\ WrittenBalance(u, acct[a], order[a].delta) >= 0
      BY <1>1, <3>1, <3>2 DEF WrittenBalance, Violates, TypeOK, BalanceNonNegative
    <3>4. QED
      BY <1>1, <2>2, <3>1, <3>3 DEF PostLedgerLine, TypeOK, BalanceNonNegative
  <2>3. QED
    BY <2>1, <2>2
<1> HIDE DEF u
<1>4. TypeOK'
  <2>1. order' \in [Admins -> [user: Users \cup {Nobody}, delta: Int]]
    BY <1>2 DEF TypeOK, NoOrder
  <2>2. acct' \in [Sessions -> Int]
    BY <1>2 DEF TypeOK, Sessions
  <2>3. pc' \in [Sessions -> Labels]
    BY <1>2 DEF TypeOK, Labels
  <2>4. \A w \in Workers : pc'[w] = pc[w]
    BY <1>1, <1>2 DEF TypeOK, Sessions
  <2>5. QED
    BY <1>2, <1>3, <2>1, <2>2, <2>3, <2>4 DEF TypeOK
<1>5. IndexExclusive' /\ OwnRowUndecided' /\ AdjustsOwnRow' /\ PollFindsRow'
  BY <1>1, <1>2
     DEF TypeOK, Sessions, IndexExclusive, OwnRowUndecided, AdjustsOwnRow, PollFindsRow
<1>6. OwnRowDecided'
  <2> SUFFICES ASSUME NEW w \in Workers, pc[w] \in {"record", "commit"}, via[w] = "own"
               PROVE  /\ accountLock'[KeyUser[key[w]]] = w
                      /\ acct'[w] = acct[w]
                      /\ balance'[KeyUser[key[w]]] = balance[KeyUser[key[w]]]
    BY <1>1, <1>2 DEF TypeOK, Sessions, OwnRowDecided
  <2>1. key[w] \in Keys /\ KeyUser[key[w]] \in Users /\ accountLock[KeyUser[key[w]]] = w
    BY ConstantsAssumption DEF TypeOK, OwnRowDecided, Sessions
  <2>2. QED
    BY <1>1, <1>2, <1>3, <2>1 DEF TypeOK, Sessions
<1>7. FoundRowPersisted' /\ SnapshotsNonNegative'
  BY <1>1, <1>2 DEF TypeOK, Sessions, FoundRowPersisted, SnapshotsNonNegative
<1>8. AdminReadCurrent'
  <2> SUFFICES ASSUME NEW b \in Admins, b # a
               PROVE  /\ pc'[b] = pc[b] /\ order'[b] = order[b]
                      /\ pc[b] = "commit" =>
                           /\ accountLock'[order[b].user] = b
                           /\ acct'[b] = acct[b]
                           /\ balance'[order[b].user] = balance[order[b].user]
    BY <1>2 DEF TypeOK, Sessions, AdminReadCurrent
  <2>1. QED
    BY <1>1, <1>2, <1>3 DEF TypeOK, Sessions, AdminReadCurrent
<1>9. LedgerLineIffCommitted' /\ BalanceNonNegative'
  BY <1>2, <1>3 DEF LedgerLineIffCommitted, BalanceNonNegative
<1>10. QED
  BY <1>4, <1>5, <1>6, <1>7, <1>8, <1>9

\* An admin that has the account row has also read it afresh.
LEMMA AdminLockKeeps ==
  ASSUME IInv, NEW a \in Admins, pc[a] = "adjust",
         accountLock[order[a].user] = Nobody,
         ~Violates(balance[order[a].user], order[a].delta),
         acct' = [acct EXCEPT ![a] = balance[order[a].user]],
         accountLock' = [accountLock EXCEPT ![order[a].user] = a],
         Goto(a, "commit"),
         UNCHANGED <<tables, key, via, row, order, counted>>
  PROVE  IInv'
<1> USE DEF IInv, Goto, tables
<1>1. a \notin Workers /\ order[a].user \in Users
  BY ConstantsAssumption DEF AdminReadCurrent
<1>2. TypeOK'
  BY <1>1 DEF TypeOK, Sessions, Labels
<1>3. IndexExclusive' /\ OwnRowUndecided' /\ AdjustsOwnRow' /\ PollFindsRow'
  BY <1>1
     DEF TypeOK, Sessions, IndexExclusive, OwnRowUndecided, AdjustsOwnRow, PollFindsRow
<1>4. OwnRowDecided'
  BY <1>1, ConstantsAssumption DEF TypeOK, Sessions, OwnRowDecided
<1>5. FoundRowPersisted' /\ SnapshotsNonNegative'
  BY <1>1 DEF TypeOK, Sessions, FoundRowPersisted, SnapshotsNonNegative, BalanceNonNegative
<1>6. AdminReadCurrent'
  BY <1>1, ConstantsAssumption DEF TypeOK, Sessions, AdminReadCurrent
<1>7. LedgerLineIffCommitted' /\ BalanceNonNegative'
  BY DEF LedgerLineIffCommitted, BalanceNonNegative
<1>8. QED
  BY <1>2, <1>3, <1>4, <1>5, <1>6, <1>7

-------------------------------------------------------------------------------

\* Every step of the system preserves the invariant.
LEMMA NextKeeps == IInv /\ [Next]_vars => IInv'
<1> SUFFICES ASSUME IInv, [Next]_vars PROVE IInv'
  OBVIOUS
<1>1. ASSUME NEW w \in Workers, RunGame(w) \/ ExecuteDirectly(w) PROVE IInv'
  BY <1>1, BeginKeeps
<1>2. ASSUME NEW w \in Workers, Lookup(w) PROVE IInv'
  <2>1. pc[w] \notin {"idle", "adjust"} /\ via[w] # "own"
    BY <1>2 DEF Lookup, IInv, OwnRowUndecided
  <2>2. QED
    BY <1>2, <2>1, AbandonKeeps, TakeRowKeeps, ProceedKeeps DEF Lookup
<1>3. ASSUME NEW w \in Workers, Gate(w) PROVE IInv'
  BY <1>3, AbandonKeeps, ReadGateKeeps DEF Gate
<1>4. ASSUME NEW w \in Workers, CheckCooldown(w) PROVE IInv'
  <2>1. pc[w] \notin {"idle", "adjust"} /\ via[w] # "own"
    BY <1>4 DEF CheckCooldown, IInv, OwnRowUndecided
  <2>2. QED
    BY <1>4, <2>1, AbandonKeeps, ProceedKeeps DEF CheckCooldown
<1>5. ASSUME NEW w \in Workers, Execute(w) PROVE IInv'
  <2>1. pc[w] \notin {"idle", "adjust"} /\ via[w] # "own"
    BY <1>5 DEF Execute, IInv, OwnRowUndecided
  <2>2. QED
    BY <1>5, <2>1, AbandonKeeps, TakeRowKeeps, ProceedKeeps DEF Execute
<1>6. ASSUME NEW w \in Workers, Insert(w) PROVE IInv'
  <2>1. pc[w] \notin {"idle", "adjust"} /\ via[w] # "own"
    BY <1>6 DEF Insert, IInv, OwnRowUndecided
  <2>2. QED
    BY <1>6, <2>1, InsertRowKeeps, ProceedKeeps DEF Insert
<1>7. ASSUME NEW w \in Workers, Poll(w) PROVE IInv'
  BY <1>7, TakeRowKeeps DEF Poll
<1>8. ASSUME NEW w \in Workers, Adjust(w) PROVE IInv'
  BY <1>8, AdjustKeeps
<1>9. ASSUME NEW w \in Workers, RecordCompletion(w) PROVE IInv'
  BY <1>9, RecordCompletionKeeps
<1>10. ASSUME NEW w \in Workers, Commit(w) PROVE IInv'
  BY <1>10, CommitOwnKeeps, CommitFoundKeeps
<1>11. ASSUME NEW w \in Workers, Answer(w) \/ Raise(w) PROVE IInv'
  BY <1>11, AbandonKeeps DEF Answer, Raise
<1>12. ASSUME NEW w \in Workers, FailRound(w) \/ SaveFailure(w) PROVE IInv'
  BY <1>12, FailRoundKeeps, SaveFailureKeeps
<1>13. CASE BotCrash
  BY <1>13, BotCrashKeeps
<1>14. ASSUME NEW slot \in cooling, CooldownElapses(slot) PROVE IInv'
  BY <1>14, CooldownElapsesKeeps
<1>15. ASSUME NEW a \in Admins, AdminRequest(a) PROVE IInv'
  BY <1>15, AdminRequestKeeps
<1>16. ASSUME NEW a \in Admins, AdminAdjust(a) PROVE IInv'
  BY <1>16, AdminEndKeeps, AdminLockKeeps DEF AdminAdjust
<1>17. ASSUME NEW a \in Admins, AdminCommit(a) \/ AdminAbort(a) PROVE IInv'
  BY <1>17, AdminEndKeeps DEF AdminCommit, AdminAbort
<1>18. CASE UNCHANGED vars
  BY <1>18
     DEF vars, tables, IInv, TypeOK, Sessions, IndexExclusive, OwnRowUndecided,
         AdjustsOwnRow, OwnRowDecided, FoundRowPersisted, SnapshotsNonNegative,
         AdminReadCurrent, LedgerLineIffCommitted, BalanceNonNegative, PollFindsRow
<1>19. QED
  BY <1>1, <1>2, <1>3, <1>4, <1>5, <1>6, <1>7, <1>8, <1>9, <1>10, <1>11, <1>12,
     <1>13, <1>14, <1>15, <1>16, <1>17, <1>18
     DEF Next, WorkerStep, WaitingStep

LEMMA Invariance == Spec => []IInv
<1>1. Init => IInv
  BY InitEstablishes
<1>2. IInv /\ [Next]_vars => IInv'
  BY NextKeeps
<1>3. QED
  BY <1>1, <1>2, PTL DEF Spec

-------------------------------------------------------------------------------

\* Every variable keeps its type, and a worker past its decision holds a round.
THEOREM TypeCorrect == Spec => []TypeOK
  BY Invariance, PTL DEF IInv

\* However many sessions, failures and crashes there are, a key has exactly one
\* ledger line, of its row's payout, if its row is committed, and none otherwise.
THEOREM ChargedExactlyOnce == Spec => []LedgerLineIffCommitted
  BY Invariance, PTL DEF IInv

\* No account is overdrawn, although rounds debit from a balance read without a lock.
THEOREM NoOverdraft == Spec => []BalanceNonNegative
  BY Invariance, PTL DEF IInv

\* The poll after an IntegrityError always finds its row.
THEOREM PollSucceeds == Spec => []PollFindsRow
  BY Invariance, PTL DEF IInv

\* A user is only ever shown persisted rounds.
THEOREM AnswersPersisted == Spec => []AnswerIsPersisted
<1>1. IInv => AnswerIsPersisted
  BY DEF IInv, OwnRowUndecided, FoundRowPersisted, AnswerIsPersisted
<1>2. QED
  BY <1>1, Invariance, PTL

\* A transaction posts its ledger line and its balance together: if the balance it
\* started from is the current one, the two stay as far apart as they were.
LEMMA PostingKeepsDrift ==
  ASSUME TypeOK, NEW u \in Users, NEW d \in Int, PostLedgerLine(u, balance[u], d),
         NEW x \in Users
  PROVE  Drift(x)' = Drift(x)
<1>1. WrittenBalance(u, balance[u], d) = balance[u] + d
  BY DEF TypeOK, WrittenBalance
<1>2. QED
  BY <1>1 DEF TypeOK, PostLedgerLine, Drift

\* Only the commit of a round with a stale balance parts balance and ledger.
THEOREM DriftHasOneCause == Spec => DriftOnlyFromStaleRound
<1>1. ASSUME IInv, [Next]_vars, NEW u \in Users, Drift(u)' # Drift(u)
      PROVE  StaleRoundCommits(u)
  <2> USE DEF IInv
  <2>1. ~ UNCHANGED <<balance, posted>>
    BY <1>1 DEF Drift
  <2>2. \/ \E w \in Workers : Commit(w)
        \/ \E a \in Admins : AdminCommit(a)
    BY <1>1, <2>1
       DEF Next, WorkerStep, WaitingStep, vars, tables, RunGame, ExecuteDirectly, Lookup,
           Gate, CheckCooldown, Execute, Insert, Poll, Adjust, RecordCompletion,
           CountFirstWrite, Answer,
           FailRound, SaveFailure, Raise, BotCrash, CooldownElapses, AdminRequest,
           AdminAdjust, AdminAbort, Abandon, TakeRow, Proceed
  <2>3. ASSUME NEW w \in Workers, Commit(w) PROVE StaleRoundCommits(u)
    <3>1. via[w] = "own" /\ row[w].status = "committed" /\ pc[w] = "commit"
      BY <2>1, <2>3 DEF Commit, PersistRound, tables
    <3>2. key[w] \in Keys /\ KeyUser[key[w]] \in Users /\ row[w].payout \in Int
      BY <1>1, <3>1, ConstantsAssumption DEF TypeOK, Sessions, Round
    <3>3. PostLedgerLine(KeyUser[key[w]], acct[w], row[w].payout)
      BY <2>3, <3>1 DEF Commit, PersistRound
    <3>4. KeyUser[key[w]] = u
      BY <1>1, <3>2, <3>3 DEF PostLedgerLine, Drift, TypeOK
    <3>5. acct[w] # balance[u]
      BY <1>1, <3>2, <3>3, <3>4, PostingKeepsDrift
    <3>6. key[w] \notin DirectKeys
      BY <1>1, <3>1, <3>4, <3>5 DEF OwnRowDecided
    <3>7. QED
      BY <3>1, <3>4, <3>5, <3>6 DEF StaleRoundCommits
  <2>4. ASSUME NEW a \in Admins, AdminCommit(a) PROVE FALSE
    <3>1. /\ order[a].user \in Users /\ order[a].delta \in Int
          /\ acct[a] = balance[order[a].user]
      BY <1>1, <2>4 DEF AdminCommit, AdminReadCurrent, TypeOK
    <3>2. PostLedgerLine(order[a].user, balance[order[a].user], order[a].delta)
      BY <2>4, <3>1 DEF AdminCommit
    <3>3. QED
      BY <1>1, <3>1, <3>2, PostingKeepsDrift
  <2>5. QED
    BY <2>2, <2>3, <2>4
<1>2. IInv /\ [Next]_vars
        => [\A u \in Users : Drift(u)' # Drift(u) => StaleRoundCommits(u)]_vars
  BY <1>1
<1>3. QED
  BY <1>2, Invariance, PTL DEF Spec, DriftOnlyFromStaleRound

\* The sessions implement the round ledger: every step decides one undecided key
\* together with its ledger line, or changes neither rounds nor ledger lines.
THEOREM RefinesRoundLedger == Spec => ImplementsRoundLedger
<1>1. Init => Ledger!Init
  BY DEF Init, Ledger!Init, NoRound, Ledger!NoRound
<1>2. ASSUME IInv, [Next]_vars PROVE [Ledger!Next]_(Ledger!vars)
  <2> USE DEF IInv
  <2>1. SUFFICES ASSUME ~ UNCHANGED <<rounds, charged>>
                 PROVE  \E k \in Keys : Ledger!DecideCommitted(k) \/ Ledger!DecideWithoutCharge(k)
    BY DEF Ledger!Next, Ledger!vars
  <2>2. \/ \E w \in Workers : Commit(w)
        \/ \E w \in Workers : SaveFailure(w)
    BY <1>2, <2>1
       DEF Next, WorkerStep, WaitingStep, vars, tables, RunGame, ExecuteDirectly, Lookup,
           Gate, CheckCooldown, Execute, Insert, Poll, Adjust, RecordCompletion,
           CountFirstWrite, Answer,
           FailRound, Raise, BotCrash, CooldownElapses, AdminRequest, AdminAdjust,
           AdminCommit, AdminAbort, AdminEnd, Abandon, TakeRow, Proceed
  <2>3. ASSUME NEW w \in Workers, Commit(w)
        PROVE  \E k \in Keys : Ledger!DecideCommitted(k) \/ Ledger!DecideWithoutCharge(k)
    <3>1. via[w] = "own" /\ pc[w] = "commit" /\ PersistRound(w)
      BY <2>1, <2>3 DEF Commit, tables
    <3>2. /\ key[w] \in Keys
          /\ rounds[key[w]] = NoRound
          /\ row[w] \in Round
      BY <1>2, <3>1 DEF TypeOK, Sessions, OwnRowUndecided
    <3>3. rounds' = [rounds EXCEPT ![key[w]] = row[w]]
      BY <3>1 DEF PersistRound
    <3>4. CASE row[w].status = "committed"
      <4>1. row[w].payout \in Payouts(key[w])
        BY <1>2, <3>1, <3>4 DEF OwnRowDecided
      <4>2. row[w] = [status |-> "committed", payout |-> row[w].payout]
        BY <3>2, <3>4 DEF Round
      <4>3. charged' = [charged EXCEPT ![key[w]] = Append(@, row[w].payout)]
        BY <3>1, <3>4 DEF PersistRound
      <4>4. Ledger!DecideCommitted(key[w])
        BY <3>2, <3>3, <4>1, <4>2, <4>3 DEF Ledger!DecideCommitted, NoRound, Ledger!NoRound
      <4>5. QED
        BY <3>2, <4>4
    <3>5. CASE row[w].status # "committed"
      <4>1. row[w].status = "rejected" /\ row[w].payout = 0
        BY <1>2, <3>1, <3>5 DEF OwnRowDecided
      <4>2. row[w] = [status |-> "rejected", payout |-> 0]
        BY <3>2, <4>1 DEF Round
      <4>3. UNCHANGED charged
        BY <3>1, <3>5 DEF PersistRound
      <4>4. Ledger!DecideWithoutCharge(key[w])
        BY <3>2, <3>3, <4>2, <4>3 DEF Ledger!DecideWithoutCharge, NoRound, Ledger!NoRound
      <4>5. QED
        BY <3>2, <4>4
    <3>6. QED
      BY <3>4, <3>5
  <2>4. ASSUME NEW w \in Workers, SaveFailure(w)
        PROVE  \E k \in Keys : Ledger!DecideCommitted(k) \/ Ledger!DecideWithoutCharge(k)
    <3>1. /\ rounds[key[w]] = NoRound
          /\ rounds' = [rounds EXCEPT ![key[w]] = [status |-> "failed", payout |-> 0]]
          /\ UNCHANGED charged
      BY <2>1, <2>4 DEF SaveFailure
    <3>2. key[w] \in Keys
      BY <1>2, <2>4 DEF SaveFailure, TypeOK, Sessions
    <3>3. Ledger!DecideWithoutCharge(key[w])
      BY <3>1 DEF Ledger!DecideWithoutCharge, NoRound, Ledger!NoRound
    <3>4. QED
      BY <3>2, <3>3
  <2>5. QED
    BY <2>2, <2>3, <2>4
<1>3. QED
  BY <1>1, <1>2, Invariance, PTL DEF Spec, ImplementsRoundLedger, Ledger!Spec

-------------------------------------------------------------------------------

(***************************************************************************)
(* One bot worker and nobody adjusting tokens: then no balance read by the *)
(* worker can go stale, and every balance is the sum of its ledger lines.  *)
(***************************************************************************)
Alone == Admins = {} /\ \A v, w \in Workers : v = w

\* What the worker has read of the account is still so when it writes.
ReadsStayCurrent ==
  \A w \in Workers :
    /\ \/ pc[w] \in {"cooldown", "execute", "insert", "adjust"}
       \/ pc[w] \in {"record", "commit"} /\ via[w] = "own"
    /\ key[w] \notin DirectKeys
    => acct[w] = balance[KeyUser[key[w]]]

\* A worker on its own keeps every balance equal to the sum of its ledger lines.
THEOREM SerialLedgerMatches == ASSUME Alone PROVE Spec => []LedgerMatchesBalance
<1>1. Init => ReadsStayCurrent /\ LedgerMatchesBalance
  BY ConstantsAssumption DEF Init, ReadsStayCurrent, LedgerMatchesBalance, Sessions
<1>2. ASSUME IInv, ReadsStayCurrent, [Next]_vars,
             [\A u \in Users : Drift(u)' # Drift(u) => StaleRoundCommits(u)]_vars,
             LedgerMatchesBalance
      PROVE  ReadsStayCurrent' /\ LedgerMatchesBalance'
  <2>1. LedgerMatchesBalance'
    <3>1. \A u \in Users : ~ StaleRoundCommits(u)
      BY <1>2 DEF StaleRoundCommits, ReadsStayCurrent
    <3>2. \A u \in Users : Drift(u)' = Drift(u)
      BY <1>2, <3>1 DEF vars, tables, Drift
    <3>3. TypeOK'
      BY <1>2, NextKeeps DEF IInv
    <3>4. QED
      BY <1>2, <3>2, <3>3 DEF Drift, LedgerMatchesBalance, IInv, TypeOK
  <2>2. ReadsStayCurrent'
    <3> SUFFICES ASSUME NEW w \in Workers,
                        \/ pc'[w] \in {"cooldown", "execute", "insert", "adjust"}
                        \/ pc'[w] \in {"record", "commit"} /\ via'[w] = "own",
                        key'[w] \notin DirectKeys
                 PROVE  acct'[w] = balance'[KeyUser[key'[w]]]
      BY DEF ReadsStayCurrent
    <3> DEFINE Current(s) ==
          /\ \/ pc[s] \in {"cooldown", "execute", "insert", "adjust"}
             \/ pc[s] \in {"record", "commit"} /\ via[s] = "own"
          /\ key[s] \notin DirectKeys
          => acct[s] = balance[KeyUser[key[s]]]
    <3>1. /\ TypeOK
          /\ Current(w)
          /\ \A v \in Workers : v = w
          /\ Admins = {}
      BY <1>2 DEF IInv, ReadsStayCurrent, Alone
    <3>2. CASE UNCHANGED vars
      BY <3>1, <3>2 DEF vars, tables
    <3>3. CASE RunGame(w) \/ ExecuteDirectly(w)
      <4>1. pc'[w] \in {"lookup", "execute"} /\ (pc'[w] = "execute" => key'[w] \in DirectKeys)
        BY <3>1, <3>3 DEF RunGame, ExecuteDirectly, Goto, TypeOK, Sessions
      <4>2. QED
        BY <4>1
    <3>4. CASE Lookup(w) \/ Execute(w) \/ Poll(w)
      <4>1. CASE Abandon(w)
        BY <3>1, <4>1 DEF Abandon, Leave, Goto, TypeOK, Sessions
      <4>2. CASE TakeRow(w, "replay") \/ TakeRow(w, "found")
        <5>1. pc'[w] = "record" /\ via'[w] \in {"replay", "found"}
          BY <3>1, <4>2 DEF TakeRow, Goto, TypeOK, Sessions
        <5>2. QED
          BY <5>1
      <4>3. CASE pc[w] = "lookup" /\ Proceed(w, "gate")
        BY <3>1, <4>3 DEF Proceed, Goto, TypeOK, Sessions
      <4>4. CASE pc[w] = "execute" /\ Proceed(w, "insert")
        BY <3>1, <4>4 DEF Proceed, tables
      <4>5. QED
        BY <3>4, <4>1, <4>2, <4>3, <4>4 DEF Lookup, Execute, Poll
    <3>5. CASE Gate(w)
      <4>1. CASE Abandon(w)
        BY <3>1, <4>1 DEF Abandon, Leave, Goto, TypeOK, Sessions
      <4>2. CASE ~ Abandon(w)
        BY <3>1, <3>5, <4>2 DEF Gate, TypeOK, Sessions, tables
      <4>3. QED
        BY <4>1, <4>2
    <3>6. CASE CheckCooldown(w)
      <4>1. CASE Abandon(w)
        BY <3>1, <4>1 DEF Abandon, Leave, Goto, TypeOK, Sessions
      <4>2. CASE pc[w] = "cooldown" /\ Proceed(w, "execute")
        BY <3>1, <4>2 DEF Proceed, tables
      <4>3. QED
        BY <3>6, <4>1, <4>2 DEF CheckCooldown
    <3>7. CASE Insert(w)
      <4>1. CASE Proceed(w, "poll")
        BY <3>1, <4>1 DEF Proceed, Goto, TypeOK, Sessions
      <4>2. CASE ~ Proceed(w, "poll")
        <5>1. pc[w] = "insert" /\ UNCHANGED <<balance, key, acct>>
          BY <3>7, <4>2 DEF Insert, tables
        <5>2. QED
          BY <3>1, <5>1
      <4>3. QED
        BY <4>1, <4>2
    <3>8. CASE Adjust(w)
      <4>1. pc[w] = "adjust" /\ UNCHANGED <<balance, key, via>>
        BY <3>8 DEF Adjust, tables
      <4>2. acct' = [acct EXCEPT ![w] = acct[w]]
        BY <3>8, <4>1 DEF Adjust
      <4>3. QED
        BY <3>1, <4>1, <4>2 DEF TypeOK, Sessions
    <3>9. CASE RecordCompletion(w)
      <4>1. /\ pc[w] = "record" /\ pc'[w] = "commit"
            /\ UNCHANGED <<balance, key, via, acct>>
        BY <3>1, <3>9 DEF RecordCompletion, CountFirstWrite, Goto, TypeOK, Sessions, tables
      <4>2. QED
        BY <3>1, <4>1
    <3>10. CASE Commit(w) \/ FailRound(w)
      <4>1. pc'[w] \in {"answer", "save_failure"}
        BY <3>1, <3>10 DEF Commit, FailRound, Goto, TypeOK, Sessions
      <4>2. QED
        BY <4>1
    <3>11. CASE Answer(w) \/ Raise(w) \/ SaveFailure(w)
      <4>1. Leave(w)
        BY <3>11 DEF Answer, Raise, SaveFailure, Abandon
      <4>2. pc'[w] = "idle"
        BY <3>1, <4>1 DEF Leave, Goto, TypeOK, Sessions
      <4>3. QED
        BY <4>2
    <3>12. CASE BotCrash
      BY <3>1, <3>12 DEF BotCrash, Sessions
    <3>13. CASE \E slot \in cooling : CooldownElapses(slot)
      BY <3>1, <3>13 DEF CooldownElapses
    <3>14. QED
      BY <1>2, <3>1, <3>2, <3>3, <3>4, <3>5, <3>6, <3>7, <3>8, <3>9, <3>10, <3>11, <3>12,
         <3>13 DEF Next, WorkerStep, WaitingStep
  <2>3. QED
    BY <2>1, <2>2
<1>3. QED
  BY <1>1, <1>2, Invariance, DriftHasOneCause, PTL DEF Spec, DriftOnlyFromStaleRound

-------------------------------------------------------------------------------
(* The metrics *)

\* A round that a session of the engine is going to commit has been counted.
CountedBeforeCommit ==
  \A w \in Workers :
    pc[w] = "commit" /\ via[w] = "own" /\ key[w] \notin DirectKeys /\ MaxCounted > 0
    => counted[key[w]] > 0

\* A worker comes to its commit by recording the completion, and stays there with its
\* key and its row until it commits or raises.
LEMMA ArrivesByRecording ==
  ASSUME IInv, NEW v \in Workers, NEW w \in Workers, pc'[w] = "commit",
         \/ RunGame(v) \/ ExecuteDirectly(v)
         \/ WorkerStep(v) \/ WaitingStep(v)
         \/ FailRound(v) \/ Raise(v),
         ~RecordCompletion(v)
  PROVE  pc[w] = "commit" /\ via'[w] = via[w] /\ key'[w] = key[w] /\ counted' = counted
<1> USE DEF IInv, TypeOK, Sessions, Goto
<1>1. CASE RunGame(v) \/ ExecuteDirectly(v)
  BY <1>1 DEF RunGame, ExecuteDirectly
<1>2. CASE Lookup(v)
  BY <1>2 DEF Lookup, TakeRow, Proceed, Abandon, Leave
<1>3. CASE Gate(v)
  BY <1>3 DEF Gate, Abandon, Leave
<1>4. CASE CheckCooldown(v) \/ Execute(v) \/ Poll(v)
  BY <1>4 DEF CheckCooldown, Execute, Poll, TakeRow, Proceed, Abandon, Leave
<1>5. CASE Commit(v)
  BY <1>5 DEF Commit
<1>6. CASE Answer(v) \/ Raise(v)
  BY <1>6 DEF Answer, Raise, Abandon, Leave
<1>7. CASE Insert(v)
  BY <1>7 DEF Insert, Proceed
<1>8. CASE Adjust(v)
  BY <1>8 DEF Adjust
<1>9. CASE SaveFailure(v)
  BY <1>9 DEF SaveFailure, Leave
<1>10. CASE FailRound(v)
  BY <1>10 DEF FailRound
<1>11. QED
  BY <1>1, <1>2, <1>3, <1>4, <1>5, <1>6, <1>7, <1>8, <1>9, <1>10 DEF WorkerStep, WaitingStep

\* Recording makes the counter of the worker's own round positive and lowers no other.
LEMMA RecordingCounts ==
  ASSUME IInv, CountedBeforeCommit, NEW v \in Workers, RecordCompletion(v)
  PROVE  CountedBeforeCommit'
<1> SUFFICES ASSUME NEW w \in Workers, pc'[w] = "commit", via'[w] = "own",
                    key'[w] \notin DirectKeys, MaxCounted > 0
             PROVE  counted'[key'[w]] > 0
  BY DEF CountedBeforeCommit
<1>1. /\ key' = key /\ via' = via
      /\ \A k \in Keys : counted'[k] >= counted[k]
  BY ConstantsAssumption DEF RecordCompletion, CountFirstWrite, IInv, TypeOK
<1>2. key[w] \in Keys
  BY <1>1 DEF IInv, TypeOK, OwnRowUndecided, Sessions
<1>3. CASE w = v
  <2>1. \/ counted[key[v]] = MaxCounted /\ counted' = counted
        \/ counted' = [counted EXCEPT ![key[v]] = @ + 1]
    BY <1>1, <1>3 DEF RecordCompletion, CountFirstWrite
  <2>2. counted[key[v]] \in Nat
    BY <1>2, <1>3, ConstantsAssumption DEF IInv, TypeOK
  <2>3. QED
    BY <1>1, <1>2, <1>3, <2>1, <2>2 DEF IInv, TypeOK
<1>4. CASE w # v
  <2>1. pc[w] = "commit"
    BY <1>4 DEF RecordCompletion, CountFirstWrite, Goto, IInv, TypeOK, Sessions
  <2>2. counted[key[w]] > 0
    BY <1>1, <2>1 DEF CountedBeforeCommit
  <2>3. QED
    BY <1>1, <1>2, <2>2, ConstantsAssumption DEF IInv, TypeOK, RecordCompletion, CountFirstWrite
<1>5. QED
  BY <1>3, <1>4

\* No step brings a worker to a commit that has not been counted.
LEMMA CountsKeep ==
  ASSUME IInv, CountedBeforeCommit, [Next]_vars
  PROVE  CountedBeforeCommit'
<1>1. CASE UNCHANGED vars
  BY <1>1 DEF vars, tables, CountedBeforeCommit
<1>2. ASSUME NEW v \in Workers, RecordCompletion(v)
      PROVE  CountedBeforeCommit'
  BY <1>2, RecordingCounts
<1>3. ASSUME NEW v \in Workers,
             \/ RunGame(v) \/ ExecuteDirectly(v)
             \/ WorkerStep(v) \/ WaitingStep(v)
             \/ FailRound(v) \/ Raise(v),
             ~RecordCompletion(v)
      PROVE  CountedBeforeCommit'
  BY <1>3, ArrivesByRecording DEF CountedBeforeCommit
<1>4. CASE BotCrash
  BY <1>4 DEF BotCrash, CountedBeforeCommit, Sessions
<1>5. CASE \E slot \in cooling : CooldownElapses(slot)
  BY <1>5 DEF CooldownElapses, CountedBeforeCommit
<1>6. ASSUME NEW a \in Admins,
             AdminRequest(a) \/ AdminAdjust(a) \/ AdminCommit(a) \/ AdminAbort(a)
      PROVE  CountedBeforeCommit'
  <2>1. /\ UNCHANGED <<key, via, counted>>
        /\ \A w \in Workers : pc'[w] = pc[w]
    BY <1>6, ConstantsAssumption
       DEF AdminRequest, AdminAdjust, AdminCommit, AdminAbort, AdminEnd, Goto, IInv, TypeOK, Sessions
  <2>2. QED
    BY <2>1 DEF CountedBeforeCommit
<1>7. QED
  BY <1>1, <1>2, <1>3, <1>4, <1>5, <1>6 DEF Next

\* Whatever fails, no session of the engine commits a round that run_game_detailed has
\* not counted.
THEOREM MetricsComplete == Spec => MetricsMissNoRound
<1>1. Init => CountedBeforeCommit
  BY DEF Init, CountedBeforeCommit, Sessions
<1>2. CountedBeforeCommit =>
        [\A w \in Workers :
           Commit(w) /\ via[w] = "own" /\ key[w] \notin DirectKeys /\ MaxCounted > 0
           => counted[key[w]] > 0]_vars
  BY DEF CountedBeforeCommit, Commit
<1>3. QED
  BY <1>1, <1>2, CountsKeep, Invariance, PTL DEF Spec, MetricsMissNoRound

-------------------------------------------------------------------------------

(***************************************************************************)
(* One bot worker, which is the only one to start a cooldown, and direct   *)
(* rounds only of games without one: no round of a cooling game passes.    *)
(***************************************************************************)
OneWorker == \A v, w \in Workers : v = w

DirectWithoutCooldown == \A k \in DirectKeys : KeyGame[k] \notin CooldownGames

\* Past the check of the cooldown, with a round that may take effect.
PastCooldown(w) ==
  \/ pc[w] \in {"execute", "insert", "adjust"}
  \/ pc[w] \in {"record", "commit"} /\ via[w] = "own"

\* Only games with a cooldown cool, and what the worker has found of it stays so.
CooldownStaysClear ==
  /\ \A slot \in cooling : slot[2] \in CooldownGames
  /\ \A w \in Workers : PastCooldown(w) /\ key[w] \notin DirectKeys
                        => Slot(key[w]) \notin cooling

\* A cooldown begins with a commit, and nowhere else.
LEMMA CoolingGrowsByCommit ==
  ASSUME IInv, [Next]_vars, \A w \in Workers : ~ Commit(w)
  PROVE  cooling' \subseteq cooling
<1>1. ASSUME NEW w \in Workers,
             RunGame(w) \/ ExecuteDirectly(w) \/ WorkerStep(w) \/ WaitingStep(w)
               \/ FailRound(w) \/ Raise(w)
      PROVE  cooling' = cooling
  BY <1>1
     DEF RunGame, ExecuteDirectly, WorkerStep, WaitingStep, FailRound, Raise, Lookup, Gate,
         CheckCooldown, Execute, Poll, RecordCompletion, CountFirstWrite, Answer, Insert, Adjust,
         SaveFailure,
         TakeRow, Proceed, Abandon, tables
<1>2. CASE BotCrash  BY <1>2 DEF BotCrash, tables
<1>3. CASE \E slot \in cooling : CooldownElapses(slot)  BY <1>3 DEF CooldownElapses
<1>4. ASSUME NEW a \in Admins,
             AdminRequest(a) \/ AdminAdjust(a) \/ AdminCommit(a) \/ AdminAbort(a)
      PROVE  cooling' = cooling
  BY <1>4 DEF AdminRequest, AdminAdjust, AdminCommit, AdminAbort, AdminEnd, tables
<1>5. CASE UNCHANGED vars  BY <1>5 DEF vars, tables
<1>6. QED
  BY <1>1, <1>2, <1>3, <1>4, <1>5 DEF Next

\* A worker gets past the cooldown by checking it, or with a direct round.
LEMMA PassesByChecking ==
  ASSUME IInv, NEW v \in Workers, NEW w \in Workers, PastCooldown(w)',
         key'[w] \notin DirectKeys,
         \/ RunGame(v) \/ ExecuteDirectly(v)
         \/ WorkerStep(v) \/ WaitingStep(v)
         \/ FailRound(v) \/ Raise(v)
  PROVE  /\ key'[w] = key[w]
         /\ PastCooldown(w) \/ Slot(key[w]) \notin cooling
<1> USE DEF IInv, TypeOK, Sessions, Goto, PastCooldown
<1>1. CASE RunGame(v) \/ ExecuteDirectly(v)
  BY <1>1, ConstantsAssumption DEF RunGame, ExecuteDirectly
<1>2. CASE Lookup(v)
  BY <1>2 DEF Lookup, TakeRow, Proceed, Abandon, Leave
<1>3. CASE Gate(v)
  BY <1>3 DEF Gate, Abandon, Leave
<1>4. CASE CheckCooldown(v)
  BY <1>4 DEF CheckCooldown, Proceed, Abandon, Leave
<1>5. CASE Execute(v) \/ Poll(v)
  BY <1>5 DEF Execute, Poll, TakeRow, Proceed, Abandon, Leave
<1>6. CASE RecordCompletion(v)
  BY <1>6 DEF RecordCompletion, CountFirstWrite
<1>7. CASE Commit(v)
  BY <1>7 DEF Commit
<1>8. CASE Answer(v) \/ Raise(v)
  BY <1>8 DEF Answer, Raise, Abandon, Leave
<1>9. CASE Insert(v)
  BY <1>9 DEF Insert, Proceed
<1>10. CASE Adjust(v)
  BY <1>10 DEF Adjust, AdjustsOwnRow
<1>11. CASE SaveFailure(v)
  BY <1>11 DEF SaveFailure, Leave
<1>12. CASE FailRound(v)
  BY <1>12 DEF FailRound
<1>13. QED
  BY <1>1, <1>2, <1>3, <1>4, <1>5, <1>6, <1>7, <1>8, <1>9, <1>10, <1>11, <1>12
     DEF WorkerStep, WaitingStep

LEMMA ClearKeeps ==
  ASSUME OneWorker, IInv, CooldownStaysClear, [Next]_vars
  PROVE  CooldownStaysClear'
<1>1. ASSUME NEW w \in Workers, Commit(w) PROVE CooldownStaysClear'
  <2>1. \A v \in Workers : pc'[v] = "answer"
    BY <1>1 DEF Commit, Goto, OneWorker, IInv, TypeOK, Sessions
  <2>2. \A slot \in cooling' : slot[2] \in CooldownGames
    BY <1>1 DEF Commit, PersistRound, tables, CooldownStaysClear, Slot
  <2>3. QED
    BY <2>1, <2>2 DEF CooldownStaysClear, PastCooldown
<1>2. CASE \A w \in Workers : ~ Commit(w)
  <2>1. cooling' \subseteq cooling
    BY <1>2, CoolingGrowsByCommit
  <2>2. ASSUME NEW w \in Workers, PastCooldown(w)', key'[w] \notin DirectKeys
        PROVE  Slot(key'[w]) \notin cooling'
    <3>1. /\ key'[w] = key[w]
          /\ PastCooldown(w) \/ Slot(key[w]) \notin cooling
      <4>1. ASSUME NEW v \in Workers,
                   \/ RunGame(v) \/ ExecuteDirectly(v)
                   \/ WorkerStep(v) \/ WaitingStep(v)
                   \/ FailRound(v) \/ Raise(v)
            PROVE  /\ key'[w] = key[w]
                   /\ PastCooldown(w) \/ Slot(key[w]) \notin cooling
        BY <2>2, <4>1, PassesByChecking
      <4>2. CASE BotCrash
        BY <2>2, <4>2 DEF BotCrash, PastCooldown, Sessions
      <4>3. CASE \E slot \in cooling : CooldownElapses(slot)
        BY <2>2, <4>3 DEF CooldownElapses, PastCooldown
      <4>4. ASSUME NEW a \in Admins,
                   AdminRequest(a) \/ AdminAdjust(a) \/ AdminCommit(a) \/ AdminAbort(a)
            PROVE  key' = key /\ PastCooldown(w)
        BY <2>2, <4>4, ConstantsAssumption
           DEF AdminRequest, AdminAdjust, AdminCommit, AdminAbort, AdminEnd, Goto, IInv,
               TypeOK, Sessions, PastCooldown
      <4>5. CASE UNCHANGED vars
        BY <2>2, <4>5 DEF vars, PastCooldown
      <4>6. QED
        BY <1>2, <4>1, <4>2, <4>3, <4>4, <4>5 DEF Next
    <3>2. Slot(key[w]) \notin cooling
      BY <2>2, <3>1 DEF CooldownStaysClear
    <3>3. QED
      BY <2>1, <3>1, <3>2
  <2>3. QED
    BY <2>1, <2>2 DEF CooldownStaysClear, Slot
<1>3. QED
  BY <1>1, <1>2

\* A bot that runs one round at a time respects every cooldown, if rounds that go past the
\* engine are of games without one.
THEOREM SerialCooldown ==
  ASSUME OneWorker, DirectWithoutCooldown PROVE Spec => CooldownRespected
<1>1. Init => CooldownStaysClear
  BY DEF Init, CooldownStaysClear, PastCooldown, Sessions
<1>2. ASSUME IInv, CooldownStaysClear, [Next]_vars, ~ UNCHANGED vars,
             NEW k \in Keys, rounds[k] = NoRound, rounds'[k].status = "committed"
      PROVE  Slot(k) \notin cooling
  <2>1. PICK w \in Workers : Commit(w) \/ SaveFailure(w)
    <3>1. rounds' # rounds
      BY <1>2 DEF NoRound
    <3>2. QED
      BY <1>2, <3>1
         DEF Next, WorkerStep, WaitingStep, tables, RunGame, ExecuteDirectly, Lookup,
             Gate, CheckCooldown, Execute, Insert, Poll, Adjust, RecordCompletion,
           CountFirstWrite, Answer,
             FailRound, Raise, BotCrash, CooldownElapses, AdminRequest, AdminAdjust,
             AdminCommit, AdminAbort, AdminEnd, Abandon, TakeRow, Proceed
  <2>2. Commit(w)
    <3>1. ASSUME SaveFailure(w) PROVE FALSE
      BY <1>2, <3>1 DEF SaveFailure, IInv, TypeOK, NoRound
    <3>2. QED
      BY <2>1, <3>1
  <2>3. via[w] = "own" /\ pc[w] = "commit" /\ key[w] = k
    BY <1>2, <2>2 DEF Commit, PersistRound, tables, IInv, TypeOK, NoRound
  <2>4. CASE k \in DirectKeys
    BY <1>2, <2>4 DEF DirectWithoutCooldown, CooldownStaysClear, Slot
  <2>5. CASE k \notin DirectKeys
    BY <1>2, <2>3, <2>5 DEF CooldownStaysClear, PastCooldown
  <2>6. QED
    BY <2>4, <2>5
<1>3. IInv /\ CooldownStaysClear /\ [Next]_vars
        => [\A k \in Keys :
              rounds[k] = NoRound /\ rounds'[k].status = "committed" => Slot(k) \notin cooling]_vars
  BY <1>2
<1>4. IInv /\ CooldownStaysClear /\ [Next]_vars => CooldownStaysClear'
  BY ClearKeeps
<1>5. QED
  BY <1>1, <1>3, <1>4, Invariance, PTL DEF Spec, CooldownRespected

-------------------------------------------------------------------------------
(* No session waits for itself *)

AccountOf(s) == IF s \in Workers THEN KeyUser[key[s]] ELSE order[s].user

\* Session s waits for the end of the transaction of t: for the index entry of its key,
\* or for the row of its account.
Blocks(t, s) ==
  \/ /\ s \in Workers /\ t \in Workers \ {s}
     /\ pc[s] \in {"insert", "save_failure"}
     /\ HoldsIndexEntry(t) /\ key[t] = key[s]
  \/ pc[s] = "adjust" /\ accountLock[AccountOf(s)] = t

Waits(s) == \E t \in Sessions : Blocks(t, s)

\* A session that waits for an index entry may wait for a session that waits for a row,
\* and nobody waits behind more than these two.
WaitChainsEnd ==
  \A r, s, t \in Sessions : Blocks(t, s) /\ Blocks(r, t) => ~Waits(r)

\* Who holds an account row has no more to wait for.
HoldersRun ==
  \A u \in Users : \A s \in Sessions : accountLock[u] = s =>
    IF s \in Workers THEN pc[s] \in {"record", "commit"} ELSE pc[s] = "commit"

LEMMA HoldersRunKept == ASSUME IInv, HoldersRun, [Next]_vars PROVE HoldersRun'
<1> USE ConstantsAssumption DEF IInv, TypeOK, Sessions
<1>1. ASSUME NEW w \in Workers, Leave(w) PROVE HoldersRun'
  BY <1>1 DEF Leave, Goto, Unlocked, HoldersRun
<1>2. ASSUME NEW w \in Workers, Abandon(w) PROVE HoldersRun'
  BY <1>1, <1>2 DEF Abandon
<1>3. ASSUME NEW w \in Workers, NEW label, Goto(w, label), accountLock' = accountLock,
             pc[w] \in {"record", "commit"} => label = "commit"
      PROVE  HoldersRun'
  BY <1>3 DEF Goto, HoldersRun
<1>4. ASSUME NEW w \in Workers, NEW how, TakeRow(w, how), pc[w] \notin {"record", "commit"}
      PROVE  HoldersRun'
  BY <1>3, <1>4 DEF TakeRow
<1>5. ASSUME NEW w \in Workers, NEW label, Proceed(w, label), pc[w] \notin {"record", "commit"}
      PROVE  HoldersRun'
  BY <1>3, <1>5 DEF Proceed
<1>6. ASSUME NEW w \in Workers, RunGame(w) \/ ExecuteDirectly(w) PROVE HoldersRun'
  BY <1>3, <1>6 DEF RunGame, ExecuteDirectly
<1>7. ASSUME NEW w \in Workers, Lookup(w) PROVE HoldersRun'
  BY <1>2, <1>4, <1>5, <1>7 DEF Lookup
<1>8. ASSUME NEW w \in Workers, Gate(w) \/ CheckCooldown(w) PROVE HoldersRun'
  BY <1>2, <1>3, <1>5, <1>8 DEF Gate, CheckCooldown
<1>9. ASSUME NEW w \in Workers, Execute(w) \/ Poll(w) PROVE HoldersRun'
  BY <1>2, <1>4, <1>5, <1>9 DEF Execute, Poll
<1>10. ASSUME NEW w \in Workers, Insert(w) PROVE HoldersRun'
  BY <1>3, <1>5, <1>10 DEF Insert
<1>11. ASSUME NEW w \in Workers, Adjust(w) PROVE HoldersRun'
  BY <1>11 DEF Adjust, Goto, HoldersRun
<1>12. ASSUME NEW w \in Workers, RecordCompletion(w) \/ FailRound(w) PROVE HoldersRun'
  BY <1>3, <1>12 DEF RecordCompletion, CountFirstWrite, FailRound
<1>13. ASSUME NEW w \in Workers, Commit(w) PROVE HoldersRun'
  BY <1>13 DEF Commit, Goto, Unlocked, HoldersRun
<1>14. ASSUME NEW w \in Workers, Answer(w) \/ Raise(w) \/ SaveFailure(w) PROVE HoldersRun'
  BY <1>1, <1>2, <1>14 DEF Answer, Raise, SaveFailure
<1>15. CASE BotCrash
  BY <1>15 DEF BotCrash, Unlocked, HoldersRun
<1>16. ASSUME NEW a \in Admins, AdminEnd(a) PROVE HoldersRun'
  BY <1>16 DEF AdminEnd, Goto, Unlocked, HoldersRun
<1>17. ASSUME NEW a \in Admins, AdminRequest(a) PROVE HoldersRun'
  BY <1>17 DEF AdminRequest, Goto, HoldersRun
<1>18. ASSUME NEW a \in Admins, AdminAdjust(a) PROVE HoldersRun'
  <2>1. CASE AdminEnd(a)
    BY <1>16, <2>1
  <2>2. CASE ~AdminEnd(a)
    <3>1. PICK u : accountLock' = [accountLock EXCEPT ![u] = a]
      BY <1>18, <2>2 DEF AdminAdjust
    <3>2. pc' = [pc EXCEPT ![a] = "commit"] /\ a \notin Workers
      BY <1>18, <2>2 DEF AdminAdjust, Goto
    <3>3. QED
      BY <3>1, <3>2 DEF HoldersRun
  <2>3. QED
    BY <2>1, <2>2
<1>19. ASSUME NEW a \in Admins, AdminCommit(a) \/ AdminAbort(a) PROVE HoldersRun'
  BY <1>16, <1>19 DEF AdminCommit, AdminAbort
<1>20. CASE (\E slot \in cooling : CooldownElapses(slot)) \/ UNCHANGED vars
  BY <1>20 DEF CooldownElapses, vars, HoldersRun
<1>21. QED
  BY <1>6, <1>7, <1>8, <1>9, <1>10, <1>11, <1>12, <1>13, <1>14, <1>15, <1>17, <1>18, <1>19,
     <1>20 DEF Next, WorkerStep, WaitingStep

\* No cycle of waiting sessions comes about, with any number of bots, admins, keys and
\* accounts: whoever waits waits for a session that runs, or for one that waits for a
\* session that runs.  The round takes the index entry first and the account row last
\* (execute_game_round, adjust_user_tokens).
THEOREM NoDeadlock == Spec => []WaitChainsEnd
<1>1. Init => HoldersRun
  BY ConstantsAssumption DEF Init, HoldersRun, Sessions
<1>2. IInv /\ HoldersRun /\ [Next]_vars => HoldersRun'
  BY HoldersRunKept
<1>3. ASSUME IInv, HoldersRun PROVE WaitChainsEnd
  <2>1. ASSUME NEW s \in Sessions, NEW t \in Sessions, Blocks(t, s),
               pc[s] \in {"insert", "save_failure"}
        PROVE  pc[t] \in {"adjust", "record", "commit"}
    BY <1>3, <2>1 DEF Blocks, IInv, OwnRowUndecided, HoldsIndexEntry
  <2>2. ASSUME NEW s \in Sessions, NEW t \in Sessions, Blocks(t, s), pc[s] = "adjust"
        PROVE  pc[t] \in {"record", "commit"}
    <3>1. AccountOf(s) \in Users
      BY <1>3, <2>2, ConstantsAssumption
         DEF AccountOf, IInv, TypeOK, AdminReadCurrent, Sessions
    <3>2. QED
      BY <1>3, <2>2, <3>1 DEF Blocks, HoldersRun
  <2>3. \A s, t \in Sessions : Blocks(t, s) => pc[s] \in {"insert", "save_failure", "adjust"}
    BY DEF Blocks
  <2>4. QED
    BY <2>1, <2>2, <2>3 DEF WaitChainsEnd, Waits
<1>4. QED
  BY <1>1, <1>2, <1>3, Invariance, PTL DEF Spec

\* The statements a worker has still before it, at most.
StatementsLeft ==
  [lookup |-> 9, gate |-> 8, cooldown |-> 7, execute |-> 6, insert |-> 5, poll |-> 4,
   adjust |-> 4, record |-> 3, save_failure |-> 2, commit |-> 2, answer |-> 1, idle |-> 0]

\* A worker's step takes it nearer to the end of its update.
UpdatesShorten ==
  [][\A w \in Workers :
       pc[w] # "idle" /\ <<pc[w], key[w], via[w], row[w]>>' # <<pc[w], key[w], via[w], row[w]>>
       => StatementsLeft[pc'[w]] < StatementsLeft[pc[w]]]_vars

LEMMA StepShortens ==
  ASSUME IInv, [Next]_vars, NEW v \in Workers, pc[v] # "idle",
         <<pc'[v], key'[v], via'[v], row'[v]>> # <<pc[v], key[v], via[v], row[v]>>
  PROVE  StatementsLeft[pc'[v]] < StatementsLeft[pc[v]]
<1> USE ConstantsAssumption DEF IInv, TypeOK, Sessions, Goto, StatementsLeft
<1>1. ASSUME Leave(v) PROVE pc'[v] = "idle"
  BY <1>1 DEF Leave
<1>2. ASSUME pc'[v] = "idle" PROVE StatementsLeft[pc'[v]] < StatementsLeft[pc[v]]
  BY <1>2 DEF Labels
<1>3. ASSUME NEW w \in Workers, w # v,
             \/ RunGame(w) \/ ExecuteDirectly(w)
             \/ WorkerStep(w) \/ WaitingStep(w)
             \/ FailRound(w) \/ Raise(w)
      PROVE  FALSE
  BY <1>3
     DEF RunGame, ExecuteDirectly, WorkerStep, WaitingStep, FailRound, Raise, Lookup, Gate,
         CheckCooldown, Execute, Poll, RecordCompletion, CountFirstWrite, Commit, Answer, Insert,
         Adjust,
         SaveFailure, TakeRow, Proceed, Abandon, Leave
<1>4. ASSUME NEW a \in Admins,
             AdminRequest(a) \/ AdminAdjust(a) \/ AdminCommit(a) \/ AdminAbort(a)
      PROVE  FALSE
  BY <1>4 DEF AdminRequest, AdminAdjust, AdminCommit, AdminAbort, AdminEnd
<1>5. CASE (\E slot \in cooling : CooldownElapses(slot)) \/ UNCHANGED vars
  BY <1>5 DEF CooldownElapses, vars
<1>6. CASE BotCrash
  BY <1>2, <1>6 DEF BotCrash
<1>7. CASE RunGame(v) \/ ExecuteDirectly(v)
  BY <1>7 DEF RunGame, ExecuteDirectly
<1>8. CASE Lookup(v) \/ Gate(v) \/ CheckCooldown(v)
  BY <1>1, <1>2, <1>8 DEF Lookup, Gate, CheckCooldown, TakeRow, Proceed, Abandon
<1>9. CASE Execute(v) \/ Poll(v) \/ Insert(v)
  BY <1>1, <1>2, <1>9 DEF Execute, Poll, Insert, TakeRow, Proceed, Abandon
<1>10. CASE Adjust(v) \/ RecordCompletion(v) \/ Commit(v) \/ FailRound(v)
  BY <1>10 DEF Adjust, RecordCompletion, CountFirstWrite, Commit, FailRound
<1>11. CASE Answer(v) \/ Raise(v) \/ SaveFailure(v)
  BY <1>1, <1>2, <1>11 DEF Answer, Raise, SaveFailure, Abandon
<1>12. QED
  BY <1>3, <1>4, <1>5, <1>6, <1>7, <1>8, <1>9, <1>10, <1>11 DEF Next, WorkerStep, WaitingStep

\* Nothing an update does is done over: each step of its session, failures included, leaves
\* it fewer statements than before, so that an update that is not made to wait for ever
\* ends (run_game_detailed, execute_game_round).
THEOREM UpdatesEndAfterBoundedSteps == Spec => UpdatesShorten
<1>1. IInv /\ [Next]_vars =>
        [\A w \in Workers :
           pc[w] # "idle" /\ <<pc[w], key[w], via[w], row[w]>>' # <<pc[w], key[w], via[w], row[w]>>
           => StatementsLeft[pc'[w]] < StatementsLeft[pc[w]]]_vars
  BY StepShortens
<1>2. QED
  BY <1>1, Invariance, PTL DEF UpdatesShorten, Spec

===============================================================================
