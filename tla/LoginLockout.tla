----------------------------- MODULE LoginLockout ------------------------------
(***************************************************************************)
(* Failed logins of one identity: the lock rows of admin_login_locks, and  *)
(* in front of them the per-address throttle of the HTTP middleware.       *)
(*                                                                         *)
(* A thread is a login request.  The middleware counts it in memory after  *)
(* the response, having compared the count before it; the login service    *)
(* looks for an active lock, verifies the password, and then reads a lock  *)
(* row, decides and saves it.  Nothing makes a lock row unique, no row is  *)
(* locked, and a flush writes only the columns that differ from what was   *)
(* loaded.  Which password is right is the environment's choice.           *)
(***************************************************************************)
EXTENDS Integers, FiniteSets

CONSTANTS
  Threads,
  Ips,               \* client addresses
  LockRows,          \* primary keys of the lock table
  MaxLoginAttempts,  \* setting: failures that lock
  LoginLimit,        \* setting: 401 responses an address may have in a minute
  MaxGuesses,        \* bound: requests that come in
  NoIp, NoPk

ASSUME LockoutAssumption ==
  /\ MaxLoginAttempts \in Nat \ {0} /\ LoginLimit \in Nat /\ MaxGuesses \in Nat
  /\ NoIp \notin Ips /\ NoPk \notin LockRows /\ IsFiniteSet(Threads)

VARIABLES
  locks,     \* the lock row at each primary key, NoLock if none
  hits,      \* 401 responses of each address in the middleware's last minute
  \* threads
  pc, ip,
  found,     \* the lock row a failed login is going to save, NoPk for a new one
  seen,      \* the lock table as the thread has loaded it
  \* history
  tried,     \* failures of each address in the window and since its last lock
  raced,     \* addresses with two requests between load and save at one time
  guesses    \* requests that have come in

thread == <<ip, found, seen>>
vars == <<locks, hits, pc, thread, tried, raced, guesses>>

-------------------------------------------------------------------------------
(* Rows *)

\* recent: first_attempt_at is within the window.  lock: locked_until is NULL, in the
\* future, or past.
Lock == [ip : Ips, count : Nat, recent : BOOLEAN, lock : {"none", "on", "over"}]

NoLock == [ip |-> NoIp, count |-> 0, recent |-> FALSE, lock |-> "none"]

RowsOf(a) == {r \in LockRows : locks[r].ip = a}

Empty == [r \in LockRows |-> NoLock]

\* _active_lock
Locked(a) == \E r \in RowsOf(a) : locks[r].lock = "on"

\* Mutant of Locking: the lock waits for one failure more.
LockingLate(count) == count > MaxLoginAttempts

Locking(count) == count >= MaxLoginAttempts

Counted(row) == IF row.recent THEN row.count + 1 ELSE 1

\* What record_login_failure makes of a row.
Failed(row) ==
  [ip |-> row.ip, count |-> Counted(row), recent |-> TRUE,
   lock |-> IF Locking(Counted(row)) THEN "on" ELSE row.lock]

\* A row as it is flushed when there was none: the defaults of its columns.
Fresh(a) == [ip |-> a, count |-> 0, recent |-> TRUE, lock |-> "none"]

Column(new, loaded, current) == IF new # loaded THEN new ELSE current

\* The columns of a failure that differ from the loaded ones; locked_until is a new
\* time whenever it is assigned, and so is first_attempt_at.
MergeFailure(loaded, current) ==
  [ip |-> current.ip,
   count |-> Column(Counted(loaded), loaded.count, current.count),
   recent |-> IF loaded.recent THEN current.recent ELSE TRUE,
   lock |-> IF Locking(Counted(loaded)) THEN "on" ELSE current.lock]

\* The columns clear_login_failures assigns.
MergeClear(loaded, current) ==
  [ip |-> current.ip,
   count |-> Column(0, loaded.count, current.count),
   recent |-> TRUE,
   lock |-> IF loaded.lock = "none" THEN current.lock ELSE "none"]

Goto(t, label) == pc' = [pc EXCEPT ![t] = label]

Close(t) ==
  /\ Goto(t, "idle")
  /\ ip' = [ip EXCEPT ![t] = NoIp]
  /\ found' = [found EXCEPT ![t] = NoPk]
  /\ seen' = [seen EXCEPT ![t] = Empty]

-------------------------------------------------------------------------------
(* The middleware *)

\* Mutant of Arrive: the limit itself is let through.
ArriveAtLimit(t, a) ==
  /\ pc[t] = "idle"
  /\ hits[a] <= LoginLimit
  /\ guesses < MaxGuesses
  /\ guesses' = guesses + 1
  /\ ip' = [ip EXCEPT ![t] = a]
  /\ Goto(t, "check")
  /\ UNCHANGED <<locks, hits, found, seen, tried, raced>>

\* Below the limit a login goes on to its handler; otherwise it is answered 429 here.
Arrive(t, a) ==
  /\ pc[t] = "idle"
  /\ hits[a] < LoginLimit
  /\ guesses < MaxGuesses
  /\ guesses' = guesses + 1
  /\ ip' = [ip EXCEPT ![t] = a]
  /\ Goto(t, "check")
  /\ UNCHANGED <<locks, hits, found, seen, tried, raced>>

\* A 401 counts, with the time of the request's arrival.
Reply(t) ==
  /\ pc[t] = "reply"
  /\ hits' = [hits EXCEPT ![ip[t]] = @ + 1]
  /\ Close(t)
  /\ UNCHANGED <<locks, tried, raced, guesses>>

\* A statement fails: a 500, which the throttle does not count.
Abort(t) ==
  /\ pc[t] \notin {"idle", "reply"}
  /\ Close(t)
  /\ UNCHANGED <<locks, hits, tried, raced, guesses>>

\* Mutant of HitExpires: the queue is popped without a look whether it is empty.
HitExpiresUnguarded(a) ==
  /\ hits' = [hits EXCEPT ![a] = @ - 1]
  /\ UNCHANGED <<locks, pc, thread, tried, raced, guesses>>

HitExpires(a) ==
  /\ hits[a] > 0
  /\ hits' = [hits EXCEPT ![a] = @ - 1]
  /\ UNCHANGED <<locks, pc, thread, tried, raced, guesses>>

-------------------------------------------------------------------------------
(* The login service *)

\* assert_not_locked: 429, which the throttle does not count either.
Refuse(t) ==
  /\ pc[t] = "check"
  /\ Locked(ip[t])
  /\ Close(t)
  /\ UNCHANGED <<locks, hits, tried, raced, guesses>>

Admit(t) ==
  /\ pc[t] = "check"
  /\ ~Locked(ip[t])
  /\ Goto(t, "verify")
  /\ UNCHANGED <<locks, hits, thread, tried, raced, guesses>>

Saving(a) == {t \in Threads : pc[t] = "fail" /\ ip[t] = a}

Clearing == {t \in Threads : pc[t] = "clear"}

\* Mutant of Existing: rows that have been locked are not found again.
ExistingUnlocked(a) == {r \in RowsOf(a) : locks[r].lock = "none"}

\* The rows _get_or_create_lock finds.
Existing(a) == RowsOf(a)

\* Wrong password, unknown or inactive account: any of the address's rows is loaded.
LoadFailure(t) ==
  LET a == ip[t] IN
  /\ pc[t] = "verify"
  /\ IF Existing(a) = {} THEN found' = [found EXCEPT ![t] = NoPk]
     ELSE \E r \in Existing(a) : found' = [found EXCEPT ![t] = r]
  /\ seen' = [seen EXCEPT ![t] = locks]
  /\ raced' = IF Saving(a) \cup Clearing # {} THEN raced \cup {a} ELSE raced
  /\ Goto(t, "fail")
  /\ UNCHANGED <<locks, hits, ip, tried, guesses>>

\* Whether the failure counts on from the ones before it.
CountsOn(t) == found[t] = NoPk \/ seen[t][found[t]].recent

SaveFailure(t) ==
  /\ pc[t] = "fail"
  /\ IF found[t] # NoPk
     THEN locks' = [locks EXCEPT ![found[t]] = MergeFailure(seen[t][found[t]], @)]
     ELSE \E r \in LockRows :
            locks[r] = NoLock /\ locks' = [locks EXCEPT ![r] = Failed(Fresh(ip[t]))]
  /\ tried' = [tried EXCEPT ![ip[t]] = IF CountsOn(t) THEN @ + 1 ELSE 1]
  /\ Goto(t, "reply")
  /\ UNCHANGED <<hits, thread, raced, guesses>>

\* The right password: every row of the identity is loaded, whatever its address.
LoadClear(t) ==
  /\ pc[t] = "verify"
  /\ seen' = [seen EXCEPT ![t] = locks]
  /\ raced' = raced \cup {a \in Ips : Saving(a) # {}}
  /\ Goto(t, "clear")
  /\ UNCHANGED <<locks, hits, ip, found, tried, guesses>>

\* Mutant of SaveClear: only the rows of the client's own address.
SaveClearOwn(t) ==
  /\ pc[t] = "clear"
  /\ locks' = [r \in LockRows |->
       IF seen[t][r].ip # ip[t] THEN locks[r] ELSE MergeClear(seen[t][r], locks[r])]
  /\ tried' = [a \in Ips |-> 0]
  /\ Close(t)
  /\ UNCHANGED <<hits, raced, guesses>>

SaveClear(t) ==
  /\ pc[t] = "clear"
  /\ locks' = [r \in LockRows |->
       IF seen[t][r] = NoLock THEN locks[r] ELSE MergeClear(seen[t][r], locks[r])]
  /\ tried' = [a \in Ips |-> 0]
  /\ Close(t)
  /\ UNCHANGED <<hits, raced, guesses>>

-------------------------------------------------------------------------------
(* Time *)

WindowEnds(r) ==
  /\ locks[r].recent
  /\ locks' = [locks EXCEPT ![r].recent = FALSE]
  /\ tried' = [tried EXCEPT ![locks[r].ip] = 0]
  /\ UNCHANGED <<hits, pc, thread, raced, guesses>>

LockEnds(r) ==
  /\ locks[r].lock = "on"
  /\ locks' = [locks EXCEPT ![r].lock = "over"]
  /\ tried' = [tried EXCEPT ![locks[r].ip] = 0]
  /\ UNCHANGED <<hits, pc, thread, raced, guesses>>

-------------------------------------------------------------------------------

Init ==
  /\ locks = Empty
  /\ hits = [a \in Ips |-> 0]
  /\ pc = [t \in Threads |-> "idle"]
  /\ ip = [t \in Threads |-> NoIp]
  /\ found = [t \in Threads |-> NoPk]
  /\ seen = [t \in Threads |-> Empty]
  /\ tried = [a \in Ips |-> 0]
  /\ raced = {} /\ guesses = 0

Next ==
  \/ \E t \in Threads :
       \/ \E a \in Ips : Arrive(t, a)
       \/ Refuse(t) \/ Admit(t)
       \/ LoadFailure(t) \/ SaveFailure(t)
       \/ LoadClear(t) \/ SaveClear(t)
       \/ Reply(t) \/ Abort(t)
  \/ \E r \in LockRows : WindowEnds(r) \/ LockEnds(r)
  \/ \E a \in Ips : HitExpires(a)

Spec == Init /\ [][Next]_vars

-------------------------------------------------------------------------------
(* Properties *)

\* Tables, counters and threads have their types; a request in hand has an address.
TypeOK ==
  /\ locks \in [LockRows -> Lock \cup {NoLock}]
  /\ hits \in [Ips -> Nat]
  /\ pc \in [Threads -> {"idle", "check", "verify", "fail", "clear", "reply"}]
  /\ ip \in [Threads -> Ips \cup {NoIp}]
  /\ \A t \in Threads : ip[t] = NoIp <=> pc[t] = "idle"
  /\ found \in [Threads -> LockRows \cup {NoPk}]
  /\ seen \in [Threads -> [LockRows -> Lock \cup {NoLock}]]
  /\ tried \in [Ips -> Nat]
  /\ raced \subseteq Ips /\ guesses \in 0..MaxGuesses

\* An address whose failures reach the maximum within the window is locked, unless two
\* of its requests were between load and save at one time (record_login_failure adds
\* to the count it has loaded).
LockAfterMaxFailures ==
  \A a \in Ips \ raced : tried[a] >= MaxLoginAttempts => Locked(a)

\* An address of which no two requests overlapped has at most one lock row
\* (_get_or_create_lock, without a unique index).
OneLockRowUnlessRaced ==
  \A a \in Ips \ raced : \A r1, r2 \in RowsOf(a) : r1 = r2

\* A login that succeeds forgets the identity's failures at every address, but for
\* those it overlapped (clear_login_failures).
SuccessForgetsFailures ==
  [][\A t \in Threads : SaveClear(t) =>
       \A r \in LockRows : locks[r] # NoLock /\ locks[r].ip \notin raced =>
         locks'[r].count = 0 /\ locks'[r].lock = "none"]_vars

\* The throttle is checked before the request and counted after it: an address can
\* exceed the limit, by no more than the requests that were being handled at the time
\* (InMemoryRateLimitMiddleware.dispatch).
ThrottleOvershoot ==
  \A a \in Ips : LoginLimit > 0 => hits[a] <= LoginLimit - 1 + Cardinality(Threads)

===============================================================================
