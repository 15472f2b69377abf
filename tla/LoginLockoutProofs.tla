-------------------------- MODULE LoginLockoutProofs --------------------------
(***************************************************************************)
(* Proofs about LoginLockout, for any threads, addresses, rows and limits. *)
(*                                                                         *)
(* The inductive invariant says that what a thread has loaded of an        *)
(* unraced address is still so when it saves, and that the one row of such *)
(* an address has counted every failure.                                   *)
(***************************************************************************)
EXTENDS LoginLockout, FiniteSetTheorems, TLAPS

\* A row once loaded stays, with its address.
RowsStay ==
  /\ \A t \in Threads, r \in LockRows : seen[t][r] # NoLock => locks[r].ip = seen[t][r].ip
  /\ \A t \in Threads :
       pc[t] = "fail" /\ found[t] # NoPk => seen[t][found[t]] # NoLock /\ seen[t][found[t]].ip = ip[t]

\* A save that is to come races whatever else is between load and save.
Overlap ==
  \A t, u \in Threads :
    /\ t # u /\ pc[t] = "fail"
    /\ (pc[u] = "fail" /\ ip[u] = ip[t]) \/ pc[u] = "clear"
    => ip[t] \in raced

\* A failed login of an unraced address that found no row is its first, and one that
\* found a row has its present count.
FailureCurrent ==
  \A t \in Threads : pc[t] = "fail" /\ ip[t] \notin raced =>
    /\ found[t] = NoPk => RowsOf(ip[t]) = {}
    /\ found[t] # NoPk => seen[t][found[t]].count = locks[found[t]].count

\* What a success has loaded of an unraced address is all there is to forget.
ClearCurrent ==
  \A t \in Threads, r \in LockRows :
    pc[t] = "clear" /\ locks[r] # NoLock /\ locks[r].ip \notin raced =>
      /\ seen[t][r] # NoLock
      /\ seen[t][r].count = 0 => locks[r].count = 0
      /\ seen[t][r].lock = "none" => locks[r].lock = "none"

\* The row of an unraced address has counted its failures, and locked in time.
Tally ==
  \A a \in Ips \ raced :
    /\ RowsOf(a) = {} => tried[a] = 0
    /\ \A r \in RowsOf(a) :
         tried[a] <= locks[r].count /\ (tried[a] >= MaxLoginAttempts => locks[r].lock = "on")

IInv ==
  /\ TypeOK /\ RowsStay /\ Overlap /\ FailureCurrent /\ ClearCurrent /\ Tally
  /\ OneLockRowUnlessRaced

-------------------------------------------------------------------------------
(* Rows *)

LEMMA LockShape ==
  ASSUME TypeOK, NEW r \in LockRows
  PROVE  /\ locks[r] # NoLock => locks[r] \in Lock /\ locks[r].ip \in Ips /\ locks[r].count \in Nat
         /\ locks[r] = NoLock <=> locks[r].ip = NoIp
         /\ locks[r].recent \/ locks[r].lock = "on" => locks[r] # NoLock
<1>1. locks[r] # NoLock => locks[r] \in Lock  BY DEF TypeOK
<1>2. NoLock.ip = NoIp /\ NoLock.recent = FALSE /\ NoLock.lock = "none"  BY DEF NoLock
<1>3. locks[r].recent \/ locks[r].lock = "on" => locks[r] # NoLock  BY <1>2
<1> QED  BY <1>1, <1>2, <1>3, LockoutAssumption DEF Lock

LEMMA SeenShape ==
  ASSUME TypeOK, NEW t \in Threads, NEW r \in LockRows
  PROVE  /\ seen[t][r] # NoLock =>
              seen[t][r] \in Lock /\ seen[t][r].ip \in Ips /\ seen[t][r].count \in Nat
         /\ seen[t][r] = NoLock <=> seen[t][r].ip = NoIp
<1>1. seen[t][r] # NoLock => seen[t][r] \in Lock  BY DEF TypeOK
<1>2. NoLock.ip = NoIp  BY DEF NoLock
<1> QED  BY <1>1, <1>2, LockoutAssumption DEF Lock

LEMMA InitInv == Init => IInv
<1> SUFFICES ASSUME Init PROVE IInv  OBVIOUS
<1>1. TypeOK  BY LockoutAssumption DEF Init, TypeOK, Empty
<1>2. \A a \in Ips : RowsOf(a) = {}  BY LockoutAssumption DEF Init, RowsOf, Empty, NoLock
<1>3. RowsStay /\ Overlap /\ FailureCurrent /\ ClearCurrent
  BY DEF Init, RowsStay, Overlap, FailureCurrent, ClearCurrent, Empty
<1>4. Tally /\ OneLockRowUnlessRaced  BY <1>2 DEF Init, Tally, OneLockRowUnlessRaced
<1> QED  BY <1>1, <1>3, <1>4 DEF IInv

-------------------------------------------------------------------------------
(* Steps that leave the table alone and load nothing *)

LEMMA QuietStep ==
  ASSUME IInv, TypeOK', UNCHANGED <<locks, tried, raced>>,
         \A t \in Threads : pc'[t] \in {"fail", "clear"} =>
           pc'[t] = pc[t] /\ ip'[t] = ip[t] /\ found'[t] = found[t] /\ seen'[t] = seen[t],
         \A t \in Threads : seen'[t] = seen[t] \/ seen'[t] = Empty
  PROVE  IInv'
<1> USE DEF IInv
<1>1. RowsStay'  BY DEF RowsStay, Empty
<1>2. Overlap'  BY DEF Overlap
<1>3. FailureCurrent' /\ ClearCurrent'  BY DEF FailureCurrent, ClearCurrent, RowsOf
<1>4. Tally' /\ OneLockRowUnlessRaced'  BY DEF Tally, OneLockRowUnlessRaced, RowsOf
<1> QED  BY <1>1, <1>2, <1>3, <1>4

LEMMA CloseTypes ==
  ASSUME TypeOK, NEW t \in Threads, Close(t), UNCHANGED <<locks, raced, guesses>>,
         hits' \in [Ips -> Nat], tried' \in [Ips -> Nat]
  PROVE  TypeOK'
BY LockoutAssumption DEF TypeOK, Close, Goto, Empty

LEMMA ArriveStep ==
  ASSUME IInv, NEW t \in Threads, NEW a \in Ips, Arrive(t, a) PROVE IInv'
<1> USE DEF IInv
<1>1. TypeOK'  BY LockoutAssumption DEF TypeOK, Arrive, Goto
<1> QED  BY <1>1, QuietStep DEF TypeOK, Arrive, Goto

LEMMA AdmitStep ==
  ASSUME IInv, NEW t \in Threads, Admit(t) PROVE IInv'
<1> USE DEF IInv
<1>1. TypeOK'  BY LockoutAssumption DEF TypeOK, Admit, Goto, thread
<1> QED  BY <1>1, QuietStep DEF TypeOK, Admit, Goto, thread

LEMMA ReplyStep ==
  ASSUME IInv, NEW t \in Threads, Reply(t) PROVE IInv'
<1> USE DEF IInv
<1>1. ip[t] \in Ips  BY LockoutAssumption DEF TypeOK, Reply
<1>2. TypeOK'  BY <1>1, CloseTypes DEF TypeOK, Reply
<1> QED  BY <1>2, QuietStep DEF TypeOK, Reply, Close, Goto

LEMMA AbortStep ==
  ASSUME IInv, NEW t \in Threads, Abort(t) \/ Refuse(t) PROVE IInv'
<1> USE DEF IInv
<1>1. TypeOK'  BY CloseTypes DEF TypeOK, Abort, Refuse
<1> QED  BY <1>1, QuietStep DEF TypeOK, Abort, Refuse, Close, Goto

LEMMA HitExpiresStep ==
  ASSUME IInv, NEW a \in Ips, HitExpires(a) PROVE IInv'
<1> USE DEF IInv
<1>1. TypeOK'  BY DEF TypeOK, HitExpires, thread
<1> QED  BY <1>1, QuietStep DEF TypeOK, HitExpires, thread

-------------------------------------------------------------------------------
(* Loads *)

LEMMA LoadFailureStep ==
  ASSUME IInv, NEW t \in Threads, LoadFailure(t) PROVE IInv'
<1> USE DEF IInv
<1> DEFINE a == ip[t]
<1>1. a \in Ips  BY DEF TypeOK, LoadFailure
<1>2. /\ pc[t] = "verify" /\ pc' = [pc EXCEPT ![t] = "fail"]
      /\ seen' = [seen EXCEPT ![t] = locks]
      /\ UNCHANGED <<locks, hits, ip, tried, guesses>>
      /\ raced' = IF Saving(a) \cup Clearing # {} THEN raced \cup {a} ELSE raced
  BY DEF LoadFailure, Goto
<1>3. PICK f \in LockRows \cup {NoPk} :
        /\ found' = [found EXCEPT ![t] = f]
        /\ f = NoPk => RowsOf(a) = {}
        /\ f # NoPk => f \in RowsOf(a)
  BY LockoutAssumption DEF LoadFailure, Existing, RowsOf
<1>4. raced \subseteq raced' /\ raced' \subseteq Ips  BY <1>1, <1>2 DEF TypeOK
<1>5. TypeOK'  BY <1>1, <1>2, <1>3, <1>4 DEF TypeOK
<1>6. \A u \in Threads : u # t => /\ pc'[u] = pc[u] /\ found'[u] = found[u]
                                  /\ seen'[u] = seen[u] /\ ip'[u] = ip[u]
  BY <1>2, <1>3 DEF TypeOK
<1>7. pc'[t] = "fail" /\ found'[t] = f /\ seen'[t] = locks /\ ip'[t] = a  BY <1>2, <1>3 DEF TypeOK
<1>8. RowsStay'
  <2>1. f # NoPk => locks[f].ip = a /\ locks[f] # NoLock
    BY <1>1, <1>3, LockShape, LockoutAssumption DEF RowsOf
  <2> QED  BY <1>2, <1>6, <1>7, <2>1 DEF RowsStay
<1>9. Overlap'
  <2>1. \A u \in Threads : u # t /\ ((pc[u] = "fail" /\ ip[u] = a) \/ pc[u] = "clear") => a \in raced'
    BY <1>2 DEF Saving, Clearing
  <2> QED  BY <1>2, <1>4, <1>6, <1>7, <2>1 DEF Overlap
<1>10. FailureCurrent'
  BY <1>2, <1>3, <1>4, <1>6, <1>7 DEF FailureCurrent, RowsOf
<1>11. ClearCurrent'  BY <1>2, <1>4, <1>6, <1>7 DEF ClearCurrent
<1>12. Tally' /\ OneLockRowUnlessRaced'
  BY <1>2, <1>4 DEF Tally, OneLockRowUnlessRaced, RowsOf
<1> QED  BY <1>5, <1>8, <1>9, <1>10, <1>11, <1>12

LEMMA LoadClearStep ==
  ASSUME IInv, NEW t \in Threads, LoadClear(t) PROVE IInv'
<1> USE DEF IInv
<1>1. /\ pc[t] = "verify" /\ pc' = [pc EXCEPT ![t] = "clear"]
      /\ seen' = [seen EXCEPT ![t] = locks]
      /\ UNCHANGED <<locks, hits, ip, found, tried, guesses>>
      /\ raced' = raced \cup {a \in Ips : Saving(a) # {}}
  BY DEF LoadClear, Goto
<1>2. TypeOK'  BY <1>1 DEF TypeOK
<1>3. \A u \in Threads : u # t => pc'[u] = pc[u] /\ seen'[u] = seen[u]  BY <1>1 DEF TypeOK
<1>4. pc'[t] = "clear" /\ seen'[t] = locks  BY <1>1 DEF TypeOK
<1>5. RowsStay'  BY <1>1, <1>3, <1>4 DEF RowsStay
<1>6. Overlap'
  <2>1. ASSUME NEW u \in Threads, pc[u] = "fail" PROVE ip[u] \in raced'
    <3>1. ip[u] \in Ips  BY <2>1 DEF TypeOK
    <3> QED  BY <1>1, <2>1, <3>1 DEF Saving
  <2> QED  BY <1>1, <1>3, <1>4, <2>1 DEF Overlap
<1>7. FailureCurrent'  BY <1>1, <1>3, <1>4 DEF FailureCurrent, RowsOf
<1>8. ClearCurrent'  BY <1>1, <1>3, <1>4 DEF ClearCurrent
<1>9. Tally' /\ OneLockRowUnlessRaced'  BY <1>1 DEF Tally, OneLockRowUnlessRaced, RowsOf
<1> QED  BY <1>2, <1>5, <1>6, <1>7, <1>8, <1>9

-------------------------------------------------------------------------------
(* Saves *)

LEMMA MergeFailureShape ==
  ASSUME NEW loaded \in Lock, NEW current \in Lock
  PROVE  /\ MergeFailure(loaded, current) \in Lock
         /\ MergeFailure(loaded, current).ip = current.ip
         /\ MergeFailure(loaded, current).count = Column(Counted(loaded), loaded.count, current.count)
         /\ Locking(Counted(loaded)) => MergeFailure(loaded, current).lock = "on"
<1> DEFINE count == Column(Counted(loaded), loaded.count, current.count)
           recent == IF loaded.recent THEN current.recent ELSE TRUE
           lock == IF Locking(Counted(loaded)) THEN "on" ELSE current.lock
<1>1. count \in Nat  BY DEF Lock, Column, Counted
<1>2. recent \in BOOLEAN  BY DEF Lock
<1>3. lock \in {"none", "on", "over"}  BY DEF Lock
<1>4. MergeFailure(loaded, current) = [ip |-> current.ip, count |-> count, recent |-> recent, lock |-> lock]
  BY DEF MergeFailure
<1>5. Locking(Counted(loaded)) => lock = "on"  OBVIOUS
<1>6. current.ip \in Ips  BY DEF Lock
<1> HIDE DEF count, recent, lock
<1>7. MergeFailure(loaded, current) \in Lock  BY <1>1, <1>2, <1>3, <1>4, <1>6 DEF Lock
<1>8. MergeFailure(loaded, current).count = count  BY <1>4
<1>9. MergeFailure(loaded, current).lock = lock /\ MergeFailure(loaded, current).ip = current.ip
  BY <1>4
<1> QED  BY <1>5, <1>7, <1>8, <1>9 DEF count

LEMMA FreshShape ==
  ASSUME NEW a \in Ips
  PROVE  /\ Failed(Fresh(a)) \in Lock /\ Failed(Fresh(a)).ip = a
         /\ Failed(Fresh(a)).count = 1 /\ (Locking(1) => Failed(Fresh(a)).lock = "on")
<1> DEFINE lock == IF Locking(1) THEN "on" ELSE "none"
<1>1. Counted(Fresh(a)) = 1  BY DEF Counted, Fresh
<1>2. Failed(Fresh(a)) = [ip |-> a, count |-> 1, recent |-> TRUE, lock |-> lock]
  BY <1>1 DEF Failed, Fresh
<1>3. lock \in {"none", "on", "over"} /\ (Locking(1) => lock = "on")  OBVIOUS
<1> HIDE DEF lock
<1> QED  BY <1>2, <1>3 DEF Lock

\* A failure that found a row adds to it; a failure that found none inserts one.
LEMMA SaveFailureStep ==
  ASSUME IInv, NEW t \in Threads, SaveFailure(t) PROVE IInv'
<1> USE DEF IInv
<1> DEFINE a == ip[t]
<1>1. /\ pc[t] = "fail" /\ pc' = [pc EXCEPT ![t] = "reply"]
      /\ UNCHANGED <<hits, ip, found, seen, raced, guesses>>
      /\ tried' = [tried EXCEPT ![a] = IF CountsOn(t) THEN @ + 1 ELSE 1]
  BY DEF SaveFailure, Goto, thread
<1>2. a \in Ips  BY <1>1 DEF TypeOK
<1>3. PICK r \in LockRows, row \in Lock :
        /\ locks' = [locks EXCEPT ![r] = row]
        /\ row.ip = a
        /\ IF found[t] # NoPk
           THEN /\ r = found[t] /\ locks[r] # NoLock /\ locks[r].ip = a
                /\ row = MergeFailure(seen[t][r], locks[r])
           ELSE locks[r] = NoLock /\ row = Failed(Fresh(a))
  <2>1. CASE found[t] # NoPk
    <3> DEFINE r == found[t]
    <3>1. r \in LockRows /\ seen[t][r] # NoLock /\ seen[t][r].ip = a
      BY <1>1, <2>1 DEF TypeOK, RowsStay
    <3>2. locks[r].ip = a  BY <3>1 DEF RowsStay
    <3>3. locks[r] \in Lock /\ locks[r] # NoLock
      BY <1>2, <3>1, <3>2, LockShape, LockoutAssumption
    <3>4. seen[t][r] \in Lock  BY <3>1, SeenShape
    <3>5. MergeFailure(seen[t][r], locks[r]) \in Lock /\ MergeFailure(seen[t][r], locks[r]).ip = a
      BY <3>2, <3>3, <3>4, MergeFailureShape
    <3>6. locks' = [locks EXCEPT ![r] = MergeFailure(seen[t][r], locks[r])]
      BY <2>1, <3>1 DEF SaveFailure, TypeOK
    <3> QED  BY <2>1, <3>1, <3>2, <3>3, <3>5, <3>6
  <2>2. CASE found[t] = NoPk
    <3>1. Failed(Fresh(a)) \in Lock /\ Failed(Fresh(a)).ip = a
      BY <1>2, FreshShape
    <3> QED  BY <2>2, <3>1 DEF SaveFailure
  <2> QED  BY <2>1, <2>2
<1>4. /\ \A s \in LockRows : locks'[s] = IF s = r THEN row ELSE locks[s]
      /\ \A b \in Ips : tried'[b] = IF b = a THEN (IF CountsOn(t) THEN tried[a] + 1 ELSE 1)
                                    ELSE tried[b]
  BY <1>1, <1>2, <1>3 DEF TypeOK
<1>5. row # NoLock  BY <1>2, <1>3, LockoutAssumption DEF NoLock
<1>6. \A s \in LockRows : locks[s] # NoLock => locks'[s].ip = locks[s].ip  BY <1>3, <1>4
<1>7. TypeOK'
  <2>1. locks' \in [LockRows -> Lock \cup {NoLock}]  BY <1>3 DEF TypeOK
  <2>2. tried[a] \in Nat  BY <1>2 DEF TypeOK
  <2>3. tried' \in [Ips -> Nat]  BY <1>1, <2>2 DEF TypeOK
  <2> QED  BY <1>1, <2>1, <2>3 DEF TypeOK
<1>8. \A u \in Threads : u # t => pc'[u] = pc[u]  BY <1>1 DEF TypeOK
<1>9. pc'[t] = "reply"  BY <1>1 DEF TypeOK
<1>10. RowsStay'
  <2>1. \A u \in Threads, s \in LockRows : seen[u][s] # NoLock => locks'[s].ip = seen[u][s].ip
    <3>1. ASSUME NEW u \in Threads, NEW s \in LockRows, seen[u][s] # NoLock
          PROVE  locks[s] # NoLock /\ locks[s].ip = seen[u][s].ip
      BY <3>1, SeenShape, LockShape DEF RowsStay
    <3> QED  BY <1>6, <3>1
  <2> QED  BY <1>1, <1>8, <1>9, <2>1 DEF RowsStay
<1>11. Overlap'  BY <1>1, <1>8, <1>9 DEF Overlap
<1>12. a \notin raced => \A s \in LockRows : locks[s].ip = a => s = r
  <2>1. CASE found[t] # NoPk  BY <1>2, <1>3, <2>1 DEF RowsOf, OneLockRowUnlessRaced
  <2>2. CASE found[t] = NoPk  BY <1>1, <2>2 DEF FailureCurrent, RowsOf
  <2> QED  BY <2>1, <2>2
<1>13. OneLockRowUnlessRaced'
  BY <1>1, <1>3, <1>4, <1>12 DEF OneLockRowUnlessRaced, RowsOf
<1>14. FailureCurrent'
  <2>1. ASSUME NEW u \in Threads, u # t, pc[u] = "fail", ip[u] \notin raced PROVE ip[u] # a
    BY <1>1, <2>1 DEF Overlap
  <2>2. ASSUME NEW u \in Threads, u # t, pc[u] = "fail", ip[u] \notin raced
        PROVE  /\ found[u] = NoPk => \A s \in LockRows : locks'[s].ip # ip[u]
               /\ found[u] # NoPk => seen[u][found[u]].count = locks'[found[u]].count
    <3>1. ip[u] # a  BY <2>1, <2>2
    <3>2. found[u] # NoPk => found[u] \in LockRows /\ locks[found[u]].ip = ip[u] /\ found[u] # r
      <4>1. CASE found[u] # NoPk
        <5>1. found[u] \in LockRows /\ locks[found[u]].ip = ip[u]  BY <2>2, <4>1 DEF RowsStay, TypeOK
        <5>2. ip[u] \in Ips  BY <2>2 DEF TypeOK
        <5>3. locks[r] = NoLock \/ locks[r].ip = a  BY <1>3
        <5> QED  BY <3>1, <5>1, <5>2, <5>3, LockoutAssumption DEF NoLock
      <4> QED  BY <4>1
    <3> QED  BY <1>3, <1>4, <2>2, <3>1, <3>2 DEF FailureCurrent, RowsOf
  <2> QED  BY <1>1, <1>8, <1>9, <2>2 DEF FailureCurrent, RowsOf
<1>15. ClearCurrent'
  <2>1. ASSUME NEW u \in Threads, pc[u] = "clear" PROVE a \in raced  BY <1>1, <2>1 DEF Overlap
  <2> QED  BY <1>1, <1>3, <1>4, <1>8, <1>9, <2>1 DEF ClearCurrent
<1>16. Tally'
  <2>1. ASSUME NEW b \in Ips \ raced, b # a
        PROVE  /\ RowsOf(b)' = {} => tried'[b] = 0
               /\ \A s \in RowsOf(b)' :
                    /\ tried'[b] <= locks'[s].count
                    /\ tried'[b] >= MaxLoginAttempts => locks'[s].lock = "on"
    <3>1. \A s \in LockRows : locks'[s].ip = b <=> locks[s].ip = b
      <4>1. locks[r] = NoLock \/ locks[r].ip = a  BY <1>3
      <4>2. locks[r].ip # b  BY <2>1, <4>1, LockoutAssumption DEF NoLock
      <4> QED  BY <1>3, <1>4, <2>1, <4>2
    <3>2. \A s \in LockRows : locks[s].ip = b => locks'[s] = locks[s]  BY <1>3, <1>4, <2>1, <3>1
    <3> QED  BY <1>4, <2>1, <3>1, <3>2 DEF Tally, RowsOf
  <2>2. ASSUME a \notin raced
        PROVE  /\ RowsOf(a)' # {}
               /\ \A s \in RowsOf(a)' :
                    /\ tried'[a] <= locks'[s].count
                    /\ tried'[a] >= MaxLoginAttempts => locks'[s].lock = "on"
    <3>1. \A s \in RowsOf(a)' : s = r  BY <1>1, <1>3, <1>4, <1>12, <2>2 DEF RowsOf
    <3>2. r \in RowsOf(a)' /\ locks'[r] = row  BY <1>1, <1>3, <1>4 DEF RowsOf
    <3>3. tried'[a] <= row.count /\ (Locking(row.count) => row.lock = "on")
      <4>1. CASE found[t] # NoPk
        <5> DEFINE loaded == seen[t][r]
        <5>1. loaded.count = locks[r].count /\ loaded \in Lock /\ tried[a] <= locks[r].count
          BY <1>1, <1>2, <1>3, <2>2, <4>1, SeenShape DEF FailureCurrent, RowsStay, Tally, RowsOf
        <5>2. row = MergeFailure(loaded, locks[r]) /\ locks[r] \in Lock
          BY <1>3, <4>1, LockShape
        <5>3. CountsOn(t) <=> loaded.recent  BY <1>3, <4>1 DEF CountsOn
        <5>4. tried[a] \in Nat /\ loaded.count \in Nat /\ locks[r].count \in Nat
          BY <1>2, <5>1, <5>2 DEF TypeOK, Lock
        <5>5. tried'[a] = IF loaded.recent THEN tried[a] + 1 ELSE 1  BY <1>2, <1>4, <5>3
        <5> HIDE DEF loaded
        <5>6. row.count = Counted(loaded)  BY <5>1, <5>2, MergeFailureShape DEF Column
        <5>7. Locking(Counted(loaded)) => row.lock = "on"  BY <5>1, <5>2, MergeFailureShape
        <5> QED  BY <5>1, <5>4, <5>5, <5>6, <5>7 DEF Counted
      <4>2. CASE found[t] = NoPk
        <5>1. RowsOf(a) = {}  BY <1>1, <2>2, <4>2 DEF FailureCurrent
        <5>2. tried[a] = 0  BY <1>2, <2>2, <5>1 DEF Tally
        <5>3. tried'[a] = 1  BY <1>2, <1>4, <4>2, <5>2 DEF CountsOn
        <5>4. row.count = 1 /\ (Locking(1) => row.lock = "on")
          BY <1>2, <1>3, <4>2, FreshShape
        <5> QED  BY <5>3, <5>4
      <4> QED  BY <4>1, <4>2
    <3>4. tried'[a] \in Nat /\ row.count \in Nat  BY <1>2, <1>3, <1>7 DEF TypeOK, Lock
    <3> QED  BY <3>1, <3>2, <3>3, <3>4, LockoutAssumption DEF Locking
  <2> QED  BY <1>1, <2>1, <2>2 DEF Tally, RowsOf
<1> QED  BY <1>7, <1>10, <1>11, <1>13, <1>14, <1>15, <1>16

LEMMA MergeClearShape ==
  ASSUME NEW loaded \in Lock, NEW current \in Lock
  PROVE  /\ MergeClear(loaded, current) \in Lock
         /\ MergeClear(loaded, current).ip = current.ip
         /\ loaded.count = 0 \/ MergeClear(loaded, current).count = 0
         /\ current.count = 0 => MergeClear(loaded, current).count = 0
         /\ loaded.lock = "none" \/ MergeClear(loaded, current).lock = "none"
         /\ current.lock = "none" => MergeClear(loaded, current).lock = "none"
<1> DEFINE count == Column(0, loaded.count, current.count)
           lock == IF loaded.lock = "none" THEN current.lock ELSE "none"
<1>1. /\ count \in Nat
      /\ loaded.count = 0 \/ count = 0
      /\ current.count = 0 => count = 0
  BY DEF Lock, Column
<1>2. /\ lock \in {"none", "on", "over"}
      /\ loaded.lock = "none" \/ lock = "none"
      /\ current.lock = "none" => lock = "none"
  BY DEF Lock
<1>3. MergeClear(loaded, current) = [ip |-> current.ip, count |-> count, recent |-> TRUE, lock |-> lock]
  BY DEF MergeClear
<1>4. current.ip \in Ips  BY DEF Lock
<1> HIDE DEF count, lock
<1> QED  BY <1>1, <1>2, <1>3, <1>4 DEF Lock

\* A step that rewrites rows where they are, and forgets tries.
LEMMA RewriteStep ==
  ASSUME IInv, TypeOK', UNCHANGED raced,
         \A r \in LockRows :
           /\ locks'[r].ip = locks[r].ip
           /\ locks[r] = NoLock => locks'[r] = NoLock
           /\ locks[r].count = 0 => locks'[r].count = 0
           /\ locks[r].lock = "none" => locks'[r].lock = "none",
         \A a \in Ips : tried'[a] = tried[a] \/ tried'[a] = 0,
         \A r \in LockRows : locks[r] # NoLock /\ tried'[locks[r].ip] # 0 =>
           locks'[r].count = locks[r].count /\ locks'[r].lock = locks[r].lock,
         \A t \in Threads : pc'[t] \in {"fail", "clear"} =>
           pc'[t] = pc[t] /\ ip'[t] = ip[t] /\ found'[t] = found[t] /\ seen'[t] = seen[t],
         \A t \in Threads : seen'[t] = seen[t] \/ seen'[t] = Empty,
         \A t \in Threads : pc'[t] = "fail" /\ ip[t] \notin raced /\ found[t] # NoPk =>
           locks'[found[t]].count = locks[found[t]].count
  PROVE  IInv'
<1> USE DEF IInv
<1>1. RowsStay'  BY DEF RowsStay, Empty
<1>2. Overlap'  BY DEF Overlap
<1>3. FailureCurrent'  BY DEF FailureCurrent, RowsOf
<1>4. ClearCurrent'  BY DEF ClearCurrent
<1>5. OneLockRowUnlessRaced'  BY DEF OneLockRowUnlessRaced, RowsOf
<1>6. Tally'
  <2>1. ASSUME NEW a \in Ips \ raced
        PROVE  /\ RowsOf(a)' = {} => tried'[a] = 0
               /\ \A r \in RowsOf(a)' :
                    /\ tried'[a] <= locks'[r].count
                    /\ tried'[a] >= MaxLoginAttempts => locks'[r].lock = "on"
    <3>1. RowsOf(a)' = RowsOf(a)  BY DEF RowsOf
    <3>2. CASE tried'[a] = 0
      <4>1. ASSUME NEW r \in RowsOf(a) PROVE locks'[r].count \in Nat
        <5>1. r \in LockRows /\ locks'[r].ip \in Ips  BY DEF RowsOf
        <5>2. locks'[r] \in Lock  BY <5>1, LockoutAssumption DEF TypeOK, NoLock
        <5> QED  BY <5>2 DEF Lock
      <4>2. ~(tried'[a] >= MaxLoginAttempts)  BY <3>2, LockoutAssumption
      <4> QED  BY <3>1, <3>2, <4>1, <4>2
    <3>3. CASE tried'[a] # 0
      <4>1. tried'[a] = tried[a]  BY <3>3
      <4>2. ASSUME NEW r \in RowsOf(a)
            PROVE  locks'[r].count = locks[r].count /\ locks'[r].lock = locks[r].lock
        <5>1. r \in LockRows /\ locks[r].ip = a /\ locks[r] # NoLock
          BY LockoutAssumption DEF RowsOf, NoLock
        <5> QED  BY <3>3, <5>1
      <4> QED  BY <3>1, <4>1, <4>2 DEF Tally
    <3> QED  BY <3>2, <3>3
  <2> QED  BY <2>1 DEF Tally, RowsOf
<1> QED  BY <1>1, <1>2, <1>3, <1>4, <1>5, <1>6

LEMMA SaveClearStep ==
  ASSUME IInv, NEW t \in Threads, SaveClear(t) PROVE IInv'
<1> USE DEF IInv
<1>1. /\ pc[t] = "clear" /\ Close(t)
      /\ locks' = [r \in LockRows |->
           IF seen[t][r] = NoLock THEN locks[r] ELSE MergeClear(seen[t][r], locks[r])]
      /\ tried' = [a \in Ips |-> 0]
      /\ UNCHANGED <<hits, raced, guesses>>
  BY DEF SaveClear
<1>2. ASSUME NEW r \in LockRows
      PROVE  /\ locks'[r] \in Lock \cup {NoLock}
             /\ locks'[r].ip = locks[r].ip
             /\ locks[r] = NoLock => locks'[r] = NoLock
             /\ locks[r].count = 0 => locks'[r].count = 0
             /\ locks[r].lock = "none" => locks'[r].lock = "none"
  <2>1. CASE seen[t][r] = NoLock
    <3>1. locks'[r] = locks[r]  BY <1>1, <2>1
    <3> QED  BY <3>1 DEF TypeOK
  <2>2. CASE seen[t][r] # NoLock
    <3>1. seen[t][r] \in Lock  BY <2>2, SeenShape
    <3>2. locks[r] # NoLock /\ locks[r] \in Lock
      BY <2>2, SeenShape, LockShape DEF RowsStay
    <3>3. locks'[r] = MergeClear(seen[t][r], locks[r])  BY <1>1, <2>2
    <3> QED  BY <3>1, <3>2, <3>3, MergeClearShape
  <2> QED  BY <2>1, <2>2
<1>3. TypeOK'
  <2>1. locks' \in [LockRows -> Lock \cup {NoLock}]  BY <1>1, <1>2
  <2>2. hits' \in [Ips -> Nat] /\ tried' \in [Ips -> Nat]  BY <1>1 DEF TypeOK
  <2> QED  BY <1>1, <2>1, <2>2, LockoutAssumption DEF TypeOK, Close, Goto, Empty
<1>4. \A u \in Threads : pc'[u] \in {"fail", "clear"} =>
        /\ u # t /\ pc'[u] = pc[u] /\ ip'[u] = ip[u] /\ found'[u] = found[u] /\ seen'[u] = seen[u]
  BY <1>1 DEF TypeOK, Close, Goto
<1>5. \A u \in Threads : seen'[u] = seen[u] \/ seen'[u] = Empty  BY <1>1 DEF TypeOK, Close
<1>6. \A u \in Threads : pc'[u] = "fail" => ip[u] \in raced  BY <1>1, <1>4 DEF Overlap
<1>7. \A a \in Ips : tried'[a] = 0  BY <1>1
<1>8. \A r \in LockRows : locks[r] # NoLock => tried'[locks[r].ip] = 0  BY <1>7, LockShape
<1> QED  BY <1>1, <1>2, <1>3, <1>4, <1>5, <1>6, <1>7, <1>8, RewriteStep

\* The end of a window leaves counts and locks, the end of a lock its count.
LEMMA TimeStep ==
  ASSUME IInv, NEW r \in LockRows, WindowEnds(r) \/ LockEnds(r) PROVE IInv'
<1> USE DEF IInv
<1>1. locks[r] \in Lock /\ locks[r].ip \in Ips /\ locks[r] # NoLock
  BY LockShape DEF WindowEnds, LockEnds
<1>2. PICK row \in Lock :
        /\ locks' = [locks EXCEPT ![r] = row]
        /\ row.ip = locks[r].ip /\ row.count = locks[r].count
        /\ locks[r].lock = "none" => row.lock = "none"
  <2>1. CASE WindowEnds(r)
    <3> DEFINE row == [locks[r] EXCEPT !.recent = FALSE]
    <3>1. /\ row \in Lock /\ row.ip = locks[r].ip /\ row.count = locks[r].count
          /\ row.lock = locks[r].lock
      BY <1>1 DEF Lock
    <3>2. locks' = [locks EXCEPT ![r] = row]  BY <2>1 DEF WindowEnds, TypeOK
    <3> HIDE DEF row
    <3> QED  BY <3>1, <3>2
  <2>2. CASE LockEnds(r)
    <3> DEFINE row == [locks[r] EXCEPT !.lock = "over"]
    <3>1. row \in Lock /\ row.ip = locks[r].ip /\ row.count = locks[r].count
      BY <1>1 DEF Lock
    <3>2. locks' = [locks EXCEPT ![r] = row]  BY <2>2 DEF LockEnds, TypeOK
    <3>3. locks[r].lock # "none"  BY <2>2 DEF LockEnds
    <3> HIDE DEF row
    <3> QED  BY <3>1, <3>2, <3>3
  <2> QED  BY <2>1, <2>2
<1>3. /\ tried' = [tried EXCEPT ![locks[r].ip] = 0]
      /\ UNCHANGED <<hits, pc, ip, found, seen, raced, guesses>>
  BY DEF WindowEnds, LockEnds, thread
<1>4. TypeOK'  BY <1>2, <1>3 DEF TypeOK
<1>5. \A s \in LockRows : locks'[s] = IF s = r THEN row ELSE locks[s]  BY <1>2 DEF TypeOK
<1>6. \A a \in Ips : tried'[a] = IF a = locks[r].ip THEN 0 ELSE tried[a]  BY <1>3 DEF TypeOK
<1>7. \A s \in LockRows :
        /\ locks'[s].ip = locks[s].ip /\ locks'[s].count = locks[s].count
        /\ locks[s] = NoLock => locks'[s] = NoLock
        /\ locks[s].lock = "none" => locks'[s].lock = "none"
  BY <1>1, <1>2, <1>5
<1>8. \A s \in LockRows : locks[s] # NoLock /\ tried'[locks[s].ip] # 0 =>
        locks'[s].count = locks[s].count /\ locks'[s].lock = locks[s].lock
  BY <1>1, <1>5, <1>6, <1>7
<1>9. \A t \in Threads : pc'[t] = "fail" /\ ip[t] \notin raced /\ found[t] # NoPk =>
        locks'[found[t]].count = locks[found[t]].count
  BY <1>3, <1>7 DEF TypeOK
<1> QED  BY <1>3, <1>4, <1>6, <1>7, <1>8, <1>9, RewriteStep

-------------------------------------------------------------------------------
(* Invariance *)

LEMMA NextStep == IInv /\ [Next]_vars => IInv'
<1> SUFFICES ASSUME IInv, [Next]_vars PROVE IInv'  OBVIOUS
<1>1. ASSUME NEW t \in Threads,
             \/ \E a \in Ips : Arrive(t, a)
             \/ Refuse(t) \/ Admit(t) \/ Reply(t) \/ Abort(t)
      PROVE  IInv'
  BY <1>1, ArriveStep, AdmitStep, ReplyStep, AbortStep
<1>2. ASSUME NEW t \in Threads,
             LoadFailure(t) \/ SaveFailure(t) \/ LoadClear(t) \/ SaveClear(t)
      PROVE  IInv'
  BY <1>2, LoadFailureStep, SaveFailureStep, LoadClearStep, SaveClearStep
<1>3. ASSUME NEW r \in LockRows, WindowEnds(r) \/ LockEnds(r) PROVE IInv'  BY <1>3, TimeStep
<1>4. ASSUME NEW a \in Ips, HitExpires(a) PROVE IInv'  BY <1>4, HitExpiresStep
<1>5. CASE UNCHANGED vars
  <2>1. TypeOK'  BY <1>5 DEF IInv, TypeOK, vars, thread
  <2> QED  BY <1>5, <2>1, QuietStep DEF vars, thread
<1> QED  BY <1>1, <1>2, <1>3, <1>4, <1>5 DEF Next

LEMMA Invariance == Spec => []IInv
BY InitInv, NextStep, PTL DEF Spec

-------------------------------------------------------------------------------
(* Theorems *)

\* Tables, counters and threads always have their types.
THEOREM TypeCorrect == Spec => []TypeOK
<1>1. IInv => TypeOK  BY DEF IInv
<1> QED  BY <1>1, Invariance, PTL

\* Enough failures lock an address, whatever other addresses, successes and the clock do,
\* if no two of its requests overlapped.
THEOREM FailuresLock == Spec => []LockAfterMaxFailures
<1>1. IInv => LockAfterMaxFailures
  <2> SUFFICES ASSUME IInv, NEW a \in Ips \ raced, tried[a] >= MaxLoginAttempts
               PROVE  \E r \in RowsOf(a) : locks[r].lock = "on"
    BY DEF LockAfterMaxFailures, Locked
  <2>1. tried[a] # 0  BY LockoutAssumption
  <2>2. PICK r \in RowsOf(a) : TRUE  BY <2>1 DEF IInv, Tally
  <2> QED  BY <2>2 DEF IInv, Tally
<1> QED  BY <1>1, Invariance, PTL

\* An address has one row without a unique index, if no two of its requests overlapped.
THEOREM OneLockRow == Spec => []OneLockRowUnlessRaced
<1>1. IInv => OneLockRowUnlessRaced  BY DEF IInv
<1> QED  BY <1>1, Invariance, PTL

\* A success leaves no count and no lock at an address it did not overlap.
THEOREM SuccessForgets == Spec => SuccessForgetsFailures
<1>1. ASSUME IInv, NEW t \in Threads, SaveClear(t), NEW r \in LockRows,
             locks[r] # NoLock, locks[r].ip \notin raced
      PROVE  locks'[r].count = 0 /\ locks'[r].lock = "none"
  <2> USE DEF IInv
  <2>1. /\ seen[t][r] # NoLock
        /\ seen[t][r].count = 0 => locks[r].count = 0
        /\ seen[t][r].lock = "none" => locks[r].lock = "none"
    BY <1>1 DEF ClearCurrent, SaveClear
  <2>2. locks'[r] = MergeClear(seen[t][r], locks[r])  BY <1>1, <2>1 DEF SaveClear
  <2>3. seen[t][r] \in Lock /\ locks[r] \in Lock  BY <1>1, <2>1, SeenShape, LockShape
  <2> QED  BY <2>1, <2>2, <2>3, MergeClearShape
<1>2. IInv /\ [Next]_vars
        => [\A t \in Threads : SaveClear(t) =>
              \A r \in LockRows : locks[r] # NoLock /\ locks[r].ip \notin raced =>
                locks'[r].count = 0 /\ locks'[r].lock = "none"]_vars
  BY <1>1
<1> QED  BY <1>2, Invariance, PTL DEF Spec, SuccessForgetsFailures

InFlight(a) == {t \in Threads : ip[t] = a}

\* Responses and requests in flight together stay below the limit and the threads.
Throttled ==
  \A a \in Ips : LoginLimit > 0 =>
    hits[a] + Cardinality(InFlight(a)) <= LoginLimit - 1 + Cardinality(Threads)

LEMMA InFlightFinite ==
  ASSUME NEW a
  PROVE  /\ IsFiniteSet(InFlight(a)) /\ Cardinality(InFlight(a)) \in Nat
         /\ Cardinality(Threads) \in Nat /\ Cardinality(InFlight(a)) <= Cardinality(Threads)
<1>1. InFlight(a) \in SUBSET Threads  BY DEF InFlight
<1> QED  BY <1>1, LockoutAssumption, FS_Subset, FS_CardinalityType

\* Whatever is in flight when the limit is reached, the overshoot is bounded by it.
THEOREM OvershootBounded == Spec => []ThrottleOvershoot
<1>1. Init => Throttled
  <2> SUFFICES ASSUME Init, NEW a \in Ips, LoginLimit > 0
               PROVE  hits[a] + Cardinality(InFlight(a)) <= LoginLimit - 1 + Cardinality(Threads)
    BY DEF Throttled
  <2>1. hits[a] = 0  BY DEF Init
  <2> QED  BY <2>1, InFlightFinite, LockoutAssumption
<1>2. IInv /\ Throttled /\ [Next]_vars => Throttled'
  <2> SUFFICES ASSUME IInv, Throttled, [Next]_vars, NEW a \in Ips, LoginLimit > 0
               PROVE  hits'[a] + Cardinality(InFlight(a)') <= LoginLimit - 1 + Cardinality(Threads)
    BY DEF Throttled, InFlight
  <2> USE DEF IInv
  <2>1. /\ IsFiniteSet(InFlight(a)) /\ IsFiniteSet(InFlight(a)')
        /\ Cardinality(InFlight(a)) \in Nat /\ Cardinality(InFlight(a)') \in Nat
        /\ Cardinality(Threads) \in Nat /\ Cardinality(InFlight(a)') <= Cardinality(Threads)
        /\ hits[a] \in Nat /\ LoginLimit \in Nat
    <3>1. InFlight(a)' \in SUBSET Threads  BY DEF InFlight
    <3>2. hits[a] \in Nat  BY DEF TypeOK
    <3> QED
      BY <3>1, <3>2, InFlightFinite, LockoutAssumption, FS_Subset, FS_CardinalityType
  <2>2. hits[a] + Cardinality(InFlight(a)) <= LoginLimit - 1 + Cardinality(Threads)
    BY DEF Throttled
  <2>3. ASSUME hits'[a] \in Nat, hits'[a] <= hits[a], InFlight(a)' \subseteq InFlight(a)
        PROVE  hits'[a] + Cardinality(InFlight(a)') <= LoginLimit - 1 + Cardinality(Threads)
    <3>1. Cardinality(InFlight(a)') <= Cardinality(InFlight(a))  BY <2>1, <2>3, FS_Subset
    <3> QED  BY <2>1, <2>2, <2>3, <3>1
  <2>4. ASSUME NEW t \in Threads, NEW b \in Ips, Arrive(t, b)
        PROVE  hits'[a] + Cardinality(InFlight(a)') <= LoginLimit - 1 + Cardinality(Threads)
    <3>1. CASE a = b
      <4>1. hits'[a] = hits[a] /\ hits[a] < LoginLimit  BY <2>4, <3>1 DEF Arrive
      <4> QED  BY <2>1, <4>1
    <3>2. CASE a # b
      <4>1. hits'[a] = hits[a]  BY <2>4 DEF Arrive
      <4>2. InFlight(a)' \subseteq InFlight(a)  BY <2>4, <3>2 DEF InFlight, Arrive, TypeOK
      <4> QED  BY <2>1, <2>3, <4>1, <4>2
    <3> QED  BY <3>1, <3>2
  <2>5. ASSUME NEW t \in Threads, Reply(t)
        PROVE  hits'[a] + Cardinality(InFlight(a)') <= LoginLimit - 1 + Cardinality(Threads)
    <3>1. InFlight(a)' = InFlight(a) \ {t}
      BY <2>5, LockoutAssumption DEF InFlight, Reply, Close, TypeOK
    <3>2. CASE ip[t] = a
      <4>1. hits'[a] = hits[a] + 1  BY <2>5, <3>2 DEF Reply, TypeOK
      <4>2. t \in InFlight(a)  BY <3>2 DEF InFlight
      <4>3. Cardinality(InFlight(a)') = Cardinality(InFlight(a)) - 1
        BY <2>1, <3>1, <4>2, FS_RemoveElement
      <4> QED  BY <2>1, <2>2, <4>1, <4>3
    <3>3. CASE ip[t] # a
      <4>1. hits'[a] = hits[a]  BY <2>5, <3>3 DEF Reply, TypeOK
      <4> QED  BY <2>1, <2>3, <3>1, <4>1
    <3> QED  BY <3>2, <3>3
  <2>6. ASSUME NEW b \in Ips, HitExpires(b)
        PROVE  hits'[a] + Cardinality(InFlight(a)') <= LoginLimit - 1 + Cardinality(Threads)
    <3>1. hits'[a] \in Nat /\ hits'[a] <= hits[a]  BY <2>6 DEF HitExpires, TypeOK
    <3>2. InFlight(a)' = InFlight(a)  BY <2>6 DEF HitExpires, InFlight, thread
    <3> QED  BY <2>3, <3>1, <3>2
  <2>7. ASSUME UNCHANGED hits, \A t \in Threads : ip'[t] = ip[t] \/ ip'[t] = NoIp
        PROVE  hits'[a] + Cardinality(InFlight(a)') <= LoginLimit - 1 + Cardinality(Threads)
    <3>1. InFlight(a)' \subseteq InFlight(a)  BY <2>7, LockoutAssumption DEF InFlight
    <3> QED  BY <2>1, <2>3, <2>7, <3>1
  <2>8. ASSUME NEW t \in Threads,
               \/ Refuse(t) \/ Admit(t) \/ Abort(t)
               \/ LoadFailure(t) \/ SaveFailure(t) \/ LoadClear(t) \/ SaveClear(t)
        PROVE  UNCHANGED hits /\ \A u \in Threads : ip'[u] = ip[u] \/ ip'[u] = NoIp
    BY <2>8 DEF Refuse, Admit, Abort, LoadFailure, SaveFailure, LoadClear, SaveClear, Close, thread,
                TypeOK
  <2>9. ASSUME NEW r \in LockRows, WindowEnds(r) \/ LockEnds(r)
        PROVE  UNCHANGED <<hits, ip>>
    BY <2>9 DEF WindowEnds, LockEnds, thread
  <2>10. CASE UNCHANGED vars  BY <2>7, <2>10 DEF vars, thread
  <2> QED  BY <2>4, <2>5, <2>6, <2>7, <2>8, <2>9, <2>10 DEF Next
<1>3. IInv /\ Throttled => ThrottleOvershoot
  <2> SUFFICES ASSUME IInv, Throttled, NEW a \in Ips, LoginLimit > 0
               PROVE  hits[a] <= LoginLimit - 1 + Cardinality(Threads)
    BY DEF ThrottleOvershoot
  <2>1. hits[a] \in Nat  BY DEF IInv, TypeOK
  <2> QED  BY <2>1, InFlightFinite, LockoutAssumption DEF Throttled
<1> QED  BY <1>1, <1>2, <1>3, Invariance, PTL DEF Spec

-------------------------------------------------------------------------------
(* One request at a time *)

\* The hypothesis of this section: requests come one after the other.
OneThread == \A t, u \in Threads : t = u

NothingRaced == raced = {}

LEMMA NothingRaces ==
  ASSUME OneThread, IInv, NothingRaced, [Next]_vars PROVE NothingRaced'
<1> USE DEF NothingRaced
<1>1. ASSUME NEW t \in Threads, LoadFailure(t) \/ LoadClear(t) PROVE NothingRaced'
  <2>1. pc[t] = "verify"  BY <1>1 DEF LoadFailure, LoadClear
  <2>2. Clearing = {} /\ \A a \in Ips : Saving(a) = {}
    BY <2>1 DEF OneThread, Clearing, Saving
  <2>3. ip[t] \in Ips  BY <2>1 DEF IInv, TypeOK
  <2> QED  BY <1>1, <2>2, <2>3 DEF LoadFailure, LoadClear
<1>2. ASSUME NEW t \in Threads,
             \/ \E a \in Ips : Arrive(t, a)
             \/ Refuse(t) \/ Admit(t) \/ Reply(t) \/ Abort(t) \/ SaveFailure(t) \/ SaveClear(t)
      PROVE  NothingRaced'
  BY <1>2 DEF Arrive, Refuse, Admit, Reply, Abort, SaveFailure, SaveClear
<1>3. CASE \/ \E r \in LockRows : WindowEnds(r) \/ LockEnds(r)
           \/ \E a \in Ips : HitExpires(a)
           \/ UNCHANGED vars
  BY <1>3 DEF WindowEnds, LockEnds, HitExpires, vars
<1> QED  BY <1>1, <1>2, <1>3 DEF Next

LEMMA SerialInvariance == ASSUME OneThread PROVE Spec => [](IInv /\ NothingRaced)
<1>1. Init => NothingRaced  BY DEF Init, NothingRaced
<1>2. IInv /\ NothingRaced /\ [Next]_vars => NothingRaced'  BY NothingRaces
<1> QED  BY <1>1, <1>2, Invariance, PTL DEF Spec

\* One request at a time, every address that reaches the maximum of failures is locked and
\* none has two lock rows: lost increments and doubled rows need two requests
\* (record_login_failure, _get_or_create_lock).
THEOREM SerialLock ==
  ASSUME OneThread
  PROVE  Spec => [](\A a \in Ips : /\ tried[a] >= MaxLoginAttempts => Locked(a)
                                   /\ \A r1, r2 \in RowsOf(a) : r1 = r2)
<1> DEFINE Exact == \A a \in Ips : /\ tried[a] >= MaxLoginAttempts => Locked(a)
                                   /\ \A r1, r2 \in RowsOf(a) : r1 = r2
<1>1. NothingRaced /\ LockAfterMaxFailures /\ OneLockRowUnlessRaced => Exact
  BY DEF NothingRaced, LockAfterMaxFailures, OneLockRowUnlessRaced
<1>2. Spec => []Exact
  <2> HIDE DEF Exact
  <2> QED  BY <1>1, SerialInvariance, FailuresLock, OneLockRow, PTL
<1> QED  BY <1>2

\* One request at a time, no address has more 401 responses in a minute than the limit.
THEOREM SerialThrottle ==
  ASSUME OneThread PROVE Spec => [](\A a \in Ips : LoginLimit > 0 => hits[a] <= LoginLimit)
<1> DEFINE Exact == \A a \in Ips : LoginLimit > 0 => hits[a] <= LoginLimit
<1>1. Cardinality(Threads) <= 1
  <2>1. CASE Threads = {}  BY <2>1, FS_EmptySet
  <2>2. ASSUME NEW t \in Threads PROVE Cardinality(Threads) <= 1
    <3>1. Threads = {t}  BY DEF OneThread
    <3>2. Cardinality({t}) = 1  BY FS_Singleton
    <3> QED  BY <3>1, <3>2
  <2> QED  BY <2>1, <2>2
<1>2. TypeOK /\ ThrottleOvershoot => Exact
  <2> SUFFICES ASSUME TypeOK, ThrottleOvershoot, NEW a \in Ips, LoginLimit > 0
               PROVE  hits[a] <= LoginLimit
    OBVIOUS
  <2>1. hits[a] \in Nat /\ hits[a] <= LoginLimit - 1 + Cardinality(Threads)
    BY DEF TypeOK, ThrottleOvershoot
  <2>2. Cardinality(Threads) \in Nat  BY LockoutAssumption, FS_CardinalityType
  <2> QED  BY <1>1, <2>1, <2>2, LockoutAssumption
<1>3. Spec => []Exact
  <2> HIDE DEF Exact
  <2> QED  BY <1>2, TypeCorrect, OvershootBounded, PTL
<1> QED  BY <1>3

===============================================================================
