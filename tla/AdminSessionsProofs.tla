-------------------------- MODULE AdminSessionsProofs --------------------------
(***************************************************************************)
(* Proofs about AdminSessions, for any accounts, sessions and threads.     *)
(*                                                                         *)
(* The inductive invariant follows a login's sessions.  A request that has *)
(* loaded a session of an unraced root holds the only usable one of its    *)
(* family, and nobody else holds any of them; logout-all has among its     *)
(* targets every session it knew of that is still usable.                  *)
(***************************************************************************)
EXTENDS AdminSessions, TLAPS

Taken(s) == sessions[s].root # NoSid

\* What a thread carries at each of its labels.
Carried ==
  \A t \in Threads :
    /\ pc[t] \in {"refresh", "rotate", "logout"} => sid[t] \in Sids
    /\ pc[t] \in {"login", "rotate", "logout_all", "patch"} => owner[t] \in Admins
    /\ pc[t] \in {"login", "rotate", "patch"} => row[t] \in Account
    /\ pc[t] \in {"login", "rotate"} => row[t].active
    /\ pc[t] = "patch" => wanted[t] \in Account /\ accounts[owner[t]] \in Account
    /\ sid[t] # NoSid => Taken(sid[t])
    /\ \A s \in targets[t] : Taken(s)

RootsTaken == \A s \in Sids : Taken(s) => Taken(sessions[s].root)

\* Two threads that hold sessions of one root have raced it.
Overlap ==
  \A t1, t2 \in Threads :
    /\ t1 # t2 /\ sid[t1] # NoSid /\ sid[t2] # NoSid
    /\ sessions[sid[t1]].root = sessions[sid[t2]].root
    => sessions[sid[t1]].root \in raced

\* A thread of an unraced root holds its only usable session.
Alone ==
  \A t \in Threads : \A s \in Sids :
    /\ sid[t] # NoSid /\ sessions[sid[t]].root \notin raced
    /\ Usable(s) /\ sessions[s].root = sessions[sid[t]].root
    => s = sid[t]

Lineage == RootsTaken /\ Overlap /\ Alone /\ OneSessionPerLogin

\* What logout-all knew of is among its targets, or not usable any more.
KnownTargeted ==
  \A t \in Threads : \A s \in known[t] :
    /\ Taken(s)
    /\ pc[t] = "logout_all" /\ Usable(s) /\ sessions[s].admin = owner[t] => s \in targets[t]

IInv == TypeOK /\ Carried /\ Lineage /\ KnownTargeted

-------------------------------------------------------------------------------
(* Lemmas about rows *)

\* A row of the sessions table is a session or none; Taken tells which.
LEMMA RowShape ==
  ASSUME TypeOK, NEW s \in Sids
  PROVE  /\ Taken(s) => sessions[s] \in Session
         /\ ~Taken(s) => sessions[s] = NoSession /\ s \in Free /\ ~Usable(s)
         /\ s \in Free => ~Taken(s)
BY AdminAssumption DEF TypeOK, Taken, Session, NoSession, Free, Usable

\* Revoking rows keeps their owners and roots, and makes none usable.
LEMMA RevokedRows ==
  ASSUME TypeOK, NEW rows \in SUBSET Sids, \A s \in rows : Taken(s)
  PROVE  /\ Revoked(rows) \in [Sids -> Session \cup {NoSession}]
         /\ \A s \in Sids :
              /\ Revoked(rows)[s].root = sessions[s].root
              /\ Revoked(rows)[s].admin = sessions[s].admin
              /\ s \in rows => Revoked(rows)[s].state = "revoked"
              /\ s \notin rows => Revoked(rows)[s] = sessions[s]
<1>1. \A s \in Sids : sessions[s] \in Session \cup {NoSession}  BY DEF TypeOK
<1>2. \A s \in rows : sessions[s] \in Session  BY RowShape
<1>3. ASSUME NEW s \in Sids
      PROVE  /\ Revoked(rows)[s] \in Session \cup {NoSession}
             /\ Revoked(rows)[s].root = sessions[s].root
             /\ Revoked(rows)[s].admin = sessions[s].admin
             /\ s \in rows => Revoked(rows)[s].state = "revoked"
             /\ s \notin rows => Revoked(rows)[s] = sessions[s]
  BY <1>1, <1>2 DEF Revoked, Session
<1>4. Revoked(rows) \in [Sids -> Session \cup {NoSession}]  BY <1>3 DEF Revoked
<1> QED  BY <1>3, <1>4

\* A step that opens no session and takes none in hand keeps the lineage.
LEMMA ShrinkKeepsLineage ==
  ASSUME TypeOK, Carried, Lineage,
         \A s \in Sids : sessions'[s].root = sessions[s].root /\ (Usable(s)' => Usable(s)),
         \A t \in Threads : sid'[t] = sid[t] \/ sid'[t] = NoSid,
         raced' = raced
  PROVE  Lineage'
<1>1. RootsTaken'
  BY AdminAssumption, RowShape DEF Lineage, RootsTaken, Taken, TypeOK, Session
<1>2. Overlap'  BY DEF Lineage, Overlap, TypeOK
<1>3. Alone'  BY DEF Lineage, Alone, TypeOK
<1>4. OneSessionPerLogin'  BY DEF Lineage, OneSessionPerLogin
<1> QED  BY <1>1, <1>2, <1>3, <1>4 DEF Lineage

-------------------------------------------------------------------------------
(* The initial states *)

LEMMA InitInv == Init => IInv
<1> SUFFICES ASSUME Init PROVE IInv  OBVIOUS
<1>1. TypeOK
  BY AdminAssumption DEF Init, TypeOK, Account, NoAccount, Roles, Session, NoSession, Claims
<1>2. Carried  BY DEF Init, Carried
<1>3. Lineage
  BY DEF Init, Lineage, RootsTaken, Overlap, Alone, OneSessionPerLogin, Taken, Usable, NoSession
<1>4. KnownTargeted  BY DEF Init, KnownTargeted
<1> QED  BY <1>1, <1>2, <1>3, <1>4 DEF IInv

-------------------------------------------------------------------------------
(* Steps that leave the sessions table and the sessions in hand alone *)

\* Their part of the invariant, given the types and what the thread carries.
LEMMA SameSessions ==
  ASSUME IInv, TypeOK', Carried', UNCHANGED <<sessions, raced>>,
         \A t \in Threads : sid'[t] = sid[t] \/ sid'[t] = NoSid,
         \A t \in Threads :
           \/ known'[t] = {}
           \/ known'[t] = known[t] /\ targets'[t] = targets[t] /\ pc'[t] = pc[t] /\ owner'[t] = owner[t]
           \/ known'[t] = known[t] /\ pc'[t] # "logout_all"
  PROVE  IInv'
<1>1. Lineage'  BY ShrinkKeepsLineage DEF IInv, Usable
<1>2. KnownTargeted'  BY DEF IInv, KnownTargeted, Taken, Usable
<1> QED  BY <1>1, <1>2 DEF IInv

LEMMA AbortStep ==
  ASSUME IInv, NEW t \in Threads, Abort(t) PROVE IInv'
<1> USE DEF IInv
<1>1. TypeOK'  BY DEF TypeOK, Abort, Close, Goto, tables
<1>2. Carried'  BY DEF TypeOK, Carried, Taken, Abort, Close, Goto, tables
<1> QED  BY <1>1, <1>2, SameSessions DEF TypeOK, Abort, Close, Goto, tables

LEMMA LoginVerifyStep ==
  ASSUME IInv, NEW t \in Threads, NEW a \in Admins, LoginVerify(t, a) PROVE IInv'
<1> USE DEF IInv
<1>1. accounts[a] \in Account  BY DEF TypeOK, LoginVerify, NoAccount
<1>2. TypeOK'  BY <1>1 DEF TypeOK, LoginVerify, Goto, tables
<1>3. Carried'  BY <1>1 DEF TypeOK, Carried, Taken, LoginVerify, Goto, tables
<1> QED  BY <1>2, <1>3, SameSessions DEF TypeOK, LoginVerify, Goto, tables

LEMMA RefreshOwnerStep ==
  ASSUME IInv, NEW t \in Threads, RefreshOwner(t) PROVE IInv'
<1> USE DEF IInv
<1> DEFINE a == sessions[sid[t]].admin
<1>1. sid[t] \in Sids /\ Taken(sid[t])  BY AdminAssumption DEF Carried, RefreshOwner
<1>2. a \in Admins  BY <1>1, RowShape DEF Session
<1>3. accounts[a] \in Account  BY <1>2 DEF TypeOK, RefreshOwner, NoAccount
<1>4. TypeOK'  BY <1>2, <1>3 DEF TypeOK, RefreshOwner, Goto, tables
<1>5. Carried'  BY <1>1, <1>2, <1>3 DEF TypeOK, Carried, Taken, RefreshOwner, Goto, tables
<1> QED  BY <1>4, <1>5, SameSessions DEF TypeOK, RefreshOwner, Goto, tables

LEMMA CreateAdminStep ==
  ASSUME IInv, NEW a \in Admins, NEW role \in Roles, CreateAdmin(a, role) PROVE IInv'
<1> USE DEF IInv
<1>1. TypeOK'  BY DEF TypeOK, CreateAdmin, NewAccount, request, Account
<1>2. Carried'  BY DEF TypeOK, Carried, Taken, CreateAdmin, NewAccount, request, Account
<1> QED  BY <1>1, <1>2, SameSessions DEF CreateAdmin, request

LEMMA PatchLoadStep ==
  ASSUME IInv, NEW t \in Threads, NEW a \in Admins, NEW new \in Account, PatchLoad(t, a, new)
  PROVE  IInv'
<1> USE DEF IInv
<1>1. accounts[a] \in Account  BY DEF TypeOK, PatchLoad
<1>2. \A changed \in Patched(accounts[a], new) : changed \in Account
  BY <1>1 DEF Patched, Account
<1>3. TypeOK'  BY AdminAssumption, <1>1, <1>2 DEF TypeOK, PatchLoad, Goto, tables
<1>4. Carried'  BY <1>1, <1>2 DEF TypeOK, Carried, Taken, PatchLoad, Goto, tables
<1> QED  BY <1>3, <1>4, SameSessions DEF TypeOK, PatchLoad, Goto, tables

LEMMA PatchSaveStep ==
  ASSUME IInv, NEW t \in Threads, PatchSave(t) PROVE IInv'
<1> USE DEF IInv
<1> DEFINE a == owner[t]
           on == Column(wanted[t].active, row[t].active, accounts[a].active)
           role == Column(wanted[t].role, row[t].role, accounts[a].role)
<1>1. a \in Admins /\ row[t] \in Account /\ wanted[t] \in Account /\ accounts[a] \in Account
  BY DEF Carried, PatchSave
<1>2. accounts' = [accounts EXCEPT ![a] = [active |-> on, role |-> role]]  BY DEF PatchSave
<1>3. [active |-> on, role |-> role] \in Account
  <2>1. wanted[t].active \in BOOLEAN /\ accounts[a].active \in BOOLEAN  BY <1>1 DEF Account
  <2>2. on = wanted[t].active \/ on = accounts[a].active  BY Zenon DEF Column
  <2>3. on \in BOOLEAN  BY <2>1, <2>2, Zenon
  <2>4. role \in Roles  BY <1>1 DEF Column, Account
  <2> HIDE DEF on, role
  <2> QED  BY <2>3, <2>4 DEF Account
<1>4. TypeOK'  BY <1>1, <1>2, <1>3 DEF TypeOK, PatchSave, Close, Goto
<1>5. Carried'
  <2>1. accounts' \in [Admins -> Account \cup {NoAccount}]  BY <1>4 DEF TypeOK
  <2>2. \A b \in Admins : accounts[b] \in Account => accounts'[b] \in Account
    BY <1>1, <1>2, <1>3 DEF TypeOK
  <2> QED  BY <2>2 DEF TypeOK, Carried, Taken, PatchSave, Close, Goto
<1> QED  BY <1>4, <1>5, SameSessions DEF TypeOK, PatchSave, Close, Goto

-------------------------------------------------------------------------------
(* Steps that change sessions, or take one in hand *)

LEMMA AccessExpiresStep ==
  ASSUME IInv, NEW c \in Claims, AccessExpires(c) PROVE IInv'
<1> USE DEF IInv
<1>1. TypeOK'  BY DEF TypeOK, AccessExpires, request
<1>2. Carried'  BY DEF Carried, Taken, AccessExpires, request
<1> QED  BY <1>1, <1>2, SameSessions DEF AccessExpires, request

Same(t) ==
  /\ pc'[t] = pc[t] /\ sid'[t] = sid[t] /\ owner'[t] = owner[t] /\ row'[t] = row[t]
  /\ wanted'[t] = wanted[t] /\ targets'[t] = targets[t] /\ known'[t] = known[t]

\* Rows are revoked or expire, and a thread may close.
RowsWane ==
  /\ \A s \in Sids : /\ sessions'[s].root = sessions[s].root
                     /\ sessions'[s].admin = sessions[s].admin
                     /\ sessions'[s].state = "live" => sessions[s].state = "live"
  /\ UNCHANGED <<pc, request>> \/ \E t \in Threads : Close(t)
  /\ UNCHANGED <<accounts, raced>>

LEMMA RowsClose ==
  ASSUME IInv, TypeOK', RowsWane PROVE IInv'
<1> USE DEF IInv
<1>0. \A t \in Threads :
        \/ Same(t)
        \/ pc'[t] = "idle" /\ sid'[t] = NoSid /\ known'[t] = {} /\ targets'[t] = {}
  BY DEF TypeOK, RowsWane, Close, Goto, Same, request
<1>1. Lineage'  BY <1>0, ShrinkKeepsLineage DEF RowsWane, Same, Usable
<1>2. Carried'
  <2> SUFFICES ASSUME NEW t \in Threads PROVE Carried!(t)'  BY DEF Carried
  <2>1. CASE Same(t)
    <3>1. sid[t] # NoSid => sid[t] \in Sids  BY DEF TypeOK
    <3>2. \A s \in targets[t] : s \in Sids  BY DEF TypeOK
    <3> QED  BY <2>1, <3>1, <3>2 DEF RowsWane, Carried, Taken, Same
  <2>2. CASE pc'[t] = "idle" /\ sid'[t] = NoSid /\ known'[t] = {} /\ targets'[t] = {}
    BY <2>2
  <2> QED  BY <1>0, <2>1, <2>2
<1>3. KnownTargeted'  BY <1>0 DEF RowsWane, KnownTargeted, Taken, TypeOK, Same, Usable
<1> QED  BY <1>1, <1>2, <1>3

LEMMA SessionExpiresStep ==
  ASSUME IInv, NEW s \in Sids, SessionExpires(s) PROVE IInv'
<1> USE DEF IInv
<1>1. sessions[s] \in Session  BY RowShape DEF SessionExpires
<1>2. TypeOK'  BY <1>1 DEF TypeOK, SessionExpires, request, Session
<1>3. RowsWane  BY <1>1 DEF RowsWane, TypeOK, SessionExpires, Session, Usable
<1> QED  BY <1>2, <1>3, RowsClose

\* A thread revokes rows and closes.
LEMMA RevokeAndClose ==
  ASSUME IInv, NEW u \in Threads, NEW rows \in SUBSET Sids, \A s \in rows : Taken(s),
         sessions' = Revoked(rows), Close(u), UNCHANGED <<accounts, access, raced, patches>>
  PROVE  IInv'
<1> USE DEF IInv
<1>1. TypeOK'  BY RevokedRows DEF TypeOK, Close, Goto
<1>2. \A s \in Sids :
        /\ sessions'[s].root = sessions[s].root
        /\ sessions'[s].admin = sessions[s].admin
        /\ sessions'[s].state = "live" => sessions[s].state = "live"
  <2> SUFFICES ASSUME NEW s \in Sids
               PROVE  /\ sessions'[s].root = sessions[s].root
                      /\ sessions'[s].admin = sessions[s].admin
                      /\ sessions'[s].state = "live" => sessions[s].state = "live"
    OBVIOUS
  <2>1. CASE s \in rows  BY <2>1, RevokedRows
  <2>2. CASE s \notin rows  BY <2>2, RevokedRows
  <2> QED  BY <2>1, <2>2
<1>3. RowsWane  BY <1>2 DEF RowsWane
<1> QED  BY <1>1, <1>3, RowsClose

LEMMA LogoutSaveStep ==
  ASSUME IInv, NEW t \in Threads, LogoutSave(t) PROVE IInv'
<1>1. sid[t] \in Sids /\ Taken(sid[t])  BY AdminAssumption DEF IInv, Carried, LogoutSave
<1>2. {sid[t]} \in SUBSET Sids /\ \A s \in {sid[t]} : Taken(s)  BY <1>1
<1>3. /\ sessions' = Revoked({sid[t]}) /\ Close(t)
      /\ UNCHANGED <<accounts, access, raced, patches>>
  BY DEF LogoutSave
<1> QED  BY <1>2, <1>3, RevokeAndClose

LEMMA LogoutAllLoadStep ==
  ASSUME IInv, NEW t \in Threads, NEW c \in Claims, NEW a \in Admins, LogoutAllLoad(t, c, a)
  PROVE  IInv'
<1> USE DEF IInv
<1>1. TypeOK'  BY DEF TypeOK, LogoutAllLoad, AdminToken, Goto, SessionsOf, Free, tables
<1>2. \A s \in SessionsOf(a) : Taken(s)  BY RowShape DEF SessionsOf
<1>3. Carried'  BY <1>2 DEF TypeOK, Carried, Taken, LogoutAllLoad, Goto, tables
<1>4. Lineage'  BY ShrinkKeepsLineage DEF LogoutAllLoad, tables, Usable
<1>5. \A s \in Sids \ Free : Taken(s)  BY RowShape
<1>6. KnownTargeted'
  BY <1>5 DEF TypeOK, KnownTargeted, Taken, Usable, LogoutAllLoad, AdminToken, Goto, SessionsOf, Free, tables
<1> QED  BY <1>1, <1>3, <1>4, <1>6

LEMMA LogoutAllSaveStep ==
  ASSUME IInv, NEW t \in Threads, LogoutAllSave(t) PROVE IInv'
<1>1. targets[t] \in SUBSET Sids /\ \A s \in targets[t] : Taken(s)
  BY DEF IInv, TypeOK, Carried
<1>2. /\ sessions' = Revoked(targets[t]) /\ Close(t)
      /\ UNCHANGED <<accounts, access, raced, patches>>
  BY DEF LogoutAllSave
<1> QED  BY <1>1, <1>2, RevokeAndClose

\* A usable session of an unraced root that a thread takes was held by no other.
LEMMA TakeStep ==
  ASSUME IInv, NEW t \in Threads, NEW s \in Sids, NEW label \in {"refresh", "logout"},
         Usable(s), Take(t, s, label),
         UNCHANGED <<tables, owner, row, wanted, targets, known, patches>>
  PROVE  IInv'
<1> USE DEF IInv
<1> DEFINE r == sessions[s].root
<1>1. sessions[s] \in Session /\ Taken(s)  BY RowShape
<1>2. r \in Sids  BY <1>1 DEF Session
<1>3. TypeOK'  BY <1>2 DEF TypeOK, Take, Goto, tables
<1>4. Carried'  BY AdminAssumption, <1>1 DEF TypeOK, Carried, Taken, Take, Goto, tables
<1>5. raced \subseteq raced' /\ (Holders(s) # {} => r \in raced')  BY DEF Take
<1>6. Lineage'
  <2>1. RootsTaken'  BY DEF Lineage, RootsTaken, Taken, tables
  <2>2. OneSessionPerLogin'  BY <1>5 DEF Lineage, OneSessionPerLogin, Usable, tables
  <2>3. Alone'
    <3> SUFFICES ASSUME NEW t1 \in Threads, NEW s1 \in Sids, sid'[t1] # NoSid,
                        sessions[sid'[t1]].root \notin raced',
                        Usable(s1), sessions[s1].root = sessions[sid'[t1]].root
                 PROVE  s1 = sid'[t1]
      BY DEF Alone, Usable, tables
    <3>1. CASE t1 = t
      <4>1. sid'[t1] = s  BY <3>1 DEF Take, TypeOK
      <4> QED  BY <4>1, <1>5 DEF Lineage, OneSessionPerLogin
    <3>2. CASE t1 # t
      <4>1. sid'[t1] = sid[t1]  BY <3>2 DEF Take, TypeOK
      <4> QED  BY <4>1, <1>5 DEF Lineage, Alone
    <3> QED  BY <3>1, <3>2
  <2>4. Overlap'
    <3>1. ASSUME NEW t1 \in Threads, t1 # t, sid[t1] # NoSid, sessions[sid[t1]].root = r
          PROVE  r \in raced'
      <4>1. CASE r \in raced  BY <4>1, <1>5
      <4>2. CASE r \notin raced
        <5>1. s = sid[t1]  BY <4>2, <3>1 DEF Lineage, Alone
        <5> QED  BY <5>1, <1>5 DEF Holders
      <4> QED  BY <4>1, <4>2
    <3>2. sid' = [sid EXCEPT ![t] = s] /\ sessions' = sessions  BY DEF Take, tables
    <3>3. ASSUME NEW t1 \in Threads, NEW t2 \in Threads, t1 # t2,
                 sid'[t1] # NoSid, sid'[t2] # NoSid,
                 sessions[sid'[t1]].root = sessions[sid'[t2]].root
          PROVE  sessions[sid'[t1]].root \in raced'
      <4>1. CASE t1 = t  BY <4>1, <3>1, <3>2, <3>3 DEF TypeOK
      <4>2. CASE t2 = t  BY <4>2, <3>1, <3>2, <3>3 DEF TypeOK
      <4>3. CASE t1 # t /\ t2 # t
        BY <4>3, <3>2, <3>3, <1>5 DEF TypeOK, Lineage, Overlap
      <4> QED  BY <4>1, <4>2, <4>3
    <3> QED  BY <3>2, <3>3 DEF Overlap
  <2> QED  BY <2>1, <2>2, <2>3, <2>4 DEF Lineage
<1>7. KnownTargeted'  BY DEF TypeOK, KnownTargeted, Taken, Usable, Take, Goto, tables
<1> QED  BY <1>3, <1>4, <1>6, <1>7

LEMMA RefreshLoadStep ==
  ASSUME IInv, NEW t \in Threads, NEW s \in Sids, RefreshLoad(t, s) PROVE IInv'
BY TakeStep DEF RefreshLoad

LEMMA LogoutLoadStep ==
  ASSUME IInv, NEW t \in Threads, NEW s \in Sids, LogoutLoad(t, s) PROVE IInv'
BY TakeStep DEF LogoutLoad

-------------------------------------------------------------------------------
(* Steps that open a session *)

\* A fresh session of root r, given that r's family has no usable session left and
\* that no thread holds one of r's unless it is raced.
LEMMA OpenStep ==
  ASSUME IInv, NEW t \in Threads, NEW new \in Free, NEW r \in Sids, NEW old \in SUBSET Sids,
         owner[t] \in Admins, row[t] \in Account,
         \A s \in old : Taken(s),
         r = new \/ Taken(r),
         \A s \in Sids \ old : Usable(s) /\ sessions[s].root = r => r \in raced,
         \A u \in Threads \ {t} : sid[u] # NoSid /\ sessions[sid[u]].root = r => r \in raced,
         Opened(t, new, r, old), Close(t), UNCHANGED <<raced, patches>>
  PROVE  IInv'
<1> USE DEF IInv
<1> DEFINE opened == [admin |-> owner[t], state |-> "live", root |-> r]
<1>1. new \in Sids /\ ~Taken(new) /\ ~Usable(new)  BY RowShape DEF Free
<1>2. opened \in Session  BY DEF Session
<1>3. sessions' = [Revoked(old) EXCEPT ![new] = opened]  BY DEF Opened
<1>4. sessions' \in [Sids -> Session \cup {NoSession}] /\ sessions'[new] = opened
  BY <1>1, <1>2, <1>3, RevokedRows
<1>5. \A s \in Sids \ {new} :
        /\ sessions'[s].root = sessions[s].root
        /\ sessions'[s].admin = sessions[s].admin
        /\ Usable(s)' => Usable(s) /\ s \notin old
  <2> SUFFICES ASSUME NEW s \in Sids \ {new}
               PROVE  /\ sessions'[s].root = sessions[s].root
                      /\ sessions'[s].admin = sessions[s].admin
                      /\ Usable(s)' => Usable(s) /\ s \notin old
    OBVIOUS
  <2>1. sessions'[s] = Revoked(old)[s]  BY <1>1, <1>3, RevokedRows
  <2>2. CASE s \in old  BY <2>1, <2>2, RevokedRows DEF Usable
  <2>3. CASE s \notin old  BY <2>1, <2>3, RevokedRows DEF Usable
  <2> QED  BY <2>2, <2>3
<1>6. sessions'[new].root = r  BY <1>4
<1>7. TypeOK'
  <2>1. [sub |-> owner[t], role |-> row[t].role] \in Claims  BY DEF Claims, Account
  <2> QED  BY <1>4, <2>1 DEF TypeOK, Opened, Close, Goto
<1>8. \A s \in Sids : Taken(s) => Taken(s)' /\ s # new  BY <1>1, <1>5 DEF Taken
<1>9. \A u \in Threads : Same(u) \/ (pc'[u] = "idle" /\ sid'[u] = NoSid /\ known'[u] = {} /\ targets'[u] = {})
  BY DEF TypeOK, Close, Goto, Same
<1>10. \A u \in Threads : sid'[u] # NoSid => u # t /\ sid'[u] = sid[u] /\ sid[u] \in Sids /\ Taken(sid[u])
  BY DEF TypeOK, Close, Carried
<1>11. Carried'
  <2> SUFFICES ASSUME NEW u \in Threads PROVE Carried!(u)'  BY DEF Carried
  <2>1. CASE Same(u)
    <3>1. sid[u] # NoSid => sid[u] \in Sids  BY DEF TypeOK
    <3>2. \A s \in targets[u] : s \in Sids  BY DEF TypeOK
    <3>3. accounts' = accounts  BY DEF Opened
    <3> QED  BY <2>1, <3>1, <3>2, <3>3, <1>8 DEF Carried, Same
  <2>2. CASE pc'[u] = "idle" /\ sid'[u] = NoSid /\ known'[u] = {} /\ targets'[u] = {}
    BY <2>2
  <2> QED  BY <2>1, <2>2, <1>9
<1>12. RootsTaken'
  <2> SUFFICES ASSUME NEW s \in Sids, Taken(s)' PROVE Taken(sessions[s].root)'
    BY DEF RootsTaken
  <2>1. CASE s = new
    <3>1. Taken(new)'  BY <1>6, AdminAssumption DEF Taken
    <3> QED  BY <2>1, <3>1, <1>6, <1>8
  <2>2. CASE s # new
    <3>1. Taken(s)  BY <2>2, <1>5 DEF Taken
    <3>2. sessions[s].root \in Sids /\ Taken(sessions[s].root)
      BY <3>1, RowShape DEF Lineage, RootsTaken, Session
    <3> QED  BY <2>2, <3>2, <1>5, <1>8
  <2> QED  BY <2>1, <2>2
<1>13. Overlap'
  <2>1. \A u \in Threads : sid'[u] # NoSid => sessions'[sid'[u]].root = sessions[sid[u]].root
    BY <1>5, <1>8, <1>10
  <2> QED  BY <2>1, <1>10 DEF Lineage, Overlap
<1>14. Alone'
  <2> SUFFICES ASSUME NEW u \in Threads, NEW s \in Sids, sid'[u] # NoSid,
                      sessions'[sid'[u]].root \notin raced',
                      Usable(s)', sessions'[s].root = sessions'[sid'[u]].root
               PROVE  s = sid'[u]
    BY DEF Alone
  <2>1. /\ u # t /\ sid'[u] = sid[u] /\ sid[u] # NoSid
        /\ sessions'[sid[u]].root = sessions[sid[u]].root /\ sessions[sid[u]].root \notin raced
    BY <1>5, <1>8, <1>10
  <2>2. s # new  BY <2>1, <1>6
  <2>3. Usable(s) /\ sessions[s].root = sessions[sid[u]].root  BY <2>1, <2>2, <1>5
  <2> QED  BY <2>1, <2>3 DEF Lineage, Alone
<1>15. OneSessionPerLogin'
  <2> SUFFICES ASSUME NEW s1 \in Sids, NEW s2 \in Sids, Usable(s1)', Usable(s2)',
                      sessions'[s1].root = sessions'[s2].root, sessions'[s1].root \notin raced
               PROVE  s1 = s2
    BY DEF OneSessionPerLogin, Usable
  <2>1. CASE s1 = new /\ s2 # new  BY <2>1, <1>5, <1>6
  <2>2. CASE s2 = new /\ s1 # new  BY <2>2, <1>5, <1>6
  <2>3. CASE s1 # new /\ s2 # new  BY <2>3, <1>5 DEF Lineage, OneSessionPerLogin
  <2> QED  BY <2>1, <2>2, <2>3
<1>16. KnownTargeted'
  <2> SUFFICES ASSUME NEW u \in Threads, NEW s \in known'[u]
               PROVE  /\ Taken(s)'
                      /\ pc'[u] = "logout_all" /\ Usable(s)' /\ sessions'[s].admin = owner'[u]
                         => s \in targets'[u]
    BY DEF KnownTargeted
  <2>1. Same(u) /\ s \in known[u] /\ s \in Sids  BY <1>9 DEF Same, TypeOK
  <2>2. Taken(s) /\ s # new  BY <2>1, <1>8 DEF KnownTargeted
  <2> QED  BY <2>1, <2>2, <1>5, <1>8 DEF KnownTargeted, Same
<1> QED  BY <1>7, <1>11, <1>12, <1>13, <1>14, <1>15, <1>16 DEF Lineage

LEMMA LoginIssueStep ==
  ASSUME IInv, NEW t \in Threads, NEW new \in Free, LoginIssue(t, new) PROVE IInv'
<1> USE DEF IInv
<1>1. new \in Sids /\ ~Taken(new)  BY RowShape DEF Free
<1>2. \A s \in Sids : sessions[s].root # new
  BY <1>1, AdminAssumption DEF Lineage, RootsTaken, Taken
<1>3. \A u \in Threads : sid[u] # NoSid => sid[u] \in Sids  BY DEF TypeOK
<1>4. owner[t] \in Admins /\ row[t] \in Account  BY DEF Carried, LoginIssue
<1>5. Opened(t, new, new, {}) /\ Close(t) /\ UNCHANGED <<raced, patches>>  BY DEF LoginIssue
<1> QED  BY <1>1, <1>2, <1>3, <1>4, <1>5, OpenStep

LEMMA RotateStep ==
  ASSUME IInv, NEW t \in Threads, NEW new \in Free, Rotate(t, new) PROVE IInv'
<1> USE DEF IInv
<1> DEFINE r == sessions[sid[t]].root
<1>1. /\ sid[t] \in Sids /\ sid[t] # NoSid /\ Taken(sid[t])
      /\ owner[t] \in Admins /\ row[t] \in Account
  BY AdminAssumption DEF Carried, Rotate
<1>2. r \in Sids /\ Taken(r)  BY <1>1, RowShape DEF Lineage, RootsTaken, Session
<1>3. \A s \in Sids \ {sid[t]} : Usable(s) /\ sessions[s].root = r => r \in raced
  BY <1>1 DEF Lineage, Alone
<1>4. \A u \in Threads \ {t} : sid[u] # NoSid /\ sessions[sid[u]].root = r => r \in raced
  BY <1>1 DEF Lineage, Overlap
<1>5. Opened(t, new, r, {sid[t]}) /\ Close(t) /\ UNCHANGED <<raced, patches>>  BY DEF Rotate
<1>6. {sid[t]} \in SUBSET Sids /\ \A s \in {sid[t]} : Taken(s)  BY <1>1
<1> HIDE DEF r
<1> QED  BY <1>1, <1>2, <1>3, <1>4, <1>5, <1>6, OpenStep

-------------------------------------------------------------------------------
(* Theorems *)

LEMMA NextInv == IInv /\ [Next]_vars => IInv'
<1> SUFFICES ASSUME IInv, [Next]_vars PROVE IInv'  OBVIOUS
<1>1. ASSUME NEW t \in Threads, NEW a \in Admins, LoginVerify(t, a) PROVE IInv'
  BY <1>1, LoginVerifyStep
<1>2. ASSUME NEW t \in Threads, NEW new \in Free, LoginIssue(t, new) \/ Rotate(t, new) PROVE IInv'
  BY <1>2, LoginIssueStep, RotateStep
<1>3. ASSUME NEW t \in Threads, NEW s \in Sids, RefreshLoad(t, s) \/ LogoutLoad(t, s) PROVE IInv'
  BY <1>3, RefreshLoadStep, LogoutLoadStep
<1>4. ASSUME NEW t \in Threads,
             RefreshOwner(t) \/ LogoutSave(t) \/ LogoutAllSave(t) \/ PatchSave(t) \/ Abort(t)
      PROVE  IInv'
  BY <1>4, RefreshOwnerStep, LogoutSaveStep, LogoutAllSaveStep, PatchSaveStep, AbortStep
<1>5. ASSUME NEW t \in Threads, NEW c \in Claims, NEW a \in Admins, LogoutAllLoad(t, c, a)
      PROVE  IInv'
  BY <1>5, LogoutAllLoadStep
<1>6. ASSUME NEW t \in Threads, NEW a \in Admins, NEW new \in Account, PatchLoad(t, a, new)
      PROVE  IInv'
  BY <1>6, PatchLoadStep
<1>7. ASSUME NEW a \in Admins, NEW role \in Roles, CreateAdmin(a, role) PROVE IInv'
  BY <1>7, CreateAdminStep
<1>8. ASSUME NEW s \in Sids, SessionExpires(s) PROVE IInv'  BY <1>8, SessionExpiresStep
<1>9. ASSUME NEW c \in Claims, AccessExpires(c) PROVE IInv'  BY <1>9, AccessExpiresStep
<1>10. CASE UNCHANGED vars
  BY <1>10 DEF vars, tables, request, IInv, TypeOK, Carried, Lineage, RootsTaken, Overlap, Alone,
               OneSessionPerLogin, KnownTargeted, Taken, Usable
<1> QED  BY <1>1, <1>2, <1>3, <1>4, <1>5, <1>6, <1>7, <1>8, <1>9, <1>10 DEF Next

LEMMA Invariance == Spec => []IInv
BY InitInv, NextInv, PTL DEF Spec

\* Tables and threads keep their types, for any accounts, sessions and threads.
THEOREM TypeCorrect == Spec => []TypeOK
<1>1. IInv => TypeOK  BY DEF IInv
<1> QED  BY <1>1, Invariance, PTL

\* A login that no two requests raced has at most one usable session, however often
\* it is refreshed.
THEOREM SingleSession == Spec => []OneSessionPerLogin
<1>1. IInv => OneSessionPerLogin  BY DEF IInv, Lineage
<1> QED  BY <1>1, Invariance, PTL

\* Logging out ends the login, whichever of its sessions is presented.
THEOREM LogoutEnds == Spec => LogoutEndsLogin
<1> DEFINE Ends ==
      \A t \in Threads :
        LogoutSave(t) /\ sessions[sid[t]].root \notin raced
        => \A s \in Family(sessions[sid[t]].root) : sessions'[s].state # "live"
<1>1. IInv /\ [Next]_vars => [Ends]_vars
  <2> SUFFICES ASSUME IInv, NEW t \in Threads, LogoutSave(t), sessions[sid[t]].root \notin raced,
                      NEW s \in Family(sessions[sid[t]].root)
               PROVE  sessions'[s].state # "live"
    OBVIOUS
  <2> USE DEF IInv
  <2>1. sid[t] \in Sids /\ sid[t] # NoSid /\ Taken(sid[t])
    BY AdminAssumption DEF Carried, LogoutSave
  <2>2. \A r \in {sid[t]} : Taken(r)  BY <2>1
  <2>3. sessions' = Revoked({sid[t]})  BY DEF LogoutSave
  <2>4. CASE s = sid[t]  BY <2>1, <2>2, <2>3, <2>4, RevokedRows
  <2>5. CASE s # sid[t]
    <3>1. s \in Sids /\ ~Usable(s)  BY <2>1, <2>5 DEF Family, Lineage, Alone
    <3>2. sessions'[s] = sessions[s]  BY <2>1, <2>2, <2>3, <2>5, <3>1, RevokedRows
    <3> QED  BY <3>1, <3>2 DEF Usable
  <2> QED  BY <2>4, <2>5
<1> QED  BY <1>1, Invariance, PTL DEF Spec, LogoutEndsLogin

\* After logout-all a usable session of the account is one it could not have seen.
THEOREM LogoutAllEnds == Spec => LogoutAllEndsOldSessions
<1> DEFINE Ends ==
      \A t \in Threads : \A s \in Sids :
        LogoutAllSave(t) /\ sessions'[s].admin = owner[t] /\ sessions'[s].state = "live"
        => s \notin known[t]
<1>1. IInv /\ [Next]_vars => [Ends]_vars
  <2> SUFFICES ASSUME IInv, NEW t \in Threads, NEW s \in Sids, LogoutAllSave(t),
                      sessions'[s].admin = owner[t], sessions'[s].state = "live", s \in known[t]
               PROVE  FALSE
    OBVIOUS
  <2> USE DEF IInv
  <2>1. targets[t] \in SUBSET Sids /\ \A r \in targets[t] : Taken(r)  BY DEF TypeOK, Carried
  <2>2. sessions' = Revoked(targets[t]) /\ pc[t] = "logout_all"  BY DEF LogoutAllSave
  <2>3. s \notin targets[t]  BY <2>1, <2>2, RevokedRows
  <2>4. sessions'[s] = sessions[s]  BY <2>1, <2>2, <2>3, RevokedRows
  <2> QED  BY <2>2, <2>3, <2>4 DEF KnownTargeted, Usable
<1> QED  BY <1>1, Invariance, PTL DEF Spec, LogoutAllEndsOldSessions

\* An account that has been switched off gains nothing, but for requests that found
\* it active.
THEOREM InactiveGains == Spec => InactiveGainsNothing
<1> DEFINE Gains ==
      \A a \in Admins :
        ~accounts[a].active /\ ~Issuing(a) =>
          /\ \A s \in Sids : sessions'[s].admin = a => sessions[s].admin = a
          /\ \A c \in access' : c.sub = a => c \in access
<1>1. IInv /\ [Next]_vars => [Gains]_vars
  <2> SUFFICES ASSUME IInv, Next, NEW a \in Admins, ~Issuing(a)
               PROVE  /\ \A s \in Sids : sessions'[s].admin = a => sessions[s].admin = a
                      /\ \A c \in access' : c.sub = a => c \in access
    OBVIOUS
  <2> USE DEF IInv
  <2>1. CASE sessions' = sessions /\ access' \subseteq access  BY <2>1
  <2>2. CASE \E rows \in SUBSET Sids :
               /\ \A s \in rows : Taken(s)
               /\ sessions' = Revoked(rows) /\ access' = access
    BY <2>2, RevokedRows
  <2>3. CASE \E s \in Sids : SessionExpires(s)
    <3>1. PICK s \in Sids : SessionExpires(s)  BY <2>3
    <3>2. sessions[s] \in Session  BY <3>1, RowShape DEF SessionExpires
    <3> QED  BY <3>1, <3>2 DEF SessionExpires, TypeOK, Session
  <2>4. ASSUME NEW t \in Threads, NEW new \in Free, LoginIssue(t, new) \/ Rotate(t, new)
        PROVE  /\ \A s \in Sids : sessions'[s].admin = a => sessions[s].admin = a
               /\ \A c \in access' : c.sub = a => c \in access
    <3>1. owner[t] # a
      BY <2>4 DEF Issuing, Carried, LoginIssue, Rotate
    <3>2. PICK r \in {new, sessions[sid[t]].root}, old \in {{}, {sid[t]}} :
            Opened(t, new, r, old) /\ (old # {} => sid[t] \in Sids /\ Taken(sid[t]))
      BY <2>4, AdminAssumption DEF Carried, LoginIssue, Rotate
    <3>3. old \in SUBSET Sids /\ \A s \in old : Taken(s)  BY <3>2
    <3>4. \A s \in Sids : sessions'[s] = IF s = new
                                          THEN [admin |-> owner[t], state |-> "live", root |-> r]
                                          ELSE Revoked(old)[s]
      BY <3>2, <3>3, RevokedRows DEF Opened
    <3>5. \A s \in Sids : sessions'[s].admin = a => sessions[s].admin = a
      BY <3>1, <3>3, <3>4, RevokedRows
    <3>6. \A c \in access' : c.sub = a => c \in access  BY <3>1, <3>2 DEF Opened
    <3> QED  BY <3>5, <3>6
  <2>5. ASSUME NEW t \in Threads, LogoutSave(t) \/ LogoutAllSave(t)
        PROVE  \E rows \in SUBSET Sids :
                 /\ \A s \in rows : Taken(s)
                 /\ sessions' = Revoked(rows) /\ access' = access
    <3>1. CASE LogoutSave(t)
      <4>1. sid[t] \in Sids /\ Taken(sid[t])  BY <3>1, AdminAssumption DEF Carried, LogoutSave
      <4> QED  BY <3>1, <4>1 DEF LogoutSave
    <3>2. CASE LogoutAllSave(t)
      <4>1. targets[t] \in SUBSET Sids /\ \A s \in targets[t] : Taken(s)  BY DEF TypeOK, Carried
      <4> QED  BY <3>2, <4>1 DEF LogoutAllSave
    <3> QED  BY <2>5, <3>1, <3>2
  <2> QED
    BY <2>1, <2>2, <2>3, <2>4, <2>5
    DEF Next, tables, request, LoginVerify, RefreshLoad, LogoutLoad, RefreshOwner, LogoutAllLoad,
        PatchLoad, PatchSave, Abort, CreateAdmin, AccessExpires, Take
<1> QED  BY <1>1, Invariance, PTL DEF Spec, InactiveGainsNothing

-------------------------------------------------------------------------------
(* One request at a time *)

\* The hypothesis of this section: requests come one after the other.
OneThread == \A t, u \in Threads : t = u

IdleHoldsNothing == \A t \in Threads : pc[t] = "idle" => sid[t] = NoSid

NothingRaced == IdleHoldsNothing /\ raced = {}

LEMMA NothingRaces ==
  ASSUME OneThread, IInv, NothingRaced, [Next]_vars
  PROVE  NothingRaced'
<1> USE DEF IInv, TypeOK, NothingRaced, IdleHoldsNothing, Goto
<1>1. ASSUME NEW t \in Threads, Close(t), raced' = raced PROVE NothingRaced'
  BY <1>1 DEF Close
<1>2. ASSUME NEW t \in Threads, NEW label, label # "idle", Goto(t, label), sid' = sid, raced' = raced
      PROVE  NothingRaced'
  BY <1>2
<1>3. ASSUME NEW t \in Threads, NEW s \in Sids, RefreshLoad(t, s) \/ LogoutLoad(t, s)
      PROVE  NothingRaced'
  <2>1. Holders(s) = {}
    BY <1>3, AdminAssumption DEF OneThread, Holders, RefreshLoad, LogoutLoad
  <2>2. raced' = {} /\ pc'[t] # "idle"
    BY <1>3, <2>1 DEF RefreshLoad, LogoutLoad, Take
  <2> QED  BY <1>3, <2>2 DEF OneThread
<1>4. ASSUME NEW t \in Threads,
             \/ \E a \in Admins : LoginVerify(t, a)
             \/ RefreshOwner(t)
             \/ \E c \in Claims, a \in Admins : LogoutAllLoad(t, c, a)
             \/ \E a \in Admins, new \in Account : PatchLoad(t, a, new)
      PROVE  NothingRaced'
  BY <1>2, <1>4 DEF LoginVerify, RefreshOwner, LogoutAllLoad, PatchLoad
<1>5. ASSUME NEW t \in Threads,
             \/ \E new \in Free : LoginIssue(t, new) \/ Rotate(t, new)
             \/ LogoutSave(t) \/ LogoutAllSave(t) \/ PatchSave(t) \/ Abort(t)
      PROVE  NothingRaced'
  BY <1>1, <1>5 DEF LoginIssue, Rotate, LogoutSave, LogoutAllSave, PatchSave, Abort
<1>6. ASSUME UNCHANGED <<pc, sid, raced>> PROVE NothingRaced'
  BY <1>6
<1> QED
  BY <1>3, <1>4, <1>5, <1>6
  DEF Next, CreateAdmin, SessionExpires, AccessExpires, vars, request

LEMMA SerialInvariance == ASSUME OneThread PROVE Spec => [](IInv /\ NothingRaced)
<1>1. Init => NothingRaced  BY DEF Init, NothingRaced, IdleHoldsNothing
<1>2. IInv /\ NothingRaced /\ [Next]_vars => NothingRaced'
  BY NothingRaces
<1> QED  BY <1>1, <1>2, Invariance, PTL DEF Spec

\* A login has one usable session at most (refresh_admin_session).
AtMostOneUsable ==
  \A s1, s2 \in Sids :
    Usable(s1) /\ Usable(s2) /\ sessions[s1].root = sessions[s2].root => s1 = s2

\* One request at a time, a login never has two usable sessions: two requests about one
\* session at a time are the only way to a second one (refresh_admin_session).
THEOREM SerialSingleSession == ASSUME OneThread PROVE Spec => []AtMostOneUsable
<1>1. IInv /\ NothingRaced => AtMostOneUsable
  BY DEF IInv, NothingRaced, Lineage, OneSessionPerLogin, AtMostOneUsable
<1> QED  BY <1>1, SerialInvariance, PTL

\* A logout leaves no live session of its login (revoke_refresh_session).
LogoutIsFinal ==
  [][\A t \in Threads : LogoutSave(t) =>
       \A s \in Family(sessions[sid[t]].root) : sessions'[s].state # "live"]_vars

\* One request at a time, whoever logs out with any session of a login ends that login
\* (revoke_refresh_session).
THEOREM SerialLogoutEnds == ASSUME OneThread PROVE Spec => LogoutIsFinal
<1>1. ASSUME NothingRaced,
             [\A t \in Threads :
                LET r == sessions[sid[t]].root IN
                LogoutSave(t) /\ r \notin raced => \A s \in Family(r) : sessions'[s].state # "live"]_vars
      PROVE  [\A t \in Threads : LogoutSave(t) =>
                \A s \in Family(sessions[sid[t]].root) : sessions'[s].state # "live"]_vars
  BY <1>1 DEF NothingRaced
<1> QED  BY <1>1, SerialInvariance, LogoutEnds, PTL DEF LogoutEndsLogin, LogoutIsFinal

===============================================================================
