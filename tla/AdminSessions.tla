----------------------------- MODULE AdminSessions -----------------------------
(***************************************************************************)
(* Staff accounts, their refresh sessions and their access tokens.         *)
(*                                                                         *)
(* A thread serves one request of the admin API: log in, refresh, log out, *)
(* log out everywhere, create an account or change one.  Each of them      *)
(* reads rows, decides, and writes and commits at its end; no row is read  *)
(* with a lock, so whatever another thread commits in between goes unseen. *)
(*                                                                         *)
(* A session row is the refresh token it stands for.  Rotation revokes it  *)
(* and inserts its successor; the rows that rotated_from_session_id ties   *)
(* together share a root, the session that the login opened.  An access    *)
(* token is its claims: it names no session and is not stored.             *)
(***************************************************************************)
EXTENDS Naturals, FiniteSets

CONSTANTS
  Threads,
  Admins,        \* staff accounts, by e-mail
  Seed,          \* the account the set-up script has created
  MixedCase,     \* accounts whose e-mail is not in lower case
  Sids,          \* session ids
  DrillToken,    \* setting: a drill token works as a superadmin's
  MaxPatches,    \* bound: changes of accounts there are
  NoAdmin, NoSid

ASSUME AdminAssumption ==
  /\ Seed \in Admins /\ MixedCase \subseteq Admins
  /\ DrillToken \in BOOLEAN /\ MaxPatches \in Nat
  /\ NoAdmin \notin Admins /\ NoSid \notin Sids

VARIABLES
  \* committed tables and the tokens in use
  accounts,      \* the admin_users row of each account, NoAccount if none
  sessions,      \* the admin_sessions row of each id, NoSession if none
  access,        \* claims of the access tokens that have not expired
  \* threads
  pc, sid, owner,
  row,           \* the account row as the thread has loaded it
  wanted,        \* the account row as a change is going to leave it
  targets,       \* the session rows that logout-all has loaded
  \* history
  raced,         \* roots with two requests about one session at one time
  known,         \* session ids there were when logout-all made its query
  patches

tables == <<accounts, sessions, access>>
request == <<sid, owner, row, wanted, targets, known>>
vars == <<tables, pc, request, raced, patches>>

-------------------------------------------------------------------------------
(* Rows *)

Roles == {"admin", "superadmin"}

Account == [active : BOOLEAN, role : Roles]

NoAccount == [active |-> FALSE, role |-> "none"]

\* Revoked or expired, a session is refused in the same way; a session that is both
\* is "revoked".
Session == [admin : Admins, state : {"live", "expired", "revoked"}, root : Sids]

NoSession == [admin |-> NoAdmin, state |-> "none", root |-> NoSid]

Claims == [sub : Admins, role : Roles]

\* A refresh token is accepted while its row is neither revoked nor expired.
Usable(s) == sessions[s].state = "live"

Family(r) == {s \in Sids : sessions[s].root = r}

Holders(s) == {t \in Threads : sid[t] = s}

Free == {s \in Sids : sessions[s] = NoSession}

Revoked(rows) ==
  [s \in Sids |-> IF s \in rows THEN [sessions[s] EXCEPT !.state = "revoked"] ELSE sessions[s]]

\* admin_guard: either role passes.
AdminToken(c) == c \in access /\ c.role \in Roles

\* superadmin_guard: the token's role decides, not the account's.
SuperadminToken == DrillToken \/ \E c \in access : c.role = "superadmin"

Goto(t, label) == pc' = [pc EXCEPT ![t] = label]

\* The response is sent and the database session closed.
Close(t) ==
  /\ Goto(t, "idle")
  /\ sid' = [sid EXCEPT ![t] = NoSid]
  /\ owner' = [owner EXCEPT ![t] = NoAdmin]
  /\ row' = [row EXCEPT ![t] = NoAccount]
  /\ wanted' = [wanted EXCEPT ![t] = NoAccount]
  /\ targets' = [targets EXCEPT ![t] = {}]
  /\ known' = [known EXCEPT ![t] = {}]

\* A statement fails or the client's request is refused: nothing is written.
Abort(t) == pc[t] # "idle" /\ Close(t) /\ UNCHANGED <<tables, raced, patches>>

\* A thread takes in a request about session s.
Take(t, s, label) ==
  /\ sid' = [sid EXCEPT ![t] = s]
  /\ raced' = IF Holders(s) # {} THEN raced \cup {sessions[s].root} ELSE raced
  /\ Goto(t, label)

-------------------------------------------------------------------------------
(* Log in *)

\* The account is loaded by the lower-cased name, is active and the password is right.
LoginVerify(t, a) ==
  /\ pc[t] = "idle"
  /\ accounts[a].active /\ a \notin MixedCase
  /\ owner' = [owner EXCEPT ![t] = a]
  /\ row' = [row EXCEPT ![t] = accounts[a]]
  /\ Goto(t, "login")
  /\ UNCHANGED <<tables, sid, wanted, targets, known, raced, patches>>

\* A session row and an access token with the role as loaded.
Opened(t, new, root, old) ==
  /\ sessions' = [Revoked(old) EXCEPT
                    ![new] = [admin |-> owner[t], state |-> "live", root |-> root]]
  /\ access' = access \cup {[sub |-> owner[t], role |-> row[t].role]}
  /\ UNCHANGED accounts

LoginIssue(t, new) ==
  /\ pc[t] = "login"
  /\ Opened(t, new, new, {})
  /\ Close(t)
  /\ UNCHANGED <<raced, patches>>

-------------------------------------------------------------------------------
(* Refresh *)

RefreshLoad(t, s) ==
  /\ pc[t] = "idle"
  /\ Usable(s)
  /\ Take(t, s, "refresh")
  /\ UNCHANGED <<tables, owner, row, wanted, targets, known, patches>>

\* Mutant of RefreshOwner: an account that was switched off still refreshes.
RefreshOwnerUnchecked(t) ==
  LET a == sessions[sid[t]].admin IN
  /\ pc[t] = "refresh"
  /\ owner' = [owner EXCEPT ![t] = a]
  /\ row' = [row EXCEPT ![t] = accounts[a]]
  /\ Goto(t, "rotate")
  /\ UNCHANGED <<tables, sid, wanted, targets, known, raced, patches>>

RefreshOwner(t) ==
  LET a == sessions[sid[t]].admin IN
  /\ pc[t] = "refresh"
  /\ accounts[a].active
  /\ owner' = [owner EXCEPT ![t] = a]
  /\ row' = [row EXCEPT ![t] = accounts[a]]
  /\ Goto(t, "rotate")
  /\ UNCHANGED <<tables, sid, wanted, targets, known, raced, patches>>

\* Mutant of Rotate: the session that was presented stays as it is.
RotateKept(t, new) ==
  /\ pc[t] = "rotate"
  /\ Opened(t, new, sessions[sid[t]].root, {})
  /\ Close(t)
  /\ UNCHANGED <<raced, patches>>

\* The session is revoked without another look at it, and its successor inserted.
Rotate(t, new) ==
  /\ pc[t] = "rotate"
  /\ Opened(t, new, sessions[sid[t]].root, {sid[t]})
  /\ Close(t)
  /\ UNCHANGED <<raced, patches>>

-------------------------------------------------------------------------------
(* Log out *)

\* By refresh token, or by a bare session id; a session id needs no credential.
LogoutLoad(t, s) ==
  /\ pc[t] = "idle"
  /\ Usable(s)
  /\ Take(t, s, "logout")
  /\ UNCHANGED <<tables, owner, row, wanted, targets, known, patches>>

\* Mutant of LogoutSave: it is the session of the login that is revoked.
LogoutSaveRoot(t) ==
  /\ pc[t] = "logout"
  /\ sessions' = Revoked({sessions[sid[t]].root})
  /\ Close(t)
  /\ UNCHANGED <<accounts, access, raced, patches>>

LogoutSave(t) ==
  /\ pc[t] = "logout"
  /\ sessions' = Revoked({sid[t]})
  /\ Close(t)
  /\ UNCHANGED <<accounts, access, raced, patches>>

\* Mutant of SessionsOf: rotated sessions are taken for revoked ones.
SessionsOfLogin(a) == {s \in Sids : sessions[s].admin = a /\ Usable(s) /\ sessions[s].root = s}

SessionsOf(a) == {s \in Sids : sessions[s].admin = a /\ Usable(s)}

\* Only a superadmin's token may name another account than its own.
LogoutAllLoad(t, c, a) ==
  /\ pc[t] = "idle"
  /\ AdminToken(c)
  /\ a = c.sub \/ c.role = "superadmin"
  /\ owner' = [owner EXCEPT ![t] = a]
  /\ targets' = [targets EXCEPT ![t] = SessionsOf(a)]
  /\ known' = [known EXCEPT ![t] = Sids \ Free]
  /\ Goto(t, "logout_all")
  /\ UNCHANGED <<tables, sid, row, wanted, raced, patches>>

\* The rows that were loaded are revoked; a row committed since is not among them.
LogoutAllSave(t) ==
  /\ pc[t] = "logout_all"
  /\ sessions' = Revoked(targets[t])
  /\ Close(t)
  /\ UNCHANGED <<accounts, access, raced, patches>>

-------------------------------------------------------------------------------
(* Accounts *)

\* create_admin_user
NewAccount(role) == [active |-> TRUE, role |-> role]

\* A second account of one e-mail is refused by the unique index.
CreateAdmin(a, role) ==
  /\ SuperadminToken
  /\ accounts[a] = NoAccount
  /\ accounts' = [accounts EXCEPT ![a] = NewAccount(role)]
  /\ UNCHANGED <<sessions, access, pc, request, raced, patches>>

\* Mutant of Patched: the role is not looked at.
PatchedUnchecked(account, new) ==
  {account, [account EXCEPT !.active = new.active], [account EXCEPT !.role = "none"], new}

\* What a body with is_active, role or both makes of an account; the role is validated.
Patched(account, new) ==
  {[account EXCEPT !.active = new.active], [account EXCEPT !.role = new.role], new}

PatchLoad(t, a, new) ==
  /\ pc[t] = "idle"
  /\ SuperadminToken
  /\ accounts[a] # NoAccount
  /\ patches < MaxPatches
  /\ patches' = patches + 1
  /\ owner' = [owner EXCEPT ![t] = a]
  /\ row' = [row EXCEPT ![t] = accounts[a]]
  /\ \E changed \in Patched(accounts[a], new) : wanted' = [wanted EXCEPT ![t] = changed]
  /\ Goto(t, "patch")
  /\ UNCHANGED <<tables, sid, targets, known, raced>>

\* A column is written when its value differs from the one loaded.
Column(new, loaded, current) == IF new # loaded THEN new ELSE current

\* The account changes; its sessions and its tokens stay.
PatchSave(t) ==
  LET a == owner[t] IN
  /\ pc[t] = "patch"
  /\ accounts' = [accounts EXCEPT ![a] =
       [active |-> Column(wanted[t].active, row[t].active, accounts[a].active),
        role |-> Column(wanted[t].role, row[t].role, accounts[a].role)]]
  /\ Close(t)
  /\ UNCHANGED <<sessions, access, raced, patches>>

-------------------------------------------------------------------------------
(* Time *)

SessionExpires(s) ==
  /\ Usable(s)
  /\ sessions' = [sessions EXCEPT ![s].state = "expired"]
  /\ UNCHANGED <<accounts, access, pc, request, raced, patches>>

AccessExpires(c) ==
  /\ c \in access
  /\ access' = access \ {c}
  /\ UNCHANGED <<accounts, sessions, pc, request, raced, patches>>

-------------------------------------------------------------------------------

Init ==
  /\ accounts = [a \in Admins |->
       IF a = Seed THEN [active |-> TRUE, role |-> "superadmin"] ELSE NoAccount]
  /\ sessions = [s \in Sids |-> NoSession]
  /\ access = {}
  /\ pc = [t \in Threads |-> "idle"]
  /\ sid = [t \in Threads |-> NoSid]
  /\ owner = [t \in Threads |-> NoAdmin]
  /\ row = [t \in Threads |-> NoAccount]
  /\ wanted = [t \in Threads |-> NoAccount]
  /\ targets = [t \in Threads |-> {}]
  /\ known = [t \in Threads |-> {}]
  /\ raced = {} /\ patches = 0

Next ==
  \/ \E t \in Threads :
       \/ \E a \in Admins : LoginVerify(t, a)
       \/ \E new \in Free : LoginIssue(t, new) \/ Rotate(t, new)
       \/ \E s \in Sids : RefreshLoad(t, s) \/ LogoutLoad(t, s)
       \/ RefreshOwner(t)
       \/ LogoutSave(t)
       \/ \E c \in Claims, a \in Admins : LogoutAllLoad(t, c, a)
       \/ LogoutAllSave(t)
       \/ \E a \in Admins, new \in Account : PatchLoad(t, a, new)
       \/ PatchSave(t)
       \/ Abort(t)
  \/ \E a \in Admins, role \in Roles : CreateAdmin(a, role)
  \/ \E s \in Sids : SessionExpires(s)
  \/ \E c \in Claims : AccessExpires(c)

Spec == Init /\ [][Next]_vars

-------------------------------------------------------------------------------
(* Properties *)

\* Tables and threads hold rows of their types; a session in hand has a row.
TypeOK ==
  /\ accounts \in [Admins -> Account \cup {NoAccount}]
  /\ sessions \in [Sids -> Session \cup {NoSession}]
  /\ access \subseteq Claims
  /\ pc \in [Threads -> {"idle", "login", "refresh", "rotate", "logout", "logout_all", "patch"}]
  /\ sid \in [Threads -> Sids \cup {NoSid}]
  /\ owner \in [Threads -> Admins \cup {NoAdmin}]
  /\ row \in [Threads -> Account \cup {NoAccount}]
  /\ wanted \in [Threads -> Account \cup {NoAccount}]
  /\ targets \in [Threads -> SUBSET Sids]
  /\ known \in [Threads -> SUBSET Sids]
  /\ raced \subseteq Sids /\ patches \in 0..MaxPatches

\* However often a login is refreshed, at most one of its sessions is alive, as long
\* as no two requests handled one of them at the same time (refresh_admin_session
\* revokes the row it read, and does not check that it still is unrevoked).
OneSessionPerLogin ==
  \A s1, s2 \in Sids :
    /\ Usable(s1) /\ Usable(s2)
    /\ sessions[s1].root = sessions[s2].root
    /\ sessions[s1].root \notin raced
    => s1 = s2

\* A logout leaves no session of that login alive, with the same exception
\* (revoke_refresh_session revokes one row, never the row's successors).
LogoutEndsLogin ==
  [][\A t \in Threads :
       LET r == sessions[sid[t]].root IN
       LogoutSave(t) /\ r \notin raced => \A s \in Family(r) : sessions'[s].state # "live"]_vars

\* When logout-all answers, whatever session of the account is still usable was not
\* yet there at its query: it comes from a login or a refresh that the query overtook
\* (revoke_all_sessions).
LogoutAllEndsOldSessions ==
  [][\A t \in Threads : \A s \in Sids :
       LogoutAllSave(t) /\ sessions'[s].admin = owner[t] /\ sessions'[s].state = "live"
       => s \notin known[t]]_vars

\* Requests that have found the account active and are about to issue tokens.
Issuing(a) ==
  \E t \in Threads : pc[t] \in {"login", "rotate"} /\ owner[t] = a /\ row[t].active

\* An account that has been switched off gains neither a session nor a token, but for
\* the requests that had already looked at it (perform_admin_login,
\* refresh_admin_session).
InactiveGainsNothing ==
  [][\A a \in Admins :
       ~accounts[a].active /\ ~Issuing(a) =>
         /\ \A s \in Sids : sessions'[s].admin = a => sessions[s].admin = a
         /\ \A c \in access' : c.sub = a => c \in access]_vars

===============================================================================
