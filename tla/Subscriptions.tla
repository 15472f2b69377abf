----------------------------- MODULE Subscriptions -----------------------------
(***************************************************************************)
(* What a user is entitled to: the subscriptions rows of one user, the     *)
(* requests that change them, and the gate that reads them.                *)
(*                                                                         *)
(* A thread serves a superadmin's activate, deactivate or link request,    *)
(* the user's own cancel, resume or checkout request, or a webhook.  Each  *)
(* loads rows and later saves what it has assigned; no row is read with a  *)
(* lock and a flush writes only the columns that differ from what was      *)
(* loaded.  The intake of webhooks is BillingWebhooks; here a webhook is   *)
(* the load and the save of the row it finds.                              *)
(***************************************************************************)
EXTENDS Naturals, FiniteSets

CONSTANTS
  Threads,
  SubRows,        \* primary keys of the subscriptions table
  Plans, SubIds, Customers,
  Primary,        \* setting: the provider behind cancel, resume and checkout
  Grace,          \* setting: a period that has just ended still counts
  Enforced,       \* setting: the gate refuses, mode "hard"
  MaxRequests,    \* bound: requests there are
  NoPlan, NoSubId, NoCustomer

\* What _normalize_status yields, but that "past_due" stands for "paused" and "unknown"
\* as well: nothing here tells these apart.
Statuses == {"active", "trialing", "past_due", "canceled"}

ActiveStatuses == {"active", "trialing"}

ASSUME SubscriptionAssumption ==
  /\ Primary \in {"stripe", "paddle"} /\ Grace \in BOOLEAN /\ Enforced \in BOOLEAN
  /\ MaxRequests \in Nat
  /\ NoPlan \notin Plans /\ NoSubId \notin SubIds /\ NoCustomer \notin Customers

VARIABLES
  subs,       \* the row at each primary key, NoSub if none
  latest,     \* rows with the latest updated_at
  customer,   \* the user's billing_customer_id
  answer,     \* the gate's last answer
  \* threads
  pc,
  found,      \* the rows the thread has loaded
  seen,       \* these rows as loaded
  since,      \* rows that others have saved since
  seenCustomer,
  \* history
  raced,      \* rows that two threads had in hand at one time
  ended,      \* rows saved by a deactivation, and by no activation or webhook since
  sold,       \* customers for which a checkout session was opened
  crossed,    \* whether two checkouts were under way at one time
  requests

tables == <<subs, latest, customer>>
thread == <<found, seen, since, seenCustomer>>
history == <<raced, sold, crossed>>
vars == <<tables, answer, pc, thread, history, ended, requests>>

-------------------------------------------------------------------------------
(* Rows *)

\* period: current_period_end is NULL, or with its grace in the future, or past.
Sub == [plan : Plans, provider : {"internal", "stripe"}, sub : SubIds \cup {NoSubId},
        status : Statuses, period : {"none", "future", "past"},
        cancel : BOOLEAN, entitled : BOOLEAN]

NoSub == [plan |-> NoPlan, provider |-> "none", sub |-> NoSubId, status |-> "none",
          period |-> "none", cancel |-> FALSE, entitled |-> FALSE]

Rows == {r \in SubRows : subs[r] # NoSub}

Empty == [r \in SubRows |-> NoSub]

\* _is_entitlement_active
IsEntitled(status, period) == status \in ActiveStatuses /\ period # "past"

\* The period of a row that ends now.
PeriodNow == IF Grace THEN "future" ELSE "past"

Column(new, loaded, current) == IF new # loaded THEN new ELSE current

\* The columns that differ are written; dated: a new current_period_end was assigned.
Merge(new, loaded, current, dated) ==
  [plan |-> Column(new.plan, loaded.plan, current.plan),
   provider |-> Column(new.provider, loaded.provider, current.provider),
   sub |-> Column(new.sub, loaded.sub, current.sub),
   status |-> Column(new.status, loaded.status, current.status),
   period |-> IF dated THEN new.period ELSE current.period,
   cancel |-> Column(new.cancel, loaded.cancel, current.cancel),
   entitled |-> Column(new.entitled, loaded.entitled, current.entitled)]

\* No two rows of a provider have one subscription id.
Unique(table) ==
  \A r1, r2 \in SubRows :
    /\ table[r1].sub # NoSubId /\ table[r1].sub = table[r2].sub
    /\ table[r1].provider = table[r2].provider
    => r1 = r2

Goto(t, label) == pc' = [pc EXCEPT ![t] = label]

\* The session of t closes, having written some rows.
Close(t, rows) ==
  /\ Goto(t, "idle")
  /\ found' = [found EXCEPT ![t] = {}]
  /\ seen' = [seen EXCEPT ![t] = Empty]
  /\ since' = [u \in Threads |-> IF u = t \/ pc[u] = "idle" THEN {} ELSE since[u] \cup rows]
  /\ seenCustomer' = [seenCustomer EXCEPT ![t] = NoCustomer]

\* A request begins: it loads some rows, none if it is going to insert one.
Load(t, rows, label) ==
  /\ pc[t] = "idle" /\ requests < MaxRequests
  /\ found' = [found EXCEPT ![t] = rows]
  /\ seen' = [seen EXCEPT ![t] = [r \in SubRows |-> IF r \in rows THEN subs[r] ELSE NoSub]]
  /\ raced' = raced \cup {r \in rows : \E u \in Threads : r \in found[u]}
  /\ requests' = requests + 1
  /\ Goto(t, label)
  /\ UNCHANGED <<tables, answer, since, seenCustomer, sold, crossed, ended>>

\* A request that was refused after its load, or failed.
Abort(t) ==
  /\ pc[t] # "idle"
  /\ Close(t, {})
  /\ UNCHANGED <<tables, answer, history, ended, requests>>

\* updated_at is taken before the commit, so a row that another thread has saved since
\* the load may still be the latest.
SetLatest(t, rows) ==
  \/ rows = {} /\ UNCHANGED latest
  \/ rows # {} /\ latest' \in {rows} \cup {{r} : r \in since[t] \ rows}

\* A request ends: each row it loaded is saved as the new one.  What becomes of ended
\* is up to the request.
Update(t, new, dated) ==
  LET table == [r \in SubRows |-> IF r \in found[t]
                                  THEN Merge(new[r], seen[t][r], subs[r], dated)
                                  ELSE subs[r]]
  IN  /\ Unique(table)
      /\ subs' = table
      /\ SetLatest(t, found[t])
      /\ Close(t, found[t])
      /\ UNCHANGED <<customer, answer, history, requests>>

\* A request ends with a row of its own.
Insert(t, new) ==
  \E r \in SubRows \ Rows :
    LET table == [subs EXCEPT ![r] = new] IN
    /\ Unique(table)
    /\ subs' = table
    /\ SetLatest(t, {r})
    /\ Close(t, {r})
    /\ UNCHANGED <<customer, answer, history, requests>>

\* The first of the rows that a query finds, in no order, or none.
First(rows) == IF rows = {} THEN {{}} ELSE {{r} : r \in rows}

-------------------------------------------------------------------------------
(* Superadmin requests for tests *)

ActivateLoad(t, plan) ==
  \E one \in First({r \in SubRows : subs[r].plan = plan}) : Load(t, one, "activate")

Activated(plan) ==
  [plan |-> plan, provider |-> "internal", sub |-> NoSubId, status |-> "active",
   period |-> "future", cancel |-> FALSE, entitled |-> TRUE]

ActivateSave(t, plan) ==
  /\ pc[t] = "activate"
  /\ \/ found[t] # {} /\ Update(t, [r \in found[t] |-> Activated(seen[t][r].plan)], TRUE)
     \/ found[t] = {} /\ Insert(t, Activated(plan))
  /\ ended' = ended \ found[t]

DeactivateLoad(t) == Load(t, Rows, "deactivate")

\* Mutant of Deactivated: the row is only marked to cancel at its end.
DeactivatedAtEnd(row) == [row EXCEPT !.cancel = TRUE, !.period = PeriodNow]

\* Mutant of Deactivated: the period is left to run.
DeactivatedMidPeriod(row) ==
  [row EXCEPT !.status = "canceled", !.cancel = TRUE, !.entitled = FALSE]

Deactivated(row) ==
  [row EXCEPT !.status = "canceled", !.cancel = TRUE, !.entitled = FALSE, !.period = PeriodNow]

DeactivateSave(t) ==
  /\ pc[t] = "deactivate"
  /\ Update(t, [r \in found[t] |-> Deactivated(seen[t][r])], TRUE)
  /\ ended' = ended \cup found[t]

\* link_test_subscription sets the flag from the status alone, and leaves the period.
Linked(row, plan, sub, status) ==
  [plan |-> plan, provider |-> "stripe", sub |-> sub, status |-> status, period |-> row.period,
   cancel |-> FALSE, entitled |-> status \in ActiveStatuses]

LinkLoad(t) ==
  \E one \in First({r \in SubRows : subs[r].provider = "stripe"}) : Load(t, one, "link")

LinkSave(t, plan, sub, status) ==
  /\ pc[t] = "link"
  /\ \/ found[t] # {}
        /\ Update(t, [r \in found[t] |-> Linked(seen[t][r], plan, sub, status)], FALSE)
     \/ found[t] = {} /\ Insert(t, Linked(NoSub, plan, sub, status))
  /\ UNCHANGED ended

-------------------------------------------------------------------------------
(* The provider *)

\* By subscription id if there is one, else a row of the customer.
HookLoad(t, sub) ==
  LET known == {r \in SubRows :
                  sub # NoSubId /\ subs[r].provider = "stripe" /\ subs[r].sub = sub} IN
  IF known # {} THEN Load(t, known, "hook")
  ELSE \E one \in {{}} \cup First({r \in SubRows : subs[r].provider = "stripe"}) :
         Load(t, one, "hook")

\* Mutant of Upserted: the flag of a past period stays.
UpsertedOnTrust(row, plan, sub, status, period, cancel) ==
  [plan |-> plan, provider |-> "stripe", sub |-> sub, status |-> status, period |-> period,
   cancel |-> cancel, entitled |-> row.entitled \/ IsEntitled(status, period)]

Upserted(row, plan, sub, status, period, cancel) ==
  [plan |-> plan, provider |-> "stripe", sub |-> sub, status |-> status, period |-> period,
   cancel |-> cancel, entitled |-> IsEntitled(status, period)]

\* Whether a period that is assigned differs from the loaded one: NULL is NULL, but two
\* dates in the future, or in the past, may be two.
Redated(t, period) ==
  {dated \in BOOLEAN :
     \A r \in found[t] :
       \/ dated = (period # seen[t][r].period)
       \/ period # "none" /\ period = seen[t][r].period}

HookSave(t, plan, sub, status, period, cancel) ==
  /\ pc[t] = "hook"
  /\ \/ /\ found[t] # {}
        /\ \E dated \in Redated(t, period) :
             Update(t, [r \in found[t] |->
                          Upserted(seen[t][r], plan, sub, status, period, cancel)], dated)
     \/ found[t] = {} /\ Insert(t, Upserted(NoSub, plan, sub, status, period, cancel))
  /\ ended' = ended \ found[t]

\* A period ends, and its grace.
PeriodEnds(r) ==
  /\ subs[r].period = "future"
  /\ subs' = [subs EXCEPT ![r].period = "past"]
  /\ UNCHANGED <<latest, customer, answer, pc, thread, history, ended, requests>>

-------------------------------------------------------------------------------
(* The user *)

\* Cancel and resume take the row updated last, whatever its provider and its status;
\* only the Stripe adapter answers, and it answers "active" to both.
OwnLoad(t, label) ==
  /\ Primary = "stripe"
  /\ \E r \in latest : subs[r].sub # NoSubId /\ Load(t, {r}, label)

Requested(row, cancel) ==
  [row EXCEPT !.status = "active", !.cancel = cancel, !.entitled = IsEntitled("active", row.period)]

CancelSave(t) ==
  /\ pc[t] = "cancel"
  /\ Update(t, [r \in found[t] |-> Requested(seen[t][r], TRUE)], FALSE)
  /\ UNCHANGED ended

ResumeSave(t) ==
  /\ pc[t] = "resume"
  /\ Update(t, [r \in found[t] |-> Requested(seen[t][r], FALSE)], FALSE)
  /\ UNCHANGED ended

\* Checkout is enabled, and the plan and the URLs of the request are allowed ones.
CheckoutLoad(t) ==
  /\ pc[t] = "idle" /\ requests < MaxRequests
  /\ Primary = "stripe"
  /\ seenCustomer' = [seenCustomer EXCEPT ![t] = customer]
  /\ crossed' = (crossed \/ \E u \in Threads : pc[u] = "checkout")
  /\ requests' = requests + 1
  /\ Goto(t, "checkout")
  /\ UNCHANGED <<tables, answer, found, seen, since, raced, sold, ended>>

\* Mutant of CustomerFor: a checkout always makes a customer.
CustomerAnew(t) == Customers \ sold

\* Mutant of CustomerFor: the stored customer is taken even when there is none.
CustomerStored(t) == {seenCustomer[t]}

\* create_or_get_customer: the stored one, or a new one.
CustomerFor(t) ==
  IF seenCustomer[t] # NoCustomer THEN {seenCustomer[t]} ELSE Customers \ sold

CheckoutSave(t) ==
  /\ pc[t] = "checkout"
  /\ \E c \in CustomerFor(t) :
       /\ customer' = Column(c, seenCustomer[t], customer)
       /\ sold' = sold \cup {c}
  /\ Close(t, {})
  /\ UNCHANGED <<subs, latest, answer, raced, crossed, ended, requests>>

-------------------------------------------------------------------------------
(* The gate *)

Passes(row) == row.period # "past"

ActiveRows == {r \in SubRows : subs[r].status = "active"}

\* Mutant of Judged: the row that was updated last is judged, whatever its status.
JudgedLatest == First(latest)

\* The gate judges one row with status "active", if there is one.
Judged == First(ActiveRows)

Gate ==
  \E one \in Judged :
    /\ answer' = IF ~Enforced \/ \E r \in one : Passes(subs[r]) THEN "admit" ELSE "refuse"
    /\ UNCHANGED <<tables, pc, thread, history, ended, requests>>

-------------------------------------------------------------------------------

Init ==
  /\ subs = Empty /\ latest = {} /\ customer = NoCustomer /\ answer = "none"
  /\ pc = [t \in Threads |-> "idle"]
  /\ found = [t \in Threads |-> {}]
  /\ seen = [t \in Threads |-> Empty]
  /\ since = [t \in Threads |-> {}]
  /\ seenCustomer = [t \in Threads |-> NoCustomer]
  /\ raced = {} /\ ended = {} /\ sold = {} /\ crossed = FALSE /\ requests = 0

Next ==
  \/ \E t \in Threads :
       \/ \E plan \in Plans : ActivateLoad(t, plan) \/ ActivateSave(t, plan)
       \/ DeactivateLoad(t) \/ DeactivateSave(t)
       \/ LinkLoad(t)
       \/ \E plan \in Plans, sub \in SubIds \cup {NoSubId}, status \in Statuses :
            LinkSave(t, plan, sub, status)
       \/ \E sub \in SubIds \cup {NoSubId} : HookLoad(t, sub)
       \/ \E plan \in Plans, sub \in SubIds \cup {NoSubId}, status \in Statuses,
             period \in {"none", "future", "past"}, cancel \in BOOLEAN :
            HookSave(t, plan, sub, status, period, cancel)
       \/ \E label \in {"cancel", "resume"} : OwnLoad(t, label)
       \/ CancelSave(t) \/ ResumeSave(t)
       \/ CheckoutLoad(t) \/ CheckoutSave(t)
       \/ Abort(t)
  \/ \E r \in SubRows : PeriodEnds(r)
  \/ Gate

Spec == Init /\ [][Next]_vars

-------------------------------------------------------------------------------
(* Properties *)

\* Tables and threads have their types, and (provider, subscription id) is unique.
TypeOK ==
  /\ subs \in [SubRows -> Sub \cup {NoSub}] /\ Unique(subs)
  /\ latest \subseteq Rows
  /\ customer \in Customers \cup {NoCustomer}
  /\ answer \in {"none", "admit", "refuse"}
  /\ pc \in [Threads -> {"idle", "activate", "deactivate", "link", "hook", "cancel", "resume",
                         "checkout"}]
  /\ found \in [Threads -> SUBSET SubRows]
  /\ seen \in [Threads -> [SubRows -> Sub \cup {NoSub}]]
  /\ since \in [Threads -> SUBSET SubRows]
  /\ seenCustomer \in [Threads -> Customers \cup {NoCustomer}]
  /\ raced \subseteq SubRows /\ ended \subseteq SubRows /\ sold \subseteq Customers
  /\ crossed \in BOOLEAN /\ requests \in 0..MaxRequests

\* The stored flag and the gate's view of a row agree, except that the flag outlives
\* the period, and counts a trial: a row the gate passes has the flag, and a row with
\* the flag is active or trialing.  Only rows that two requests had in hand at one
\* time may part from it (entitlement_active, user_has_active_subscription).
FlagFollowsRow ==
  \A r \in SubRows \ raced :
    /\ subs[r].status = "active" /\ Passes(subs[r]) => subs[r].entitled
    /\ subs[r].entitled => subs[r].status \in ActiveStatuses

\* A subscription that a deactivation has ended is not let in again by a cancel, a
\* resume or a link, however these were interleaved with it: one that had loaded the row
\* before may write "active" over "canceled", but none writes the period the
\* deactivation has closed, which the gate reads as well.  Only an activation or a
\* webhook opens the row again, or the grace (request_cancel_subscription,
\* deactivate_internal_test_plan, user_has_active_subscription).
DeactivatedStaysClosed ==
  ~Grace => \A r \in ended : ~(subs[r].status = "active" /\ Passes(subs[r]))

\* When deactivate answers, the gate passes none of the rows it loaded, but for those
\* that another request had in hand (deactivate_internal_test_plan).
DeactivateEndsAccess ==
  [][\A t \in Threads : DeactivateSave(t) =>
       \A r \in found[t] \ raced : subs'[r].status # "active" /\ ~subs'[r].entitled]_vars

\* A checkout session is for the customer the user has, so that its events find the
\* user, unless two checkouts were under way at one time (create_checkout_session).
SoldToKnownCustomer == ~crossed => sold \subseteq {customer}

\* While no two requests met on a row, the gate and the flag that the user is shown
\* part in two ways only: a trial is refused, and so is a user with an active row whose
\* period is over, whatever other row there is (the gate judges one active row).
GateAgreesWithFlag ==
  [][Gate /\ Enforced /\ raced = {} =>
       /\ answer' = "admit" => \E r \in SubRows : subs[r].entitled
       /\ answer' = "refuse" =>
            \/ \E r \in ActiveRows : ~Passes(subs[r])
            \/ \A r \in SubRows : subs[r].entitled => subs[r].status = "trialing"]_vars

===============================================================================
