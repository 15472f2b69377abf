---------------------------- MODULE BillingWebhooks ----------------------------
(***************************************************************************)
(* Billing events on their way into the subscriptions table.               *)
(*                                                                         *)
(* A hook is an API process inside the webhook endpoint, which does not    *)
(* give way to another webhook of its process: it inserts the event's row, *)
(* maps the event to a user, finds the subscription and saves both rows,   *)
(* in one transaction.  A replayer is a thread inside the admin replay     *)
(* endpoint: it does the same over a row it has loaded.                    *)
(* replay_failed_events is a series of such replays.                       *)
(*                                                                         *)
(* Tables hold committed state.  No row is read with a lock, and a flush   *)
(* writes only the columns that differ from what the session has loaded.   *)
(***************************************************************************)
EXTENDS Integers

CONSTANTS
  Hooks, Replayers,     \* sessions
  Events,               \* events of one provider, by external_event_id
  Customers,            \* the provider's customers, one for each user
  SubIds,               \* the provider's subscription ids
  SubRows,              \* primary keys of the subscriptions table
  EventCustomer,        \* the customer of each event, "none" if it names none
  EventSub,             \* the subscription id in each event, NoSubId if it has none
  EventStatus,          \* the normalised status of each event
  Ignorable,            \* events that have no status once parsed, or the empty id
  Hinted,               \* events whose metadata names the user
  Lapsed,               \* events whose period, with grace, has ended
  Unsupported,          \* events of a type that is not about a subscription
  DeadLetterAttempts,   \* setting: attempts that make an event a dead letter
  MaxAttempts,          \* bound: a replay starts below this many attempts
  MaxFailures,          \* bound: statements that fail
  NoEvent, NoSubId, NoSubRow

Sessions == Hooks \cup Replayers

ActiveStatuses == {"active", "trialing"}

Statuses == {"active", "trialing", "canceled", "past_due", "paused", "unknown"}

ASSUME BillingAssumption ==
  /\ Hooks \cap Replayers = {}
  /\ EventCustomer \in [Events -> Customers \cup {"none"}]
  /\ EventSub \in [Events -> SubIds \cup {NoSubId}]
  /\ EventStatus \in [Events -> Statuses]
  /\ Ignorable \subseteq Events /\ Hinted \subseteq Events
  /\ Lapsed \subseteq Events /\ Unsupported \subseteq Events
  /\ DeadLetterAttempts \in Nat \ {0}
  /\ MaxAttempts \in Nat \ {0} /\ MaxFailures \in Nat
  /\ NoEvent \notin Events /\ NoSubId \notin SubIds /\ NoSubRow \notin SubRows
  /\ "none" \notin Customers

VARIABLES
  \* committed tables
  inbox,        \* the billing_webhook_events row of each event, NoRow if none
  subs,         \* the subscriptions row at each primary key, NoSub if none
  linked,       \* customers that are some user's billing_customer_id
  old,          \* events whose row is older than the retention time
  \* sessions
  pc, ev,       \* where each session is, and the event it serves
  seen,         \* the event row as the session has loaded or inserted it
  verdict,      \* what the session is going to make of the event
  target,       \* the subscription row found, NoSubRow if it is to be inserted
  seenSub,      \* that row as loaded
  \* history
  acked,        \* events the provider has had a 2xx response for
  applied,      \* events that some session has saved to a subscription
  cleaned,      \* events whose row the retention clean-up has deleted
  failures      \* statements that have failed

tables == <<inbox, subs, linked, old>>
session == <<ev, seen, verdict, target, seenSub>>
history == <<acked, applied, cleaned>>
vars == <<tables, pc, session, history, failures>>

-------------------------------------------------------------------------------
(* Rows *)

EventRow ==
  [status: {"received", "processed", "ignored", "failed"}, attempts: Nat, dead: BOOLEAN]

NoRow == [status |-> "none", attempts |-> 0, dead |-> FALSE]

Received == [status |-> "received", attempts |-> 0, dead |-> FALSE]

\* Either key may be NULL.
Subscription ==
  [sub: SubIds \cup {NoSubId}, customer: Customers \cup {"none"}, status: Statuses,
   entitled: BOOLEAN]

NoSub == [sub |-> NoSubId, customer |-> "none", status |-> "none", entitled |-> FALSE]

Entitles(status, e) == status \in ActiveStatuses /\ e \notin Lapsed

\* Mutant of SubscriptionOf: the flag is computed before the status is set.
SubscriptionOfSwapped(e, before) ==
  [sub |-> EventSub[e], customer |-> EventCustomer[e], status |-> EventStatus[e],
   entitled |-> Entitles(before.status, e)]

\* The columns _upsert_subscription assigns from an event.
SubscriptionOf(e, before) ==
  [sub |-> EventSub[e], customer |-> EventCustomer[e], status |-> EventStatus[e],
   entitled |-> Entitles(EventStatus[e], e)]

\* A column is written when its value differs from the one loaded.
Column(new, loaded, current) == IF new # loaded THEN new ELSE current

MergeSub(new, loaded, current) ==
  [sub |-> Column(new.sub, loaded.sub, current.sub),
   customer |-> Column(new.customer, loaded.customer, current.customer),
   status |-> Column(new.status, loaded.status, current.status),
   entitled |-> Column(new.entitled, loaded.entitled, current.entitled)]

Resolves(e) == e \in Hinted \/ EventCustomer[e] \in linked

Goto(s, label) == pc' = [pc EXCEPT ![s] = label]

\* The session closes: what it had loaded or inserted is gone.
Close(s) ==
  /\ Goto(s, "idle")
  /\ ev' = [ev EXCEPT ![s] = NoEvent]
  /\ seen' = [seen EXCEPT ![s] = NoRow]
  /\ verdict' = [verdict EXCEPT ![s] = "none"]
  /\ target' = [target EXCEPT ![s] = NoSubRow]
  /\ seenSub' = [seenSub EXCEPT ![s] = NoSub]

\* The transaction is rolled back and the request ends with a 500.
Abort(s) == Close(s) /\ UNCHANGED <<tables, history>>

-------------------------------------------------------------------------------
(* A hook takes in a delivery *)

\* The provider sends an event, for the first time or again; signature and payload
\* are in order.
Deliver(h, e) ==
  /\ pc[h] = "idle"
  /\ ev' = [ev EXCEPT ![h] = e]
  /\ Goto(h, "insert")
  /\ UNCHANGED <<tables, seen, verdict, target, seenSub, history, failures>>

HoldsInboxEntry(h) == pc[h] \in {"map", "by_id", "by_customer", "save"}

\* Mutant of InboxEntryFree: the index on the event id is not unique.
InboxEntryAlwaysFree(h) == TRUE

\* An insert of an event waits for the open transaction that has inserted it.
InboxEntryFree(h) ==
  \A g \in Hooks \ {h} : HoldsInboxEntry(g) => ev[g] # ev[h]

\* Mutant of Insert: a duplicate is answered while the first insert is still open.
InsertWithoutWaiting(h) ==
  LET e == ev[h]
      free == InboxEntryFree(h) /\ inbox[e] = NoRow
  IN /\ pc[h] = "insert"
     /\ \/ ~free /\ Goto(h, "reply") /\ UNCHANGED seen
        \/ free /\ Goto(h, "map") /\ seen' = [seen EXCEPT ![h] = Received]
     /\ UNCHANGED <<tables, ev, verdict, target, seenSub, history, failures>>

\* Mutant of Insert: a duplicate key is an error like any other.
InsertDuplicateFails(h) ==
  LET e == ev[h]
  IN /\ pc[h] = "insert"
     /\ InboxEntryFree(h)
     /\ \/ inbox[e] # NoRow /\ Abort(h)
        \/ /\ inbox[e] = NoRow
           /\ Goto(h, "map")
           /\ seen' = [seen EXCEPT ![h] = Received]
           /\ UNCHANGED <<tables, ev, verdict, target, seenSub, history>>
     /\ UNCHANGED failures

\* create_webhook_event: a row that is already there makes this a duplicate, which
\* is answered as idempotent.
Insert(h) ==
  LET e == ev[h]
  IN /\ pc[h] = "insert"
     /\ InboxEntryFree(h)
     /\ \/ inbox[e] # NoRow /\ Goto(h, "reply") /\ UNCHANGED seen
        \/ /\ inbox[e] = NoRow
           /\ Goto(h, "map")
           /\ seen' = [seen EXCEPT ![h] = Received]
     /\ UNCHANGED <<tables, ev, verdict, target, seenSub, history, failures>>

\* list_billing_events, by status; the replay of the failed ones takes the same rows but
\* for dead letters.
Listed(status) == {e \in Events : inbox[e].status = status}

\* A superadmin replays the event of a row, whatever its status.
Replay(r) ==
  /\ pc[r] = "idle"
  /\ \E e \in Events :
       /\ inbox[e] # NoRow
       /\ inbox[e].attempts < MaxAttempts
       /\ ev' = [ev EXCEPT ![r] = e]
       /\ seen' = [seen EXCEPT ![r] = inbox[e]]
  /\ Goto(r, "map")
  /\ UNCHANGED <<tables, verdict, target, seenSub, history, failures>>

-------------------------------------------------------------------------------
(* process_normalized_event *)

Judge(s, outcome, label) ==
  /\ verdict' = [verdict EXCEPT ![s] = outcome]
  /\ Goto(s, label)
  /\ UNCHANGED <<tables, ev, seen, target, seenSub, history, failures>>

Map(s) ==
  LET e == ev[s]
  IN /\ pc[s] = "map"
     /\ \/ e \in Ignorable /\ Judge(s, "ignored", "save")
        \/ e \notin Ignorable /\ ~Resolves(e) /\ Judge(s, "failed", "save")
        \/ e \notin Ignorable /\ Resolves(e) /\ Judge(s, "processed", "by_id")

Found(s, r) ==
  /\ target' = [target EXCEPT ![s] = r]
  /\ seenSub' = [seenSub EXCEPT ![s] = subs[r]]
  /\ Goto(s, "save")
  /\ UNCHANGED <<tables, ev, seen, verdict, history, failures>>

\* An event without a subscription id is looked up by customer only.
FindById(s) ==
  LET id == EventSub[ev[s]]
      hits == {r \in SubRows : id # NoSubId /\ subs[r].sub = id}
  IN /\ pc[s] = "by_id"
     /\ \/ \E r \in hits : Found(s, r)
        \/ /\ hits = {}
           /\ Goto(s, "by_customer")
           /\ UNCHANGED <<tables, session, history, failures>>

\* Any row of the customer, if the event names one: the query has no order.
FindByCustomer(s) ==
  LET customer == EventCustomer[ev[s]]
      hits == {r \in SubRows : customer # "none" /\ subs[r].customer = customer}
  IN /\ pc[s] = "by_customer"
     /\ \/ \E r \in hits : Found(s, r)
        \/ /\ hits = {}
           /\ Goto(s, "save")
           /\ UNCHANGED <<tables, session, history, failures>>

\* Mutant of SaveEventRow: the attempt is counted when it starts and when it ends.
SaveEventRowTwice(s) ==
  LET attempts == seen[s].attempts + 2
      marked == attempts >= DeadLetterAttempts /\ (verdict[s] = "failed" \/ s \in Replayers)
      current == IF s \in Hooks THEN Received ELSE inbox[ev[s]]
  IN inbox' = [inbox EXCEPT ![ev[s]] =
       [status |-> Column(verdict[s], seen[s].status, current.status),
        attempts |-> attempts,
        dead |-> (marked /\ ~seen[s].dead) \/ current.dead]]

\* The event row as the session leaves it.  Only a replay makes a dead letter of an
\* event that has not failed.
SaveEventRow(s) ==
  LET attempts == seen[s].attempts + 1
      marked == attempts >= DeadLetterAttempts /\ (verdict[s] = "failed" \/ s \in Replayers)
      current == IF s \in Hooks THEN Received ELSE inbox[ev[s]]
  IN inbox' = [inbox EXCEPT ![ev[s]] =
       [status |-> Column(verdict[s], seen[s].status, current.status),
        attempts |-> attempts,
        dead |-> (marked /\ ~seen[s].dead) \/ current.dead]]

\* The rows the flush may write: the one found, or a new one.
RowsToSave(s) ==
  IF target[s] = NoSubRow THEN {r \in SubRows : subs[r] = NoSub} ELSE {target[s]}

SavedSubscription(s, r) ==
  MergeSub(SubscriptionOf(ev[s], seenSub[s]), seenSub[s], subs[r])

\* Another row has the subscription id that is to be saved; NULL is no id.
BreaksUniqueness(s, r) ==
  LET id == SavedSubscription(s, r).sub
  IN id # NoSubId /\ \E q \in SubRows \ {r} : subs[q].sub = id

SaveSubscription(s) ==
  \E r \in RowsToSave(s) :
    /\ ~BreaksUniqueness(s, r)
    /\ subs' = [subs EXCEPT ![r] = SavedSubscription(s, r)]

\* Mutant of SaveInto: a subscription that is refused does not stop the commit.
SaveIntoRegardless(s) ==
  /\ pc[s] = "save"
  /\ seen[s] # NoRow
  /\ SaveEventRow(s)
  /\ \/ verdict[s] = "processed" /\ SaveSubscription(s) /\ applied' = applied \cup {ev[s]}
     \/ /\ verdict[s] = "processed" => \E r \in RowsToSave(s) : BreaksUniqueness(s, r)
        /\ UNCHANGED <<subs, applied>>
  /\ UNCHANGED <<linked, old, acked, cleaned, failures>>

\* One transaction for the event's row and the subscription.
SaveInto(s) ==
  /\ pc[s] = "save"
  /\ seen[s] # NoRow
  /\ SaveEventRow(s)
  /\ \/ verdict[s] = "processed" /\ SaveSubscription(s) /\ applied' = applied \cup {ev[s]}
     \/ verdict[s] # "processed" /\ UNCHANGED <<subs, applied>>
  /\ UNCHANGED <<linked, old, acked, cleaned, failures>>

\* The transaction of a hook commits, and the response is on its way.
SaveDelivery(h) ==
  /\ SaveInto(h)
  /\ Goto(h, "reply")
  /\ UNCHANGED session

SaveReplay(r) == SaveInto(r) /\ Close(r)

\* The flush fails: the event row to update is gone, or the subscription id is taken.
Refuse(s) ==
  /\ pc[s] = "save"
  /\ \/ seen[s] = NoRow
     \/ verdict[s] = "processed" /\ \E r \in RowsToSave(s) : BreaksUniqueness(s, r)
  /\ Abort(s)
  /\ UNCHANGED failures

Reply(h) ==
  /\ pc[h] = "reply"
  /\ acked' = acked \cup {ev[h]}
  /\ Close(h)
  /\ UNCHANGED <<tables, applied, cleaned, failures>>

-------------------------------------------------------------------------------
(* What goes wrong *)

\* safe_process_webhook after an error that is not the database's: the row is kept as
\* it is, with an error code, and the provider gets a 500.
KeepErrorRow(h) ==
  /\ pc[h] \in {"map", "by_id", "by_customer"}
  /\ failures < MaxFailures
  /\ failures' = failures + 1
  /\ inbox' = [inbox EXCEPT ![ev[h]] =
       [status |-> "received", attempts |-> 1, dead |-> 1 >= DeadLetterAttempts]]
  /\ Close(h)
  /\ UNCHANGED <<subs, linked, old, history>>

\* A statement fails, the response is lost, or the process dies.
Fail(s) ==
  /\ pc[s] # "idle"
  /\ failures < MaxFailures
  /\ failures' = failures + 1
  /\ Abort(s)

-------------------------------------------------------------------------------
(* Meanwhile *)

\* A user gets the customer id: by checkout, or when an admin creates the user.
LinkCustomer(c) ==
  /\ linked' = linked \cup {c}
  /\ UNCHANGED <<inbox, subs, old, pc, session, history, failures>>

UndeleteDeadLetter(e) ==
  /\ inbox[e] # NoRow
  /\ inbox' = [inbox EXCEPT ![e].dead = FALSE]
  /\ UNCHANGED <<subs, linked, old, pc, session, history, failures>>

\* The row of e passes the retention time.
GrowOld(e) ==
  /\ inbox[e] # NoRow
  /\ old' = old \cup {e}
  /\ UNCHANGED <<inbox, subs, linked, pc, session, history, failures>>

\* Mutant of CleanUp: the age of a row is all that counts.
CleanUpByAge ==
  /\ old # {}
  /\ inbox' = [e \in Events |-> IF e \in old THEN NoRow ELSE inbox[e]]
  /\ old' = {}
  /\ cleaned' = cleaned \cup old
  /\ seen' = [s \in Sessions |->
       IF s \in Replayers /\ ev[s] \in old THEN NoRow ELSE seen[s]]
  /\ UNCHANGED <<subs, linked, pc, ev, verdict, target, seenSub, acked, applied, failures>>

\* One DELETE; a replayer that has loaded a deleted row will find none to update.
CleanUp ==
  LET deleted == {e \in old : inbox[e].status \in {"processed", "ignored"}}
  IN /\ deleted # {}
     /\ inbox' = [e \in Events |-> IF e \in deleted THEN NoRow ELSE inbox[e]]
     /\ old' = old \ deleted
     /\ cleaned' = cleaned \cup deleted
     /\ seen' = [s \in Sessions |->
          IF s \in Replayers /\ ev[s] \in deleted THEN NoRow ELSE seen[s]]
     /\ UNCHANGED <<subs, linked, pc, ev, verdict, target, seenSub, acked, applied,
                    failures>>

-------------------------------------------------------------------------------

Init ==
  /\ inbox = [e \in Events |-> NoRow]
  /\ subs = [r \in SubRows |-> NoSub]
  /\ linked = {}
  /\ old = {}
  /\ pc = [s \in Sessions |-> "idle"]
  /\ ev = [s \in Sessions |-> NoEvent]
  /\ seen = [s \in Sessions |-> NoRow]
  /\ verdict = [s \in Sessions |-> "none"]
  /\ target = [s \in Sessions |-> NoSubRow]
  /\ seenSub = [s \in Sessions |-> NoSub]
  /\ acked = {}
  /\ applied = {}
  /\ cleaned = {}
  /\ failures = 0

Process(s) == Map(s) \/ FindById(s) \/ FindByCustomer(s) \/ Refuse(s)

HookStep(h) == Process(h) \/ SaveDelivery(h) \/ Reply(h)

ReplayStep(r) == Process(r) \/ SaveReplay(r)

Next ==
  \/ \E h \in Hooks :
       \/ \E e \in Events : Deliver(h, e)
       \/ Insert(h) \/ HookStep(h) \/ KeepErrorRow(h)
  \/ \E r \in Replayers : Replay(r) \/ ReplayStep(r)
  \/ \E s \in Sessions : Fail(s)
  \/ \E c \in Customers : LinkCustomer(c)
  \/ \E e \in Events : UndeleteDeadLetter(e) \/ GrowOld(e)
  \/ CleanUp

Spec == Init /\ [][Next]_vars

\* A session goes on with its statements, and the provider goes on sending an event it
\* has had no answer for.
Fairness ==
  /\ \A h \in Hooks : WF_vars(HookStep(h)) /\ SF_vars(Insert(h))
  /\ \A r \in Replayers : WF_vars(ReplayStep(r))
  /\ \A e \in Events : SF_vars(e \notin acked /\ \E h \in Hooks : Deliver(h, e))

FairSpec == Spec /\ Fairness

-------------------------------------------------------------------------------
(* Properties *)

Labels == {"idle", "insert", "map", "by_id", "by_customer", "save", "reply"}

\* Every variable has its type, no attempt is counted twice, and only rows that exist
\* grow old.
TypeOK ==
  /\ inbox \in [Events -> EventRow \cup {NoRow}]
  /\ \A e \in Events : inbox[e].attempts <= MaxAttempts
  /\ subs \in [SubRows -> Subscription \cup {NoSub}]
  /\ linked \subseteq Customers
  /\ old \subseteq {e \in Events : inbox[e] # NoRow}
  /\ pc \in [Sessions -> Labels]
  /\ ev \in [Sessions -> Events \cup {NoEvent}]
  /\ \A s \in Sessions : pc[s] = "idle" <=> ev[s] = NoEvent
  /\ seen \in [Sessions -> EventRow \cup {NoRow}]
  /\ verdict \in [Sessions -> {"none", "processed", "ignored", "failed"}]
  /\ target \in [Sessions -> SubRows \cup {NoSubRow}]
  /\ seenSub \in [Sessions -> Subscription \cup {NoSub}]
  /\ acked \subseteq Events /\ applied \subseteq Events /\ cleaned \subseteq Events
  /\ failures \in 0..MaxFailures

\* An event the provider has had a 2xx response for, after which it is not sent again,
\* has a row that records it until the retention clean-up removes that row.  A
\* duplicate must not be answered before the first delivery has committed.
AckedIsRecorded == acked \subseteq {e \in Events : inbox[e] # NoRow} \cup cleaned

DeliverySaves(h) ==
  pc[h] = "save" /\ verdict[h] = "processed" /\ pc'[h] = "reply"

\* However often an event is delivered, and to however many sessions at once, a
\* delivery saves it to a subscription once: again only after clean-up has deleted
\* the row that makes it known.
DeliveryAppliesOnce ==
  [][\A h \in Hooks : DeliverySaves(h) => ev[h] \notin applied \/ ev[h] \in cleaned]_vars

\* An event is marked processed only if its subscription has been saved: also when two
\* sessions insert the same subscription and one of them is refused.
ProcessedIsApplied == \A e \in Events : inbox[e].status = "processed" => e \in applied

FlagMatchesStatus(r) == subs[r].entitled => subs[r].status \in ActiveStatuses

\* A session saves a subscription that has changed since it was loaded.
StaleSaved(r) ==
  \E s \in Sessions : pc[s] = "save" /\ target[s] = r /\ seenSub[s] # subs[r]

\* A subscription comes to grant access without an active status only by the save of a
\* session that had loaded the row before another one changed it.
FlagPartsOnlyWhenStale ==
  [][\A r \in SubRows :
       FlagMatchesStatus(r) /\ ~FlagMatchesStatus(r)' => StaleSaved(r)]_vars

StatusOnRecord == [e \in Events |-> inbox[e].status]

Inbox == INSTANCE EventInbox WITH
  record <- StatusOnRecord, effects <- applied, told <- acked, forgotten <- cleaned

\* To the provider and the operators the sessions, their order and their failures are
\* invisible: whatever they do is a step of an inbox that takes an event in once, marks
\* it processed together with its effect, and forgets no record that is not settled.
ImplementsEventInbox == Inbox!Spec

\* The provider gets a 2xx response for every event it keeps sending, once failures
\* stop: a delivery that committed and lost its response is answered as a duplicate.
EveryEventAcknowledged == \A e \in Events : <>(e \in acked)

\* Unknown and unsupported events are marked ignored and change no subscription: a
\* hook that is about to answer one has left the subscription it found as it was.
UnsupportedIgnored ==
  \A h \in Hooks :
    pc[h] = "reply" /\ ev[h] \in Unsupported /\ seenSub[h] # NoSub
    => subs[target[h]] = seenSub[h]

\* An event that was not processed is listed as failed, unless it is ignored: the
\* list an operator replays from leaves none out.
FailuresListed ==
  \A e \in Events :
    inbox[e] # NoRow /\ e \notin applied => e \in Listed("ignored") \cup Listed("failed")

===============================================================================
