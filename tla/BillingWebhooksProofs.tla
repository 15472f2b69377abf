------------------------- MODULE BillingWebhooksProofs -------------------------
(***************************************************************************)
(* Theorems about BillingWebhooks, for every set of API processes, admins, *)
(* events, customers and subscription rows, and every setting.             *)
(***************************************************************************)
EXTENDS BillingWebhooks, TLAPS

(***************************************************************************)
(* The inductive invariant: what an open transaction may rely on.          *)
(***************************************************************************)

\* An event that has an open insert has no committed row, and one open insert.
OpenInsertExclusive ==
  \A h \in Hooks : HoldsInboxEntry(h) =>
    /\ ev[h] \in Events
    /\ inbox[ev[h]] = NoRow
    /\ seen[h] = Received
    /\ \A g \in Hooks : HoldsInboxEntry(g) /\ ev[g] = ev[h] => g = h

\* A row that a replayer has loaded, and that clean-up has not deleted, is there.
LoadedRowExists ==
  \A r \in Replayers :
    /\ pc[r] \notin {"insert", "reply"}
    /\ seen[r] # NoRow =>
         /\ ev[r] \in Events
         /\ inbox[ev[r]] # NoRow
         /\ seen[r].attempts < MaxAttempts

\* A subscription row that a session has found is there; without one nothing is loaded.
FoundSubscriptionExists ==
  \A s \in Sessions :
    /\ target[s] = NoSubRow => seenSub[s] = NoSub
    /\ target[s] # NoSubRow => subs[target[s]] \in Subscription /\ seenSub[s] \in Subscription

VerdictReached ==
  \A s \in Sessions : pc[s] \in {"by_id", "by_customer", "save"} => verdict[s] # "none"

Recorded == {e \in Events : inbox[e] # NoRow} \cup cleaned

\* What a hook is about to answer, has answered, or has applied is on record.
OutcomesRecorded ==
  /\ \A h \in Hooks : pc[h] = "reply" => ev[h] \in Recorded
  /\ acked \subseteq Recorded
  /\ applied \subseteq Recorded

IInv ==
  /\ TypeOK
  /\ OpenInsertExclusive
  /\ LoadedRowExists
  /\ FoundSubscriptionExists
  /\ VerdictReached
  /\ OutcomesRecorded

-------------------------------------------------------------------------------
(* Rows *)

\* No row of an event that is there looks like a missing one.
LEMMA EventRowExists == ASSUME NEW row \in EventRow PROVE row # NoRow
BY DEF EventRow, NoRow

LEMMA ReceivedIsRow == Received \in EventRow
BY DEF Received, EventRow

\* What a session saves into the row it has found, or into a new one, is a
\* subscription; and if the row is still as loaded, it is the event's, unmixed.
LEMMA SavedIsSubscription ==
  ASSUME IInv, NEW s \in Sessions, ev[s] \in Events, NEW r \in RowsToSave(s)
  PROVE  /\ r \in SubRows
         /\ SavedSubscription(s, r) \in Subscription
         /\ seenSub[s] = subs[r] =>
              SavedSubscription(s, r) = SubscriptionOf(ev[s], seenSub[s])
<1> DEFINE new == SubscriptionOf(ev[s], seenSub[s])
<1>1. new \in Subscription
  BY BillingAssumption DEF SubscriptionOf, Subscription, Entitles
<1>2. r \in SubRows
  BY BillingAssumption DEF RowsToSave, IInv, TypeOK
<1>3. CASE target[s] = NoSubRow
  <2>1. seenSub[s] = NoSub /\ subs[r] = NoSub
    BY <1>3 DEF RowsToSave, IInv, FoundSubscriptionExists
  <2>2. SavedSubscription(s, r) = new
    BY <1>1, <2>1 DEF SavedSubscription, MergeSub, Column, NoSub, SubscriptionOf
  <2>3. QED
    BY <1>1, <1>2, <2>2
<1>4. CASE target[s] # NoSubRow
  <2>1. subs[r] \in Subscription /\ seenSub[s] \in Subscription
    BY <1>4 DEF RowsToSave, IInv, FoundSubscriptionExists
  <2>2. SavedSubscription(s, r) \in Subscription
    BY <1>1, <2>1 DEF SavedSubscription, MergeSub, Column, Subscription
  <2>3. ASSUME seenSub[s] = subs[r] PROVE SavedSubscription(s, r) = new
    BY <1>1, <2>1, <2>3 DEF SavedSubscription, MergeSub, Column, Subscription, SubscriptionOf
  <2>4. QED
    BY <1>2, <2>2, <2>3
<1>5. QED
  BY <1>3, <1>4

\* The event row as saved is a row, whose attempts keep the bound.
LEMMA SavedEventRow ==
  ASSUME IInv, NEW s \in Sessions, SaveInto(s)
  PROVE  /\ ev[s] \in Events
         /\ inbox' \in [Events -> EventRow \cup {NoRow}]
         /\ \A e \in Events : inbox'[e].attempts <= MaxAttempts
         /\ inbox'[ev[s]] \in EventRow
         /\ \A e \in Events : e # ev[s] => inbox'[e] = inbox[e]
<1> DEFINE current == IF s \in Hooks THEN Received ELSE inbox[ev[s]]
           attempts == seen[s].attempts + 1
<1>1. ev[s] \in Events
  BY BillingAssumption DEF IInv, TypeOK, SaveInto
<1>2. attempts \in Nat /\ attempts <= MaxAttempts
  <2>1. CASE s \in Hooks
    <3>1. seen[s] = Received
      BY <2>1 DEF IInv, OpenInsertExclusive, HoldsInboxEntry, SaveInto
    <3>2. QED
      BY <3>1, BillingAssumption DEF Received
  <2>2. CASE s \in Replayers
    <3>1. seen[s] \in EventRow /\ seen[s].attempts < MaxAttempts
      BY <2>2 DEF IInv, TypeOK, LoadedRowExists, SaveInto
    <3>2. QED
      BY <3>1, BillingAssumption DEF EventRow
  <2>3. QED
    BY <2>1, <2>2 DEF Sessions
<1>3. current \in EventRow
  <2>1. CASE s \in Hooks
    BY <2>1, ReceivedIsRow
  <2>2. CASE s \in Replayers
    <3>1. inbox[ev[s]] # NoRow
      BY <2>2 DEF IInv, LoadedRowExists, SaveInto
    <3>2. QED
      BY <2>2, <3>1, <1>1, BillingAssumption DEF IInv, TypeOK
  <2>3. QED
    BY <2>1, <2>2 DEF Sessions
<1>4. verdict[s] \in {"processed", "ignored", "failed"}
  BY DEF IInv, TypeOK, VerdictReached, SaveInto
<1>5. PICK status, dead :
        /\ inbox' = [inbox EXCEPT ![ev[s]] =
             [status |-> status, attempts |-> attempts, dead |-> dead]]
        /\ status \in {"received", "processed", "ignored", "failed"}
        /\ dead \in BOOLEAN
  <2> DEFINE marked == attempts >= DeadLetterAttempts /\ (verdict[s] = "failed" \/ s \in Replayers)
             st == Column(verdict[s], seen[s].status, current.status)
             dd == (marked /\ ~seen[s].dead) \/ current.dead
  <2>1. inbox' = [inbox EXCEPT ![ev[s]] =
             [status |-> st, attempts |-> attempts, dead |-> dd]]
    BY DEF SaveInto, SaveEventRow
  <2>2. st \in {"received", "processed", "ignored", "failed"}
    BY <1>3, <1>4 DEF Column, EventRow
  <2>3. dd \in BOOLEAN
    OBVIOUS
  <2>4. QED
    BY <2>1, <2>2, <2>3
<1>6. [status |-> status, attempts |-> attempts, dead |-> dead] \in EventRow
  BY <1>2, <1>5 DEF EventRow
<1>7. inbox \in [Events -> EventRow \cup {NoRow}] /\ \A e \in Events : inbox[e].attempts <= MaxAttempts
  BY DEF IInv, TypeOK
<1>8. QED
  BY <1>1, <1>2, <1>5, <1>6, <1>7

-------------------------------------------------------------------------------
(* Every action keeps the invariant *)

LEMMA InitEstablishes == Init => IInv
<1> SUFFICES ASSUME Init PROVE IInv
  OBVIOUS
<1>1. TypeOK
  BY BillingAssumption DEF Init, TypeOK, Labels, NoRow, EventRow
<1>2. OpenInsertExclusive /\ LoadedRowExists /\ FoundSubscriptionExists /\ VerdictReached
  BY BillingAssumption DEF Init, OpenInsertExclusive, LoadedRowExists,
     FoundSubscriptionExists, VerdictReached, HoldsInboxEntry, Sessions
<1>3. OutcomesRecorded
  BY DEF Init, OutcomesRecorded, Sessions
<1>4. QED
  BY <1>1, <1>2, <1>3 DEF IInv

\* Closing a session takes nothing away from the others.
LEMMA CloseKeeps ==
  ASSUME IInv, NEW s \in Sessions, Close(s),
         \A r \in SubRows : subs[r] \in Subscription => subs'[r] \in Subscription,
         \A e \in Events : inbox[e] # NoRow => inbox'[e] # NoRow,
         \A h \in Hooks \ {s} : HoldsInboxEntry(h) => inbox'[ev[h]] = inbox[ev[h]],
         cleaned' = cleaned
  PROVE  /\ pc' \in [Sessions -> Labels]
         /\ ev' \in [Sessions -> Events \cup {NoEvent}]
         /\ \A t \in Sessions : pc'[t] = "idle" <=> ev'[t] = NoEvent
         /\ seen' \in [Sessions -> EventRow \cup {NoRow}]
         /\ verdict' \in [Sessions -> {"none", "processed", "ignored", "failed"}]
         /\ target' \in [Sessions -> SubRows \cup {NoSubRow}]
         /\ seenSub' \in [Sessions -> Subscription \cup {NoSub}]
         /\ OpenInsertExclusive' /\ LoadedRowExists'
         /\ FoundSubscriptionExists' /\ VerdictReached'
         /\ \A h \in Hooks : pc'[h] = "reply" => ev'[h] \in Recorded'
<1> USE DEF IInv, TypeOK, Close, Goto
<1>1. /\ pc' \in [Sessions -> Labels]
      /\ ev' \in [Sessions -> Events \cup {NoEvent}]
      /\ \A t \in Sessions : pc'[t] = "idle" <=> ev'[t] = NoEvent
  BY DEF Labels
<1>2. /\ seen' \in [Sessions -> EventRow \cup {NoRow}]
      /\ verdict' \in [Sessions -> {"none", "processed", "ignored", "failed"}]
      /\ target' \in [Sessions -> SubRows \cup {NoSubRow}]
      /\ seenSub' \in [Sessions -> Subscription \cup {NoSub}]
  OBVIOUS
<1>3. OpenInsertExclusive'
  BY DEF OpenInsertExclusive, HoldsInboxEntry, Sessions
<1>4. LoadedRowExists'
  BY DEF LoadedRowExists, Sessions
<1>5. FoundSubscriptionExists' /\ VerdictReached'
  BY DEF FoundSubscriptionExists, VerdictReached
<1>6. \A h \in Hooks : pc'[h] = "reply" => ev'[h] \in Recorded'
  BY DEF OutcomesRecorded, Recorded, Sessions
<1>7. QED
  BY <1>1, <1>2, <1>3, <1>4, <1>5, <1>6

LEMMA AbortKeeps ==
  ASSUME IInv, NEW s \in Sessions, Abort(s), failures' \in 0..MaxFailures
  PROVE  IInv'
<1> USE DEF IInv, TypeOK, Abort, tables, history
<1>1. OpenInsertExclusive' /\ LoadedRowExists' /\ FoundSubscriptionExists' /\ VerdictReached'
  BY CloseKeeps
<1>2. TypeOK'
  BY CloseKeeps
<1>3. OutcomesRecorded'
  BY CloseKeeps DEF OutcomesRecorded, Recorded
<1>4. QED
  BY <1>1, <1>2, <1>3

LEMMA DeliverKeeps ==
  ASSUME IInv, NEW h \in Hooks, NEW e \in Events, Deliver(h, e) PROVE IInv'
<1> USE BillingAssumption DEF IInv, TypeOK, Deliver, Goto, tables, history
<1>1. TypeOK'
  BY DEF Sessions, Labels
<1>2. OpenInsertExclusive'
  BY DEF OpenInsertExclusive, HoldsInboxEntry, Sessions
<1>3. LoadedRowExists' /\ FoundSubscriptionExists' /\ VerdictReached'
  BY DEF LoadedRowExists, FoundSubscriptionExists, VerdictReached, Sessions
<1>4. OutcomesRecorded'
  BY DEF OutcomesRecorded, Recorded, Sessions
<1>5. QED
  BY <1>1, <1>2, <1>3, <1>4

\* The unique index keeps a second open insert of the same event out.
LEMMA InsertKeeps ==
  ASSUME IInv, NEW h \in Hooks, Insert(h) PROVE IInv'
<1> USE BillingAssumption DEF IInv, TypeOK, Insert, Goto, tables, history
<1>1. TypeOK'
  BY ReceivedIsRow DEF Sessions, Labels
<1>2. OpenInsertExclusive'
  BY DEF OpenInsertExclusive, HoldsInboxEntry, InboxEntryFree, Sessions
<1>3. LoadedRowExists' /\ FoundSubscriptionExists' /\ VerdictReached'
  BY DEF LoadedRowExists, FoundSubscriptionExists, VerdictReached, Sessions
<1>4. OutcomesRecorded'
  BY DEF OutcomesRecorded, Recorded, Sessions
<1>5. QED
  BY <1>1, <1>2, <1>3, <1>4

LEMMA ReplayKeeps ==
  ASSUME IInv, NEW r \in Replayers, Replay(r) PROVE IInv'
<1> USE BillingAssumption DEF IInv, TypeOK, Replay, Goto, tables, history
<1>1. TypeOK'
  BY DEF Sessions, Labels
<1>2. OpenInsertExclusive'
  BY DEF OpenInsertExclusive, HoldsInboxEntry, Sessions
<1>3. LoadedRowExists'
  BY DEF LoadedRowExists, Sessions
<1>4. FoundSubscriptionExists' /\ VerdictReached'
  BY DEF FoundSubscriptionExists, VerdictReached, Sessions
<1>5. OutcomesRecorded'
  BY DEF OutcomesRecorded, Recorded, Sessions
<1>6. QED
  BY <1>1, <1>2, <1>3, <1>4, <1>5

LEMMA JudgeKeeps ==
  ASSUME IInv, NEW s \in Sessions, pc[s] = "map",
         NEW outcome \in {"processed", "ignored", "failed"}, NEW label \in {"save", "by_id"},
         Judge(s, outcome, label)
  PROVE  IInv'
<1> USE BillingAssumption DEF IInv, TypeOK, Judge, Goto, tables, history
<1>1. TypeOK'
  BY DEF Labels
<1>2. OpenInsertExclusive'
  BY DEF OpenInsertExclusive, HoldsInboxEntry, Sessions
<1>3. LoadedRowExists' /\ FoundSubscriptionExists' /\ VerdictReached'
  BY DEF LoadedRowExists, FoundSubscriptionExists, VerdictReached, Sessions
<1>4. OutcomesRecorded'
  BY DEF OutcomesRecorded, Recorded, Sessions
<1>5. QED
  BY <1>1, <1>2, <1>3, <1>4

LEMMA FindKeeps ==
  ASSUME IInv, NEW s \in Sessions, FindById(s) \/ FindByCustomer(s) PROVE IInv'
<1> USE BillingAssumption DEF IInv, TypeOK, Goto, tables, session, history
<1>1. ASSUME NEW r \in SubRows, pc[s] \in {"by_id", "by_customer"},
             subs[r] # NoSub, Found(s, r)
      PROVE  IInv'
  <2> USE <1>1 DEF Found
  <2>1. TypeOK'
    BY DEF Labels
  <2>2. OpenInsertExclusive'
    BY DEF OpenInsertExclusive, HoldsInboxEntry, Sessions
  <2>3. LoadedRowExists'
    BY DEF LoadedRowExists, Sessions
  <2>4. FoundSubscriptionExists'
    BY DEF FoundSubscriptionExists
  <2>5. VerdictReached'
    BY DEF VerdictReached
  <2>6. OutcomesRecorded'
    BY DEF OutcomesRecorded, Recorded, Sessions
  <2>7. QED
    BY <2>1, <2>2, <2>3, <2>4, <2>5, <2>6
<1>2. ASSUME pc[s] \in {"by_id", "by_customer"}, NEW label \in {"by_customer", "save"},
             Goto(s, label), UNCHANGED <<tables, session, history, failures>>
      PROVE  IInv'
  <2> USE <1>2
  <2>1. TypeOK'
    BY DEF Labels
  <2>2. OpenInsertExclusive'
    BY DEF OpenInsertExclusive, HoldsInboxEntry, Sessions
  <2>3. LoadedRowExists' /\ FoundSubscriptionExists' /\ VerdictReached'
    BY DEF LoadedRowExists, FoundSubscriptionExists, VerdictReached, Sessions
  <2>4. OutcomesRecorded'
    BY DEF OutcomesRecorded, Recorded, Sessions
  <2>5. QED
    BY <2>1, <2>2, <2>3, <2>4
<1>3. pc[s] \in {"by_id", "by_customer"} /\ ev[s] \in Events
  BY DEF FindById, FindByCustomer
<1>4. \A r \in SubRows :
        \/ EventSub[ev[s]] # NoSubId /\ subs[r].sub = EventSub[ev[s]]
        \/ EventCustomer[ev[s]] # "none" /\ subs[r].customer = EventCustomer[ev[s]]
        => subs[r] # NoSub
  BY <1>3 DEF NoSub
<1>5. CASE \E r \in SubRows : subs[r] # NoSub /\ Found(s, r)
  BY <1>1, <1>3, <1>5
<1>6. CASE \E label \in {"by_customer", "save"} :
             Goto(s, label) /\ UNCHANGED <<tables, session, history, failures>>
  BY <1>2, <1>3, <1>6
<1>7. QED
  BY <1>4, <1>5, <1>6 DEF FindById, FindByCustomer

\* The commit of an event: its row and the subscription together.
LEMMA SaveKeeps ==
  ASSUME IInv, NEW s \in Sessions, SaveInto(s)
  PROVE  /\ inbox' \in [Events -> EventRow \cup {NoRow}]
         /\ \A e \in Events : inbox'[e].attempts <= MaxAttempts
         /\ subs' \in [SubRows -> Subscription \cup {NoSub}]
         /\ \A r \in SubRows : subs[r] \in Subscription => subs'[r] \in Subscription
         /\ \A e \in Events : inbox[e] # NoRow => inbox'[e] # NoRow
         /\ inbox'[ev[s]] # NoRow
         /\ \A e \in Events : e # ev[s] => inbox'[e] = inbox[e]
         /\ ev[s] \in Events
         /\ applied' \subseteq applied \cup {ev[s]}
<1>1. /\ ev[s] \in Events
      /\ inbox' \in [Events -> EventRow \cup {NoRow}]
      /\ \A e \in Events : inbox'[e].attempts <= MaxAttempts
      /\ inbox'[ev[s]] # NoRow
      /\ \A e \in Events : e # ev[s] => inbox'[e] = inbox[e]
  BY SavedEventRow, EventRowExists
<1>2. subs \in [SubRows -> Subscription \cup {NoSub}]
  BY DEF IInv, TypeOK
<1>3. CASE verdict[s] = "processed" /\ SaveSubscription(s) /\ applied' = applied \cup {ev[s]}
  <2>1. PICK r \in RowsToSave(s) : subs' = [subs EXCEPT ![r] = SavedSubscription(s, r)]
    BY <1>3 DEF SaveSubscription
  <2>2. r \in SubRows /\ SavedSubscription(s, r) \in Subscription
    BY <1>1, SavedIsSubscription
  <2>3. QED
    BY <1>1, <1>2, <1>3, <2>1, <2>2
<1>4. CASE UNCHANGED <<subs, applied>>
  BY <1>1, <1>2, <1>4
<1>5. QED
  BY <1>3, <1>4 DEF SaveInto

LEMMA SaveDeliveryKeeps ==
  ASSUME IInv, NEW h \in Hooks, SaveDelivery(h) PROVE IInv'
<1> USE BillingAssumption DEF IInv, SaveDelivery, Goto, session
<1>1. h \in Sessions /\ h \notin Replayers /\ SaveInto(h)
  BY DEF Sessions
<1>2. pc[h] = "save" /\ UNCHANGED <<linked, old, acked, cleaned, failures>>
  BY <1>1 DEF SaveInto
<1>3. TypeOK'
  BY <1>1, <1>2, SaveKeeps DEF TypeOK, Labels
<1>4. OpenInsertExclusive'
  <2> SUFFICES ASSUME NEW g \in Hooks, HoldsInboxEntry(g)'
               PROVE  /\ ev'[g] \in Events /\ inbox'[ev'[g]] = NoRow /\ seen'[g] = Received
                      /\ \A k \in Hooks : HoldsInboxEntry(k)' /\ ev'[k] = ev'[g] => k = g
    BY DEF OpenInsertExclusive
  <2>1. g # h /\ HoldsInboxEntry(g) /\ HoldsInboxEntry(h)
    BY <1>1, <1>2 DEF HoldsInboxEntry, TypeOK
  <2>2. ev[g] # ev[h]
    BY <2>1 DEF OpenInsertExclusive
  <2>3. inbox'[ev[g]] = inbox[ev[g]]
    BY <1>1, <2>1, <2>2, SaveKeeps DEF OpenInsertExclusive
  <2>4. \A k \in Hooks : HoldsInboxEntry(k)' => HoldsInboxEntry(k)
    BY <1>1, <1>2 DEF HoldsInboxEntry, TypeOK
  <2>5. QED
    BY <2>1, <2>3, <2>4 DEF OpenInsertExclusive
<1>5. LoadedRowExists'
  BY <1>1, SaveKeeps DEF LoadedRowExists, TypeOK, Sessions
<1>6. FoundSubscriptionExists' /\ VerdictReached'
  BY <1>1, SaveKeeps DEF FoundSubscriptionExists, VerdictReached, TypeOK
<1>7. OutcomesRecorded'
  <2>1. Recorded \subseteq Recorded' /\ ev[h] \in Recorded'
    BY <1>1, <1>2, SaveKeeps DEF Recorded
  <2>2. \A g \in Hooks : pc'[g] = "reply" => pc[g] = "reply" \/ g = h
    BY <1>1 DEF TypeOK
  <2>3. QED
    BY <1>1, <1>2, <2>1, <2>2, SaveKeeps DEF OutcomesRecorded
<1>8. QED
  BY <1>3, <1>4, <1>5, <1>6, <1>7

LEMMA SaveReplayKeeps ==
  ASSUME IInv, NEW r \in Replayers, SaveReplay(r) PROVE IInv'
<1>1. r \in Sessions /\ r \notin Hooks /\ SaveInto(r) /\ Close(r)
  BY BillingAssumption DEF Sessions, SaveReplay
<1>2. inbox[ev[r]] # NoRow /\ UNCHANGED <<linked, old, acked, cleaned, failures>>
  BY <1>1 DEF SaveInto, IInv, LoadedRowExists
<1>3. \A h \in Hooks \ {r} : HoldsInboxEntry(h) => inbox'[ev[h]] = inbox[ev[h]]
  BY <1>1, <1>2, SaveKeeps DEF IInv, OpenInsertExclusive
<1>4. /\ OpenInsertExclusive' /\ LoadedRowExists' /\ FoundSubscriptionExists'
      /\ VerdictReached'
      /\ \A h \in Hooks : pc'[h] = "reply" => ev'[h] \in Recorded'
  BY <1>1, <1>2, <1>3, SaveKeeps, CloseKeeps
<1>5. TypeOK'
  <2>1. /\ pc' \in [Sessions -> Labels]
        /\ ev' \in [Sessions -> Events \cup {NoEvent}]
        /\ \A t \in Sessions : pc'[t] = "idle" <=> ev'[t] = NoEvent
        /\ seen' \in [Sessions -> EventRow \cup {NoRow}]
        /\ verdict' \in [Sessions -> {"none", "processed", "ignored", "failed"}]
        /\ target' \in [Sessions -> SubRows \cup {NoSubRow}]
        /\ seenSub' \in [Sessions -> Subscription \cup {NoSub}]
    BY <1>1, <1>2, <1>3, SaveKeeps, CloseKeeps
  <2>2. QED
    BY <1>1, <1>2, <2>1, SaveKeeps DEF IInv, TypeOK
<1>6. OutcomesRecorded'
  <2>1. Recorded \subseteq Recorded' /\ ev[r] \in Recorded'
    BY <1>1, <1>2, SaveKeeps DEF Recorded
  <2>2. QED
    BY <1>1, <1>2, <1>4, <2>1, SaveKeeps DEF IInv, OutcomesRecorded
<1>7. QED
  BY <1>4, <1>5, <1>6 DEF IInv

LEMMA ReplyKeeps ==
  ASSUME IInv, NEW h \in Hooks, Reply(h) PROVE IInv'
<1> USE DEF IInv, TypeOK, Reply, tables
<1>1. h \in Sessions
  BY DEF Sessions
<1>2. OpenInsertExclusive' /\ LoadedRowExists' /\ FoundSubscriptionExists' /\ VerdictReached'
  BY <1>1, CloseKeeps
<1>3. ev[h] \in Recorded /\ Recorded' = Recorded
  BY DEF OutcomesRecorded, Recorded
<1>4. TypeOK'
  BY <1>1, <1>3, CloseKeeps, BillingAssumption DEF Recorded
<1>5. OutcomesRecorded'
  BY <1>1, <1>3, CloseKeeps DEF OutcomesRecorded
<1>6. QED
  BY <1>2, <1>4, <1>5

LEMMA KeepErrorRowKeeps ==
  ASSUME IInv, NEW h \in Hooks, KeepErrorRow(h) PROVE IInv'
<1> DEFINE row == [status |-> "received", attempts |-> 1, dead |-> 1 >= DeadLetterAttempts]
<1>1. h \in Sessions /\ HoldsInboxEntry(h) /\ ev[h] \in Events
  BY DEF Sessions, KeepErrorRow, HoldsInboxEntry, IInv, OpenInsertExclusive
<1>2. /\ inbox' = [inbox EXCEPT ![ev[h]] = row]
      /\ Close(h)
      /\ failures' = failures + 1 /\ failures < MaxFailures
      /\ UNCHANGED <<subs, linked, old, acked, applied, cleaned>>
  BY DEF KeepErrorRow, history
<1>3. row \in EventRow /\ row # NoRow /\ row.attempts <= MaxAttempts
  BY BillingAssumption DEF EventRow, NoRow
<1>4. inbox \in [Events -> EventRow \cup {NoRow}]
  BY DEF IInv, TypeOK
<1>5. \A g \in Hooks \ {h} : HoldsInboxEntry(g) => inbox'[ev[g]] = inbox[ev[g]]
  BY <1>1, <1>2, <1>4 DEF IInv, OpenInsertExclusive
<1>6. \A e \in Events : inbox[e] # NoRow => inbox'[e] # NoRow
  BY <1>1, <1>2, <1>3, <1>4
<1>7. /\ OpenInsertExclusive' /\ LoadedRowExists' /\ FoundSubscriptionExists'
      /\ VerdictReached'
  BY <1>1, <1>2, <1>5, <1>6, CloseKeeps
<1>8. TypeOK'
  <2>1. /\ inbox' \in [Events -> EventRow \cup {NoRow}]
        /\ \A e \in Events : inbox'[e].attempts <= MaxAttempts
    BY <1>1, <1>2, <1>3, <1>4 DEF IInv, TypeOK
  <2>2. failures' \in 0..MaxFailures
    BY <1>2, BillingAssumption DEF IInv, TypeOK
  <2>3. QED
    BY <1>1, <1>2, <1>5, <1>6, <2>1, <2>2, CloseKeeps DEF IInv, TypeOK
<1>9. OutcomesRecorded'
  BY <1>1, <1>2, <1>5, <1>6, CloseKeeps DEF IInv, OutcomesRecorded, Recorded
<1>10. QED
  BY <1>7, <1>8, <1>9 DEF IInv

LEMMA EnvironmentKeeps ==
  ASSUME IInv,
         \/ \E c \in Customers : LinkCustomer(c)
         \/ \E e \in Events : UndeleteDeadLetter(e) \/ GrowOld(e)
  PROVE  IInv'
<1>1. CASE \E c \in Customers : LinkCustomer(c)
  BY <1>1 DEF LinkCustomer, IInv, TypeOK, OpenInsertExclusive, HoldsInboxEntry,
     LoadedRowExists, FoundSubscriptionExists, VerdictReached, OutcomesRecorded, Recorded,
     session, history
<1>2. CASE \E e \in Events : GrowOld(e)
  BY <1>2 DEF GrowOld, IInv, TypeOK, OpenInsertExclusive, HoldsInboxEntry,
     LoadedRowExists, FoundSubscriptionExists, VerdictReached, OutcomesRecorded, Recorded,
     session, history
<1>3. ASSUME NEW e \in Events, UndeleteDeadLetter(e) PROVE IInv'
  <2>1. inbox[e] \in EventRow /\ inbox \in [Events -> EventRow \cup {NoRow}]
    BY <1>3 DEF UndeleteDeadLetter, IInv, TypeOK
  <2>2. PICK row \in EventRow :
          inbox' = [inbox EXCEPT ![e] = row] /\ row.attempts = inbox[e].attempts
    <3>1. [inbox[e] EXCEPT !.dead = FALSE] \in EventRow
      BY <2>1 DEF EventRow
    <3>2. [inbox[e] EXCEPT !.dead = FALSE].attempts = inbox[e].attempts
      BY <2>1 DEF EventRow
    <3>3. QED
      BY <1>3, <3>1, <3>2 DEF UndeleteDeadLetter
  <2>3. row # NoRow /\ inbox[e] # NoRow
    BY <2>1, EventRowExists
  <2>4. UNCHANGED <<subs, linked, old, pc, ev, seen, verdict, target, seenSub, acked,
                    applied, cleaned, failures>>
    BY <1>3 DEF UndeleteDeadLetter, session, history
  <2>5. TypeOK'
    BY <2>1, <2>2, <2>3, <2>4 DEF IInv, TypeOK
  <2>6. OpenInsertExclusive'
    BY <2>1, <2>2, <2>3, <2>4 DEF IInv, OpenInsertExclusive, HoldsInboxEntry
  <2>7. LoadedRowExists' /\ FoundSubscriptionExists' /\ VerdictReached'
    BY <2>1, <2>2, <2>3, <2>4
       DEF IInv, LoadedRowExists, FoundSubscriptionExists, VerdictReached
  <2>8. OutcomesRecorded'
    BY <2>1, <2>2, <2>3, <2>4 DEF IInv, OutcomesRecorded, Recorded
  <2>9. QED
    BY <2>5, <2>6, <2>7, <2>8 DEF IInv
<1>4. QED
  BY <1>1, <1>2, <1>3

\* What clean-up deletes stays on record as cleaned, and no replayer saves over it.
LEMMA CleanUpKeeps == ASSUME IInv, CleanUp PROVE IInv'
<1> DEFINE deleted == {e \in old : inbox[e].status \in {"processed", "ignored"}}
<1>1. /\ inbox' = [e \in Events |-> IF e \in deleted THEN NoRow ELSE inbox[e]]
      /\ old' = old \ deleted
      /\ cleaned' = cleaned \cup deleted
      /\ seen' = [s \in Sessions |->
           IF s \in Replayers /\ ev[s] \in deleted THEN NoRow ELSE seen[s]]
      /\ UNCHANGED <<subs, linked, pc, ev, verdict, target, seenSub, acked, applied,
                     failures>>
  BY DEF CleanUp
<1>2. deleted \subseteq Events
  BY DEF IInv, TypeOK
<1>3. TypeOK'
  BY <1>1, <1>2, BillingAssumption DEF IInv, TypeOK, NoRow
<1>4. OpenInsertExclusive'
  BY <1>1, <1>2, BillingAssumption DEF IInv, OpenInsertExclusive, HoldsInboxEntry, Sessions
<1>5. LoadedRowExists'
  BY <1>1, <1>2 DEF IInv, LoadedRowExists, Sessions
<1>6. FoundSubscriptionExists' /\ VerdictReached'
  BY <1>1 DEF IInv, FoundSubscriptionExists, VerdictReached
<1>7. OutcomesRecorded'
  BY <1>1, <1>2 DEF IInv, OutcomesRecorded, Recorded
<1>8. QED
  BY <1>3, <1>4, <1>5, <1>6, <1>7 DEF IInv

LEMMA ProcessKeeps ==
  ASSUME IInv, NEW s \in Sessions, Process(s) PROVE IInv'
<1>1. CASE Map(s)
  BY <1>1, JudgeKeeps DEF Map
<1>2. CASE FindById(s) \/ FindByCustomer(s)
  BY <1>2, FindKeeps
<1>3. CASE Refuse(s)
  BY <1>3, AbortKeeps DEF Refuse, IInv, TypeOK
<1>4. QED
  BY <1>1, <1>2, <1>3 DEF Process

\* The invariant is inductive.
LEMMA NextKeeps == IInv /\ [Next]_vars => IInv'
<1> SUFFICES ASSUME IInv, [Next]_vars PROVE IInv'
  OBVIOUS
<1>1. ASSUME NEW h \in Hooks, NEW e \in Events, Deliver(h, e) PROVE IInv'
  BY <1>1, DeliverKeeps
<1>2. ASSUME NEW h \in Hooks, Insert(h) \/ HookStep(h) \/ KeepErrorRow(h) PROVE IInv'
  BY <1>2, InsertKeeps, ProcessKeeps, SaveDeliveryKeeps, ReplyKeeps, KeepErrorRowKeeps
     DEF HookStep, Sessions
<1>3. ASSUME NEW r \in Replayers, Replay(r) \/ ReplayStep(r) PROVE IInv'
  BY <1>3, ReplayKeeps, ProcessKeeps, SaveReplayKeeps DEF ReplayStep, Sessions
<1>4. ASSUME NEW s \in Sessions, Fail(s) PROVE IInv'
  <2>1. failures' \in 0..MaxFailures
    BY <1>4, BillingAssumption DEF Fail, IInv, TypeOK
  <2>2. QED
    BY <1>4, <2>1, AbortKeeps DEF Fail
<1>5. CASE CleanUp
  BY <1>5, CleanUpKeeps
<1>6. CASE UNCHANGED vars
  BY <1>6 DEF vars, tables, session, history, IInv, TypeOK, OpenInsertExclusive,
     HoldsInboxEntry, LoadedRowExists, FoundSubscriptionExists, VerdictReached,
     OutcomesRecorded, Recorded
<1>7. QED
  BY <1>1, <1>2, <1>3, <1>4, <1>5, <1>6, EnvironmentKeeps DEF Next

LEMMA Inductive == Spec => []IInv
BY InitEstablishes, NextKeeps, PTL DEF Spec

-------------------------------------------------------------------------------
(* Theorems *)

\* Every variable of the webhooks keeps its type, whatever is interleaved.
THEOREM TypeCorrect == Spec => []TypeOK
<1>1. IInv => TypeOK
  BY DEF IInv
<1>2. QED
  BY <1>1, Inductive, PTL

\* An event the provider has had a 2xx response for is recorded by a committed row
\* until clean-up: create_webhook_event answers a duplicate only of a committed row.
THEOREM AnswersAreRecorded == Spec => []AckedIsRecorded
<1>1. IInv => AckedIsRecorded
  BY DEF IInv, OutcomesRecorded, Recorded, AckedIsRecorded
<1>2. QED
  BY <1>1, Inductive, PTL

\* However many processes are sent an event, one delivery applies it: again only after
\* clean-up has deleted its row.
THEOREM DeliveriesApplyOnce == Spec => DeliveryAppliesOnce
<1>1. ASSUME IInv, NEW h \in Hooks, DeliverySaves(h)
      PROVE  ev[h] \notin applied \/ ev[h] \in cleaned
  <2>1. inbox[ev[h]] = NoRow
    BY <1>1 DEF IInv, OpenInsertExclusive, HoldsInboxEntry, DeliverySaves
  <2>2. QED
    BY <1>1, <2>1 DEF IInv, OutcomesRecorded, Recorded
<1>2. IInv => [\A h \in Hooks :
                 DeliverySaves(h) => ev[h] \notin applied \/ ev[h] \in cleaned]_vars
  BY <1>1
<1>3. QED
  BY <1>2, Inductive, PTL DEF DeliveryAppliesOnce

\* The flush of a subscription that is refused takes the event's row back with it.
LEMMA ProcessedStaysApplied ==
  ASSUME IInv, [Next]_vars, ProcessedIsApplied PROVE ProcessedIsApplied'
<1> USE DEF ProcessedIsApplied
<1>1. ASSUME NEW s \in Sessions, SaveInto(s) PROVE ProcessedIsApplied'
  <2>1. ev[s] \in Events /\ \A e \in Events : e # ev[s] => inbox'[e] = inbox[e]
    BY <1>1, SavedEventRow
  <2>2. applied \subseteq applied' /\ (verdict[s] = "processed" => ev[s] \in applied')
    BY <1>1 DEF SaveInto
  <2>3. inbox'[ev[s]].status \in {verdict[s], "received", inbox[ev[s]].status}
    BY <1>1, <2>1 DEF SaveInto, SaveEventRow, Column, Received, IInv, TypeOK
  <2>4. QED
    BY <2>1, <2>2, <2>3
<1>2. ASSUME NEW h \in Hooks, KeepErrorRow(h) PROVE ProcessedIsApplied'
  BY <1>2 DEF KeepErrorRow, history, IInv, TypeOK
<1>3. ASSUME NEW e \in Events, UndeleteDeadLetter(e) PROVE ProcessedIsApplied'
  <2>1. inbox[e] \in EventRow /\ inbox' = [inbox EXCEPT ![e].dead = FALSE]
    BY <1>3 DEF UndeleteDeadLetter, IInv, TypeOK
  <2>2. \A d \in Events : inbox'[d].status = inbox[d].status
    BY <2>1 DEF EventRow, IInv, TypeOK
  <2>3. QED
    BY <1>3, <2>2 DEF UndeleteDeadLetter, history
<1>4. CASE CleanUp
  BY <1>4 DEF CleanUp, NoRow, IInv, TypeOK
<1>5. ASSUME UNCHANGED <<inbox, applied>> PROVE ProcessedIsApplied'
  BY <1>5
<1>6. ASSUME NEW s \in Sessions, Process(s) \/ Fail(s) PROVE UNCHANGED <<inbox, applied>>
  BY <1>6 DEF Process, Map, Judge, FindById, FindByCustomer, Found, Refuse, Fail, Abort,
     tables, history
<1>7. ASSUME NEW h \in Hooks,
             \/ \E e \in Events : Deliver(h, e)
             \/ Insert(h) \/ Reply(h)
      PROVE  UNCHANGED <<inbox, applied>>
  BY <1>7 DEF Deliver, Insert, Reply, tables, history
<1>8. ASSUME \/ \E r \in Replayers : Replay(r)
             \/ \E c \in Customers : LinkCustomer(c)
             \/ \E e \in Events : GrowOld(e)
             \/ UNCHANGED vars
      PROVE  UNCHANGED <<inbox, applied>>
  BY <1>8 DEF Replay, LinkCustomer, GrowOld, vars, tables, history
<1>9. QED
  BY <1>1, <1>2, <1>3, <1>4, <1>5, <1>6, <1>7, <1>8
     DEF Next, HookStep, ReplayStep, SaveDelivery, SaveReplay, Sessions

\* An event's row says processed only once its subscription has been saved.
THEOREM ProcessedMeansApplied == Spec => []ProcessedIsApplied
<1>1. Init => ProcessedIsApplied
  BY DEF Init, NoRow, ProcessedIsApplied
<1>2. IInv /\ [Next]_vars /\ ProcessedIsApplied => ProcessedIsApplied'
  BY ProcessedStaysApplied
<1>3. QED
  BY <1>1, <1>2, Inductive, PTL DEF Spec

\* A step changes a subscription only by a session's save into it.
LEMMA SubscriptionChangedBySave ==
  ASSUME IInv, [Next]_vars, NEW r \in SubRows, subs'[r] # subs[r]
  PROVE  \E s \in Sessions :
           /\ pc[s] = "save"
           /\ ev[s] \in Events
           /\ r \in RowsToSave(s)
           /\ subs'[r] = SavedSubscription(s, r)
<1>1. PICK s \in Sessions : SaveInto(s) /\ SaveSubscription(s)
  <2>1. ASSUME NEW s \in Sessions, SaveInto(s)
        PROVE  SaveSubscription(s)
    BY <2>1 DEF SaveInto
  <2>2. ASSUME NEW s \in Sessions, Process(s) PROVE FALSE
    BY <2>2 DEF Process, Map, Judge, FindById, FindByCustomer, Found, Refuse, Abort,
       tables
  <2>3. ASSUME NEW h \in Hooks,
               \/ \E e \in Events : Deliver(h, e)
               \/ Insert(h) \/ KeepErrorRow(h) \/ Reply(h)
        PROVE  FALSE
    BY <2>3 DEF Deliver, Insert, KeepErrorRow, Reply, tables
  <2>4. ASSUME NEW t \in Replayers, Replay(t) PROVE FALSE
    BY <2>4 DEF Replay, tables
  <2>5. ASSUME NEW s \in Sessions, Fail(s) PROVE FALSE
    BY <2>5 DEF Fail, Abort, tables
  <2>6. ASSUME \/ \E c \in Customers : LinkCustomer(c)
               \/ \E e \in Events : UndeleteDeadLetter(e) \/ GrowOld(e)
               \/ CleanUp
               \/ UNCHANGED vars
        PROVE  FALSE
    BY <2>6 DEF LinkCustomer, UndeleteDeadLetter, GrowOld, CleanUp, vars, tables
  <2>7. QED
    BY <2>1, <2>2, <2>3, <2>4, <2>5, <2>6
       DEF Next, HookStep, ReplayStep, SaveDelivery, SaveReplay, Sessions
<1>2. PICK q \in RowsToSave(s) : subs' = [subs EXCEPT ![q] = SavedSubscription(s, q)]
  BY <1>1 DEF SaveSubscription
<1>3. ev[s] \in Events
  BY <1>1, SaveKeeps
<1>4. q = r /\ subs'[r] = SavedSubscription(s, r)
  BY <1>2 DEF IInv, TypeOK
<1>5. QED
  BY <1>1, <1>2, <1>3, <1>4 DEF SaveInto

\* A subscription comes to grant access without an active status only when a session
\* saves over a row that has changed since the session loaded it.
THEOREM FlagPartsByStaleSaveOnly == Spec => FlagPartsOnlyWhenStale
<1>1. ASSUME IInv, [Next]_vars, NEW r \in SubRows,
             FlagMatchesStatus(r), ~FlagMatchesStatus(r)'
      PROVE  StaleSaved(r)
  <2>1. subs'[r] # subs[r]
    BY <1>1 DEF FlagMatchesStatus
  <2>2. PICK s \in Sessions : /\ pc[s] = "save"
                              /\ ev[s] \in Events
                              /\ r \in RowsToSave(s)
                              /\ subs'[r] = SavedSubscription(s, r)
    BY <1>1, <2>1, SubscriptionChangedBySave
  <2>3. seenSub[s] # subs[r]
    <3>1. SUFFICES ASSUME seenSub[s] = subs[r] PROVE FALSE
      OBVIOUS
    <3>2. subs'[r] = SubscriptionOf(ev[s], seenSub[s])
      BY <1>1, <2>2, <3>1, SavedIsSubscription
    <3>3. FlagMatchesStatus(r)'
      <4>1. subs'[r].status = EventStatus[ev[s]]
        BY <3>2 DEF SubscriptionOf
      <4>2. subs'[r].entitled = Entitles(EventStatus[ev[s]], ev[s])
        BY <3>2 DEF SubscriptionOf
      <4>3. Entitles(EventStatus[ev[s]], ev[s]) => EventStatus[ev[s]] \in ActiveStatuses
        BY DEF Entitles
      <4>4. subs'[r].entitled => subs'[r].status \in ActiveStatuses
        BY <4>1, <4>2, <4>3, Zenon
      <4>5. QED
        BY <4>4 DEF FlagMatchesStatus
    <3>4. QED
      BY <1>1, <3>3
  <2>4. target[s] = r
    <3>1. target[s] = NoSubRow => seenSub[s] = NoSub /\ subs[r] = NoSub
      BY <1>1, <2>2 DEF RowsToSave, IInv, FoundSubscriptionExists
    <3>2. QED
      BY <2>2, <2>3, <3>1 DEF RowsToSave
  <2>5. QED
    BY <2>2, <2>3, <2>4 DEF StaleSaved
<1>2. IInv /\ [Next]_vars =>
        [\A r \in SubRows :
           FlagMatchesStatus(r) /\ ~FlagMatchesStatus(r)' => StaleSaved(r)]_vars
  BY <1>1
<1>3. QED
  BY <1>2, Inductive, PTL DEF FlagPartsOnlyWhenStale, Spec

-------------------------------------------------------------------------------
(* One session at a time *)

\* The hypothesis of this section: requests and replays come one after the other.
OneOpen == \A s, t \in Sessions : pc[s] # "idle" /\ pc[t] # "idle" => s = t

\* What session s has loaded is still so when it saves.
LoadStands(s) ==
  /\ pc[s] \notin {"save", "reply"} => target[s] = NoSubRow
  /\ pc[s] = "save" /\ target[s] # NoSubRow => seenSub[s] = subs[target[s]]

NothingStale == \A s \in Sessions : LoadStands(s)

\* A step of session s that ends where it has no row to save.
LEMMA MoveStands ==
  ASSUME IInv, OneOpen, NothingStale, NEW s \in Sessions, pc[s] # "idle",
         pc'[s] # "save", pc'[s] # "reply" => target'[s] = NoSubRow,
         \A t \in Sessions \ {s} : UNCHANGED <<pc[t], target[t]>>
  PROVE  NothingStale'
<1>1. \A t \in Sessions \ {s} : pc[t] = "idle"
  BY DEF OneOpen
<1>2. QED
  BY <1>1 DEF NothingStale, LoadStands

\* A step that loads and saves no subscription.
LEMMA StandStill ==
  ASSUME NothingStale, UNCHANGED <<pc, target, seenSub, subs>> PROVE NothingStale'
BY DEF NothingStale, LoadStands

LEMMA CloseStands ==
  ASSUME IInv, OneOpen, NothingStale, NEW s \in Sessions, pc[s] # "idle", Close(s)
  PROVE  NothingStale'
<1>1. pc'[s] = "idle" /\ target'[s] = NoSubRow
  BY DEF Close, Goto, IInv, TypeOK
<1>2. \A t \in Sessions \ {s} : UNCHANGED <<pc[t], target[t]>>
  BY DEF Close, Goto, IInv, TypeOK
<1>3. QED
  BY <1>1, <1>2, MoveStands

\* A session that goes on without a row in hand.
LEMMA GotoStands ==
  ASSUME IInv, NothingStale, NEW s \in Sessions, pc[s] \notin {"save", "reply"},
         NEW label, Goto(s, label), UNCHANGED <<target, seenSub, subs>>
  PROVE  NothingStale'
<1>1. target[s] = NoSubRow
  BY DEF NothingStale, LoadStands
<1>2. \A t \in Sessions \ {s} : pc'[t] = pc[t]
  BY DEF Goto, IInv, TypeOK
<1>3. QED
  BY <1>1, <1>2 DEF NothingStale, LoadStands

LEMMA FoundStands ==
  ASSUME IInv, NothingStale, NEW s \in Sessions, NEW r \in SubRows, Found(s, r)
  PROVE  NothingStale'
<1>1. target'[s] = r /\ seenSub'[s] = subs[r] /\ subs' = subs /\ pc'[s] = "save"
  BY DEF Found, Goto, tables, IInv, TypeOK
<1>2. \A t \in Sessions \ {s} : UNCHANGED <<pc[t], target[t], seenSub[t]>>
  BY DEF Found, Goto, IInv, TypeOK
<1>3. QED
  BY <1>1, <1>2 DEF NothingStale, LoadStands

LEMMA StepStands ==
  ASSUME IInv, OneOpen, NothingStale, [Next]_vars PROVE NothingStale'
<1>1. ASSUME NEW s \in Sessions, pc[s] # "idle", Close(s) PROVE NothingStale'
  BY <1>1, CloseStands
<1>2. ASSUME NEW s \in Sessions, Map(s) \/ FindById(s) \/ FindByCustomer(s)
      PROVE  NothingStale'
  <2>1. \/ \E r \in SubRows : Found(s, r)
        \/ \E label : /\ pc[s] \notin {"save", "reply"} /\ Goto(s, label)
                      /\ UNCHANGED <<target, seenSub, subs>>
    BY <1>2 DEF Map, Judge, FindById, FindByCustomer, tables, session
  <2>2. QED
    BY <2>1, FoundStands, GotoStands
<1>3. ASSUME NEW s \in Sessions, Refuse(s) \/ Fail(s) PROVE NothingStale'
  BY <1>1, <1>3 DEF Refuse, Fail, Abort
<1>4. ASSUME NEW h \in Hooks, SaveDelivery(h) PROVE NothingStale'
  <2>1. h \in Sessions /\ pc[h] = "save"
    BY <1>4 DEF SaveDelivery, SaveInto, Sessions
  <2>2. pc' = [pc EXCEPT ![h] = "reply"] /\ target' = target
    BY <1>4 DEF SaveDelivery, Goto, session
  <2>3. pc'[h] = "reply" /\ \A t \in Sessions \ {h} : UNCHANGED <<pc[t], target[t]>>
    BY <2>1, <2>2 DEF IInv, TypeOK
  <2>4. \A t \in Sessions \ {h} : pc[t] = "idle"
    BY <2>1 DEF OneOpen
  <2>5. QED
    BY <2>1, <2>2, <2>3, <2>4 DEF NothingStale, LoadStands
<1>5. ASSUME NEW h \in Hooks, Reply(h) \/ KeepErrorRow(h) PROVE NothingStale'
  BY <1>1, <1>5 DEF Reply, KeepErrorRow, Sessions
<1>6. ASSUME NEW r \in Replayers, SaveReplay(r) PROVE NothingStale'
  BY <1>1, <1>6 DEF SaveReplay, SaveInto, Sessions
<1>7. ASSUME NEW h \in Hooks, (\E e \in Events : Deliver(h, e)) \/ Insert(h)
      PROVE  NothingStale'
  <2>1. \E label : /\ pc[h] \notin {"save", "reply"} /\ Goto(h, label)
                   /\ label # "save" /\ UNCHANGED <<target, seenSub, subs>>
    BY <1>7 DEF Deliver, Insert, tables
  <2>2. QED
    BY <2>1, GotoStands DEF Sessions
<1>8. ASSUME NEW r \in Replayers, Replay(r) PROVE NothingStale'
  <2>1. /\ pc[r] \notin {"save", "reply"} /\ Goto(r, "map")
        /\ UNCHANGED <<target, seenSub, subs>>
    BY <1>8 DEF Replay, tables
  <2>2. QED
    BY <2>1, GotoStands DEF Sessions
<1>9. CASE \/ \E c \in Customers : LinkCustomer(c)
           \/ \E e \in Events : UndeleteDeadLetter(e) \/ GrowOld(e)
           \/ CleanUp
           \/ UNCHANGED vars
  BY <1>9, StandStill DEF LinkCustomer, UndeleteDeadLetter, GrowOld, CleanUp, vars, session,
     tables
<1>10. QED
  BY <1>2, <1>3, <1>4, <1>5, <1>6, <1>7, <1>8, <1>9
     DEF Next, HookStep, ReplayStep, Process, Sessions

\* No subscription grants access without an active status (_upsert_subscription).
FlagsMatch == \A r \in SubRows : FlagMatchesStatus(r)

\* While no two sessions are open at one time, a subscription never grants access without
\* an active status, whatever the order of the events, the replays and the failures.
THEOREM SerialFlag == Spec /\ []OneOpen => []FlagsMatch
<1> DEFINE Kept == \A r \in SubRows :
                     FlagMatchesStatus(r) /\ ~FlagMatchesStatus(r)' => StaleSaved(r)
<1>1. Init => NothingStale /\ FlagsMatch
  BY DEF Init, NothingStale, LoadStands, FlagsMatch, FlagMatchesStatus, NoSub
<1>2. IInv /\ OneOpen /\ NothingStale /\ [Next]_vars => NothingStale'
  BY StepStands
<1>3. NothingStale /\ FlagsMatch /\ [Kept]_vars => FlagsMatch'
  <2>1. ASSUME NothingStale, NEW r \in SubRows PROVE ~StaleSaved(r)
    BY <2>1, BillingAssumption DEF NothingStale, LoadStands, StaleSaved
  <2>2. ASSUME UNCHANGED vars, FlagsMatch PROVE FlagsMatch'
    BY <2>2 DEF vars, tables, FlagsMatch, FlagMatchesStatus
  <2>3. ASSUME NothingStale, FlagsMatch, Kept PROVE FlagsMatch'
    BY <2>1, <2>3 DEF FlagsMatch
  <2>4. QED
    BY <2>2, <2>3
<1>4. QED
  BY <1>1, <1>2, <1>3, Inductive, FlagPartsByStaleSaveOnly, PTL
     DEF Spec, FlagPartsOnlyWhenStale

-------------------------------------------------------------------------------
(* The inbox keeps what EventInbox promises *)

Unsettled == {"none", "received"}

\* What session s makes of its event is an outcome the event may have.
VerdictFits(s) ==
  /\ pc[s] \in {"by_id", "by_customer"} => verdict[s] = "processed" /\ ev[s] \notin Ignorable
  /\ pc[s] = "save" => verdict[s] \in Inbox!Outcomes(ev[s])

\* So is what is on record of event e.
RecordFits(e) == inbox[e].status \in Unsettled \cup Inbox!Outcomes(e)

\* A settled row that replayer r has loaded stays settled, and its effect stays.
LoadFits(r) ==
  seen[r].status \notin Unsettled =>
    /\ ev[r] \in Events
    /\ inbox[ev[r]].status \notin Unsettled
    /\ seen[r].status = "processed" => ev[r] \in applied

OutcomesFit ==
  /\ \A s \in Sessions : VerdictFits(s)
  /\ \A e \in Events : RecordFits(e)
  /\ \A r \in Replayers : LoadFits(r)

\* A step of session s, as the others see it.
LEMMA SessionStepFits ==
  ASSUME IInv, OutcomesFit, NEW s \in Sessions,
         \A t \in Sessions \ {s} :
           pc'[t] = pc[t] /\ ev'[t] = ev[t] /\ verdict'[t] = verdict[t] /\ seen'[t] = seen[t],
         VerdictFits(s)', s \in Replayers => LoadFits(s)',
         \A e \in Events : RecordFits(e)',
         \A e \in Events : inbox[e].status \notin Unsettled => inbox'[e].status \notin Unsettled,
         applied \subseteq applied'
  PROVE  OutcomesFit'
<1>1. ASSUME NEW t \in Sessions PROVE VerdictFits(t)'
  BY DEF OutcomesFit, VerdictFits
<1>2. ASSUME NEW r \in Replayers PROVE LoadFits(r)'
  BY DEF OutcomesFit, LoadFits, Sessions
<1>3. QED
  BY <1>1, <1>2 DEF OutcomesFit

\* A session that closes has judged and loaded nothing.
LEMMA CloseFits ==
  ASSUME IInv, NEW s \in Sessions, Close(s) PROVE VerdictFits(s)' /\ LoadFits(s)'
BY DEF IInv, TypeOK, Close, Goto, VerdictFits, LoadFits, NoRow, Unsettled

\* What a session commits: one outcome of its event, and the effect with it.  A replay
\* that finds its own verdict in the row leaves there what another replay has written.
LEMMA SavedOutcome ==
  ASSUME IInv, OutcomesFit, ProcessedIsApplied, NEW s \in Sessions, SaveInto(s)
  PROVE  \E o \in Inbox!Outcomes(ev[s]) :
           /\ \A e \in Events :
                inbox'[e].status = IF e = ev[s] THEN o ELSE inbox[e].status
           /\ applied' = IF o = "processed" THEN applied \cup {ev[s]} ELSE applied
<1> DEFINE current == IF s \in Hooks THEN Received ELSE inbox[ev[s]]
           o == Column(verdict[s], seen[s].status, current.status)
<1>1. /\ ev[s] \in Events
      /\ \A e \in Events : e # ev[s] => inbox'[e] = inbox[e]
  BY SavedEventRow
<1>2. inbox'[ev[s]].status = o
  BY <1>1 DEF SaveInto, SaveEventRow, IInv, TypeOK
<1>3. verdict[s] \in Inbox!Outcomes(ev[s])
  BY DEF OutcomesFit, VerdictFits, SaveInto
<1>4. applied' = IF verdict[s] = "processed" THEN applied \cup {ev[s]} ELSE applied
  BY DEF SaveInto
<1>5. verdict[s] \notin Unsettled
  BY <1>3 DEF Inbox!Outcomes, Unsettled
<1>6. CASE seen[s].status # verdict[s]
  <2>1. o = verdict[s]
    BY <1>6 DEF Column
  <2>2. QED
    BY <1>1, <1>2, <1>3, <1>4, <2>1
<1>7. CASE seen[s].status = verdict[s]
  <2>1. s \in Replayers /\ s \notin Hooks
    <3>1. s \in Hooks => seen[s] = Received
      BY DEF IInv, OpenInsertExclusive, HoldsInboxEntry, SaveInto
    <3>2. QED
      BY <3>1, <1>5, <1>7 DEF Received, Unsettled, Sessions
  <2>2. o = inbox[ev[s]].status
    BY <1>7, <2>1 DEF Column
  <2>3. /\ inbox[ev[s]].status \notin Unsettled
        /\ verdict[s] = "processed" => ev[s] \in applied
    BY <1>5, <1>7, <2>1 DEF OutcomesFit, LoadFits
  <2>4. o \in Inbox!Outcomes(ev[s])
    BY <1>1, <2>2, <2>3 DEF OutcomesFit, RecordFits
  <2>5. o = "processed" => ev[s] \in applied
    BY <1>1, <2>2 DEF ProcessedIsApplied
  <2>6. applied' = applied
    BY <1>4, <2>3
  <2>7. applied' = IF o = "processed" THEN applied \cup {ev[s]} ELSE applied
    BY <2>5, <2>6
  <2>8. QED
    BY <1>1, <1>2, <2>4, <2>7
<1>8. QED
  BY <1>6, <1>7

LEMMA SaveFits ==
  ASSUME IInv, OutcomesFit, ProcessedIsApplied, NEW s \in Sessions,
         \/ s \in Hooks /\ SaveDelivery(s)
         \/ s \in Replayers /\ SaveReplay(s)
  PROVE  OutcomesFit'
<1>1. SaveInto(s)
  BY DEF SaveDelivery, SaveReplay
<1>2. PICK o \in Inbox!Outcomes(ev[s]) :
        /\ \A e \in Events : inbox'[e].status = IF e = ev[s] THEN o ELSE inbox[e].status
        /\ applied' = IF o = "processed" THEN applied \cup {ev[s]} ELSE applied
  BY <1>1, SavedOutcome
<1>3. /\ \A e \in Events : RecordFits(e)'
      /\ \A e \in Events : inbox[e].status \notin Unsettled => inbox'[e].status \notin Unsettled
      /\ applied \subseteq applied'
  BY <1>2 DEF OutcomesFit, RecordFits, Inbox!Outcomes, Unsettled
<1>4. CASE s \in Hooks /\ SaveDelivery(s)
  <2>1. /\ \A t \in Sessions \ {s} : pc'[t] = pc[t]
        /\ UNCHANGED <<ev, verdict, seen>>
        /\ pc'[s] = "reply"
    BY <1>4 DEF SaveDelivery, Goto, session, IInv, TypeOK
  <2>2. VerdictFits(s)' /\ s \notin Replayers
    BY <1>4, <2>1, BillingAssumption DEF VerdictFits
  <2>3. QED
    BY <1>3, <2>1, <2>2, SessionStepFits
<1>5. CASE s \in Replayers /\ SaveReplay(s)
  <2>1. Close(s)
    BY <1>5 DEF SaveReplay
  <2>2. \A t \in Sessions \ {s} :
          pc'[t] = pc[t] /\ ev'[t] = ev[t] /\ verdict'[t] = verdict[t] /\ seen'[t] = seen[t]
    BY <2>1 DEF Close, Goto, IInv, TypeOK
  <2>3. QED
    BY <1>3, <2>1, <2>2, CloseFits, SessionStepFits
<1>6. QED
  BY <1>4, <1>5

LEMMA KeepErrorRowFits ==
  ASSUME IInv, OutcomesFit, NEW h \in Hooks, KeepErrorRow(h) PROVE OutcomesFit'
<1>1. h \in Sessions /\ HoldsInboxEntry(h) /\ ev[h] \in Events /\ inbox[ev[h]] = NoRow
  BY DEF Sessions, KeepErrorRow, HoldsInboxEntry, IInv, OpenInsertExclusive
<1>2. Close(h) /\ applied' = applied
  BY DEF KeepErrorRow, history
<1>3. \A e \in Events :
        inbox'[e].status = IF e = ev[h] THEN "received" ELSE inbox[e].status
  BY <1>1 DEF KeepErrorRow, IInv, TypeOK
<1>4. /\ \A e \in Events : RecordFits(e)'
      /\ \A e \in Events : inbox[e].status \notin Unsettled => inbox'[e].status \notin Unsettled
  BY <1>1, <1>3 DEF OutcomesFit, RecordFits, Unsettled, NoRow
<1>5. \A t \in Sessions \ {h} :
        pc'[t] = pc[t] /\ ev'[t] = ev[t] /\ verdict'[t] = verdict[t] /\ seen'[t] = seen[t]
  BY <1>2 DEF Close, Goto, IInv, TypeOK
<1>6. QED
  BY <1>1, <1>2, <1>4, <1>5, CloseFits, SessionStepFits

\* The rows and what has been applied stay, and session s moves.
LEMMA QuietStepFits ==
  ASSUME IInv, OutcomesFit, NEW s \in Sessions,
         inbox' = inbox, applied' = applied,
         \A t \in Sessions \ {s} :
           pc'[t] = pc[t] /\ ev'[t] = ev[t] /\ verdict'[t] = verdict[t] /\ seen'[t] = seen[t],
         VerdictFits(s)', s \in Replayers => LoadFits(s)'
  PROVE  OutcomesFit'
<1>1. \A e \in Events : RecordFits(e)'
  BY DEF OutcomesFit, RecordFits
<1>2. QED
  BY <1>1, SessionStepFits

LEMMA AbortFits ==
  ASSUME IInv, OutcomesFit, NEW s \in Sessions, Abort(s) PROVE OutcomesFit'
<1>1. Close(s) /\ inbox' = inbox /\ applied' = applied
  BY DEF Abort, tables, history
<1>2. \A t \in Sessions \ {s} :
        pc'[t] = pc[t] /\ ev'[t] = ev[t] /\ verdict'[t] = verdict[t] /\ seen'[t] = seen[t]
  BY <1>1 DEF Close, Goto, IInv, TypeOK
<1>3. QED
  BY <1>1, <1>2, CloseFits, QuietStepFits

LEMMA ProcessFits ==
  ASSUME IInv, OutcomesFit, NEW s \in Sessions, Process(s) PROVE OutcomesFit'
<1>1. ASSUME NEW outcome, NEW label, Judge(s, outcome, label),
             VerdictFits(s)'
      PROVE  OutcomesFit'
  <2>1. /\ inbox' = inbox /\ applied' = applied /\ seen' = seen /\ ev' = ev
        /\ \A t \in Sessions \ {s} : pc'[t] = pc[t] /\ verdict'[t] = verdict[t]
    BY <1>1 DEF Judge, Goto, tables, history, IInv, TypeOK
  <2>2. s \in Replayers => LoadFits(s)'
    BY <2>1 DEF OutcomesFit, LoadFits
  <2>3. QED
    BY <1>1, <2>1, <2>2, QuietStepFits
<1>2. CASE Map(s)
  <2>1. PICK outcome, label :
          /\ Judge(s, outcome, label)
          /\ \/ label = "save" /\ outcome \in Inbox!Outcomes(ev[s])
             \/ label = "by_id" /\ outcome = "processed" /\ ev[s] \notin Ignorable
    BY <1>2 DEF Map, Inbox!Outcomes
  <2>2. pc'[s] = label /\ verdict'[s] = outcome /\ ev' = ev
    BY <2>1 DEF Judge, Goto, IInv, TypeOK
  <2>3. VerdictFits(s)'
    BY <2>1, <2>2 DEF VerdictFits
  <2>4. QED
    BY <1>1, <2>1, <2>3
<1>3. CASE FindById(s) \/ FindByCustomer(s)
  <2>1. /\ pc[s] \in {"by_id", "by_customer"}
        /\ pc'[s] \in {"by_customer", "save"}
        /\ \A t \in Sessions \ {s} : pc'[t] = pc[t]
        /\ inbox' = inbox /\ applied' = applied /\ seen' = seen /\ ev' = ev
        /\ verdict' = verdict
    BY <1>3 DEF FindById, FindByCustomer, Found, Goto, tables, session, history, IInv, TypeOK
  <2>2. VerdictFits(s)' /\ (s \in Replayers => LoadFits(s)')
    BY <2>1 DEF OutcomesFit, VerdictFits, LoadFits, Inbox!Outcomes
  <2>3. QED
    BY <2>1, <2>2, QuietStepFits
<1>4. CASE Refuse(s)
  BY <1>4, AbortFits DEF Refuse
<1>5. QED
  BY <1>2, <1>3, <1>4 DEF Process

LEMMA StartFits ==
  ASSUME IInv, OutcomesFit, ProcessedIsApplied
  PROVE  /\ \A h \in Hooks :
              (\E e \in Events : Deliver(h, e)) \/ Insert(h) \/ Reply(h) => OutcomesFit'
         /\ \A r \in Replayers : Replay(r) => OutcomesFit'
<1>1. ASSUME NEW h \in Hooks, (\E e \in Events : Deliver(h, e)) \/ Insert(h) \/ Reply(h)
      PROVE  OutcomesFit'
  <2>1. h \in Sessions /\ h \notin Replayers
    BY BillingAssumption DEF Sessions
  <2>2. /\ inbox' = inbox /\ applied' = applied
        /\ pc'[h] \notin {"by_id", "by_customer", "save"}
        /\ \A t \in Sessions \ {h} :
             pc'[t] = pc[t] /\ ev'[t] = ev[t] /\ verdict'[t] = verdict[t] /\ seen'[t] = seen[t]
    BY <1>1, <2>1 DEF Deliver, Insert, Reply, Close, Goto, tables, history, IInv, TypeOK
  <2>3. VerdictFits(h)'
    BY <2>2 DEF VerdictFits
  <2>4. QED
    BY <2>1, <2>2, <2>3, QuietStepFits
<1>2. ASSUME NEW r \in Replayers, Replay(r) PROVE OutcomesFit'
  <2>1. r \in Sessions
    BY DEF Sessions
  <2>2. PICK e \in Events : ev' = [ev EXCEPT ![r] = e] /\ seen' = [seen EXCEPT ![r] = inbox[e]]
    BY <1>2 DEF Replay
  <2>3. /\ inbox' = inbox /\ applied' = applied /\ verdict' = verdict /\ pc'[r] = "map"
        /\ \A t \in Sessions \ {r} : pc'[t] = pc[t] /\ ev'[t] = ev[t] /\ seen'[t] = seen[t]
        /\ ev'[r] = e /\ seen'[r] = inbox[e]
    BY <1>2, <2>1, <2>2 DEF Replay, Goto, tables, history, IInv, TypeOK
  <2>4. VerdictFits(r)' /\ LoadFits(r)'
    BY <2>3 DEF VerdictFits, LoadFits, ProcessedIsApplied
  <2>5. QED
    BY <2>1, <2>3, <2>4, QuietStepFits
<1>3. QED
  BY <1>1, <1>2

\* Undeletion leaves every status.
LEMMA UndeleteKeepsStatus ==
  ASSUME IInv, NEW e \in Events, UndeleteDeadLetter(e)
  PROVE  \A d \in Events : inbox'[d].status = inbox[d].status
<1>1. inbox[e] \in EventRow /\ inbox' = [inbox EXCEPT ![e].dead = FALSE]
  BY DEF UndeleteDeadLetter, IInv, TypeOK
<1>2. QED
  BY <1>1 DEF EventRow, IInv, TypeOK

LEMMA SameStatusFits ==
  ASSUME OutcomesFit, \A d \in Events : inbox'[d].status = inbox[d].status,
         UNCHANGED <<pc, ev, verdict, seen, applied>>
  PROVE  OutcomesFit'
BY DEF OutcomesFit, VerdictFits, RecordFits, LoadFits

\* A replayer that had loaded a deleted row has nothing loaded.
LEMMA CleanUpFits ==
  ASSUME IInv, OutcomesFit, CleanUp PROVE OutcomesFit'
<1> DEFINE deleted == {e \in old : inbox[e].status \in {"processed", "ignored"}}
<1>1. /\ inbox' = [e \in Events |-> IF e \in deleted THEN NoRow ELSE inbox[e]]
      /\ seen' = [s \in Sessions |->
           IF s \in Replayers /\ ev[s] \in deleted THEN NoRow ELSE seen[s]]
      /\ UNCHANGED <<pc, ev, verdict, applied>>
  BY DEF CleanUp
<1>2. \A s \in Sessions : VerdictFits(s)'
  BY <1>1 DEF OutcomesFit, VerdictFits
<1>3. \A e \in Events : RecordFits(e)'
  BY <1>1 DEF OutcomesFit, RecordFits, NoRow, Unsettled
<1>4. \A r \in Replayers : LoadFits(r)'
  BY <1>1 DEF OutcomesFit, LoadFits, NoRow, Unsettled, Sessions
<1>5. QED
  BY <1>2, <1>3, <1>4 DEF OutcomesFit

LEMMA StepFits ==
  ASSUME IInv, OutcomesFit, ProcessedIsApplied, [Next]_vars PROVE OutcomesFit'
<1>1. ASSUME NEW h \in Hooks,
             \/ \E e \in Events : Deliver(h, e)
             \/ Insert(h) \/ HookStep(h) \/ KeepErrorRow(h)
      PROVE  OutcomesFit'
  BY <1>1, StartFits, ProcessFits, SaveFits, KeepErrorRowFits DEF HookStep, Sessions
<1>2. ASSUME NEW r \in Replayers, Replay(r) \/ ReplayStep(r) PROVE OutcomesFit'
  BY <1>2, StartFits, ProcessFits, SaveFits DEF ReplayStep, Sessions
<1>3. ASSUME NEW s \in Sessions, Fail(s) PROVE OutcomesFit'
  BY <1>3, AbortFits DEF Fail
<1>4. ASSUME NEW e \in Events, UndeleteDeadLetter(e) PROVE OutcomesFit'
  BY <1>4, UndeleteKeepsStatus, SameStatusFits DEF UndeleteDeadLetter, session, history
<1>5. ASSUME \/ \E c \in Customers : LinkCustomer(c)
             \/ \E e \in Events : GrowOld(e)
             \/ UNCHANGED vars
      PROVE  OutcomesFit'
  BY <1>5, SameStatusFits DEF LinkCustomer, GrowOld, vars, tables, session, history
<1>6. QED
  BY <1>1, <1>2, <1>3, <1>4, <1>5, CleanUpFits DEF Next

LEMMA OutcomesAlwaysFit == Spec => []OutcomesFit
<1>1. Init => OutcomesFit
  BY DEF Init, OutcomesFit, VerdictFits, RecordFits, LoadFits, NoRow, Unsettled, Sessions
<1>2. IInv /\ ProcessedIsApplied /\ [Next]_vars /\ OutcomesFit => OutcomesFit'
  BY StepFits
<1>3. QED
  BY <1>1, <1>2, Inductive, ProcessedMeansApplied, PTL DEF Spec

LEMMA StatusChange ==
  ASSUME NEW e \in Events, NEW o,
         \A d \in Events : inbox'[d].status = IF d = e THEN o ELSE inbox[d].status
  PROVE  StatusOnRecord' = [StatusOnRecord EXCEPT ![e] = o]
BY DEF StatusOnRecord

LEMMA StatusKept ==
  ASSUME \A d \in Events : inbox'[d].status = inbox[d].status PROVE StatusOnRecord' = StatusOnRecord
BY DEF StatusOnRecord

\* The commit of an event settles it: the first time for a hook, again for a replayer.
LEMMA SaveSettles ==
  ASSUME IInv, OutcomesFit, ProcessedIsApplied, NEW s \in Sessions, SaveInto(s)
  PROVE  ev[s] \in Events /\ (Inbox!TakeIn(ev[s]) \/ Inbox!TryAgain(ev[s]))
<1>1. ev[s] \in Events
  BY SavedEventRow
<1>2. PICK o \in Inbox!Outcomes(ev[s]) :
        /\ \A e \in Events : inbox'[e].status = IF e = ev[s] THEN o ELSE inbox[e].status
        /\ applied' = IF o = "processed" THEN applied \cup {ev[s]} ELSE applied
  BY SavedOutcome
<1>3. StatusOnRecord' = [StatusOnRecord EXCEPT ![ev[s]] = o]
  BY <1>1, <1>2, StatusChange
<1>4. acked' = acked /\ cleaned' = cleaned
  BY DEF SaveInto
<1>5. Inbox!Settle(ev[s])
  BY <1>2, <1>3, <1>4 DEF Inbox!Settle, StatusOnRecord
<1>6. QED
  BY <1>1, <1>5 DEF Inbox!TakeIn, Inbox!TryAgain

LEMMA KeepErrorRowNotes ==
  ASSUME IInv, NEW h \in Hooks, KeepErrorRow(h)
  PROVE  ev[h] \in Events /\ Inbox!TakeNote(ev[h])
<1>1. HoldsInboxEntry(h) /\ ev[h] \in Events /\ inbox[ev[h]] = NoRow
  BY DEF KeepErrorRow, HoldsInboxEntry, IInv, OpenInsertExclusive
<1>2. \A e \in Events :
        inbox'[e].status = IF e = ev[h] THEN "received" ELSE inbox[e].status
  BY <1>1 DEF KeepErrorRow, IInv, TypeOK
<1>3. StatusOnRecord' = [StatusOnRecord EXCEPT ![ev[h]] = "received"]
  BY <1>1, <1>2, StatusChange
<1>4. UNCHANGED <<applied, acked, cleaned>>
  BY DEF KeepErrorRow, history
<1>5. QED
  BY <1>1, <1>3, <1>4 DEF Inbox!TakeNote, StatusOnRecord, NoRow

LEMMA ReplyTells ==
  ASSUME IInv, NEW h \in Hooks, Reply(h)
  PROVE  ev[h] \in Events /\ Inbox!Tell(ev[h])
<1>1. ev[h] \in Recorded /\ ev[h] \in Events
  BY DEF Reply, IInv, OutcomesRecorded, Recorded, TypeOK
<1>2. inbox[ev[h]] # NoRow => inbox[ev[h]].status # "none"
  BY <1>1 DEF IInv, TypeOK, EventRow
<1>3. inbox' = inbox /\ acked' = acked \cup {ev[h]} /\ UNCHANGED <<applied, cleaned>>
  BY DEF Reply, tables
<1>4. StatusOnRecord[ev[h]] # "none" \/ ev[h] \in cleaned
  BY <1>1, <1>2 DEF Recorded, StatusOnRecord
<1>5. StatusOnRecord' = StatusOnRecord
  BY <1>3 DEF StatusOnRecord
<1>6. QED
  BY <1>1, <1>3, <1>4, <1>5 DEF Inbox!Tell, StatusOnRecord

LEMMA CleanUpForgets ==
  ASSUME IInv, CleanUp PROVE \E S \in SUBSET Events : Inbox!Forget(S)
<1> DEFINE deleted == {e \in old : inbox[e].status \in {"processed", "ignored"}}
<1>1. /\ inbox' = [e \in Events |-> IF e \in deleted THEN NoRow ELSE inbox[e]]
      /\ cleaned' = cleaned \cup deleted
      /\ UNCHANGED <<acked, applied>>
  BY DEF CleanUp
<1>2. deleted \in SUBSET Events
  BY DEF IInv, TypeOK
<1>3. StatusOnRecord' = [e \in Events |-> IF e \in deleted THEN "none" ELSE StatusOnRecord[e]]
  BY <1>1, <1>2 DEF StatusOnRecord, NoRow
<1>4. \A e \in deleted : StatusOnRecord[e] \in {"processed", "ignored"}
  BY <1>2 DEF StatusOnRecord
<1>5. Inbox!Forget(deleted)
  BY <1>1, <1>3, <1>4 DEF Inbox!Forget, StatusOnRecord
<1>6. QED
  BY <1>2, <1>5 DEF Inbox!Forget

\* What the provider and the operators cannot see.
LEMMA Unseen ==
  ASSUME \A d \in Events : inbox'[d].status = inbox[d].status,
         UNCHANGED <<applied, acked, cleaned>>
  PROVE  UNCHANGED Inbox!vars
BY StatusKept DEF Inbox!vars, StatusOnRecord

\* Every step of the webhooks is a step of the inbox or changes nothing of it.
LEMMA StepRefines ==
  ASSUME IInv, OutcomesFit, ProcessedIsApplied, [Next]_vars PROVE [Inbox!Next]_(Inbox!vars)
<1>1. ASSUME NEW s \in Sessions, SaveInto(s) PROVE Inbox!Next
  <2>1. ev[s] \in Events
    BY <1>1, SaveSettles
  <2>2. Inbox!TakeIn(ev[s]) \/ Inbox!TryAgain(ev[s])
    BY <1>1, SaveSettles
  <2>3. QED
    BY <2>1, <2>2 DEF Inbox!Next, Inbox!TakeIn, Inbox!TryAgain, Inbox!TakeNote, Inbox!Settle
<1>2. ASSUME NEW h \in Hooks, KeepErrorRow(h) PROVE Inbox!Next
  <2>1. ev[h] \in Events
    BY <1>2, KeepErrorRowNotes
  <2>2. Inbox!TakeNote(ev[h])
    BY <1>2, KeepErrorRowNotes
  <2>3. QED
    BY <2>1, <2>2 DEF Inbox!Next, Inbox!TakeIn, Inbox!TryAgain, Inbox!TakeNote, Inbox!Settle
<1>3. ASSUME NEW h \in Hooks, Reply(h) PROVE Inbox!Next
  BY <1>3, ReplyTells DEF Inbox!Next
<1>4. CASE CleanUp
  BY <1>4, CleanUpForgets DEF Inbox!Next
<1>5. ASSUME NEW s \in Sessions, Process(s) \/ Fail(s) PROVE UNCHANGED Inbox!vars
  <2>1. UNCHANGED <<inbox, applied, acked, cleaned>>
    BY <1>5 DEF Process, Map, Judge, FindById, FindByCustomer, Found, Refuse, Fail, Abort,
       tables, history
  <2>2. QED
    BY <2>1, Unseen
<1>6. ASSUME \/ \E h \in Hooks : (\E e \in Events : Deliver(h, e)) \/ Insert(h)
             \/ \E r \in Replayers : Replay(r)
             \/ \E c \in Customers : LinkCustomer(c)
             \/ \E e \in Events : GrowOld(e)
             \/ UNCHANGED vars
      PROVE  UNCHANGED Inbox!vars
  <2>1. UNCHANGED <<inbox, applied, acked, cleaned>>
    BY <1>6 DEF Deliver, Insert, Replay, LinkCustomer, GrowOld, vars, tables, history
  <2>2. QED
    BY <2>1, Unseen
<1>7. ASSUME NEW e \in Events, UndeleteDeadLetter(e) PROVE UNCHANGED Inbox!vars
  BY <1>7, UndeleteKeepsStatus, Unseen DEF UndeleteDeadLetter, history
<1>8. QED
  BY <1>1, <1>2, <1>3, <1>4, <1>5, <1>6, <1>7
     DEF Next, HookStep, ReplayStep, SaveDelivery, SaveReplay, Sessions

\* Sessions that read without locks, are refused, die and repeat each other's work, and a
\* clean-up in between, keep the promise of one inbox: an event is taken in once while it
\* is on record, its effect comes with the status processed, a replay settles it, and only
\* what is settled is forgotten.
THEOREM RefinesEventInbox == Spec => ImplementsEventInbox
<1>1. Init => Inbox!Init
  BY DEF Init, Inbox!Init, NoRow, StatusOnRecord
<1>2. IInv /\ OutcomesFit /\ ProcessedIsApplied /\ [Next]_vars => [Inbox!Next]_(Inbox!vars)
  BY StepRefines
<1>3. QED
  BY <1>1, <1>2, Inductive, OutcomesAlwaysFit, ProcessedMeansApplied, PTL
     DEF Spec, ImplementsEventInbox, Inbox!Spec

===============================================================================
